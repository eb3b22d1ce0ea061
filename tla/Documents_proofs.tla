-------------------------- MODULE Documents_proofs --------------------------
(***************************************************************************)
(* No document overwrites another: gateways, routes, policies and           *)
(* certificates have names of their own, as long as the Ingresses have.      *)
(***************************************************************************)
EXTENDS Requests_proofs

-----------------------------------------------------------------------------
(* Sequences. *)

\* The members of t are among the first m of s, those of two places from two places.
Picks(t, s, m) ==
  /\ \A i \in 1..Len(t) : \E k \in 1..m : t[i] = s[k]
  /\ \A i, j \in 1..Len(t) : i < j => \E k, l \in 1..m : k # l /\ t[i] = s[k] /\ t[j] = s[l]

LEMMA PicksOneMore ==
  ASSUME NEW s, NEW m \in Nat, NEW n, n = m + 1, NEW t, IsSeq(t), Picks(t, s, m), NEW w, w \in {<<>>, <<s[n]>>}
  PROVE  Picks(t \o w, s, n)
<1> DEFINE u == t \o w
<1>1. IsSeq(w) /\ Len(w) \in Nat /\ Len(w) <= 1 /\ (Len(w) = 1 => w[1] = s[n])
  <2>1. CASE w = <<>>
    <3>1. Len(w) = 0
      BY <2>1
    <3>2. IsSeq(w)
      BY <2>1, ShortSeqs
    <3> QED
      BY <3>1, <3>2
  <2>2. CASE w = <<s[n]>>
    <3> DEFINE x == s[n]
    <3>1. w = <<x>>
      BY <2>2
    <3> HIDE DEF x
    <3>2. IsSeq(w) /\ Len(w) = 1 /\ w[1] = x
      BY <3>1, ShortSeqs
    <3> QED
      BY <3>2 DEF x
  <2> QED
    BY <2>1, <2>2
<1>2. Len(t) \in Nat
  BY SeqMembers
<1>3. Len(u) = Len(t) + Len(w)
  BY <1>1, ConcatIsSeq
<1>4. \A i \in 1..Len(t) : u[i] = t[i]
  BY <1>1, ConcatIsSeq
<1>5. \A i \in 1..Len(w) : u[Len(t) + i] = w[i]
  BY <1>1, ConcatIsSeq
<1> HIDE DEF u
<1>6. ASSUME NEW i \in 1..Len(u)
      PROVE  \/ i \in 1..Len(t) /\ u[i] = t[i]
             \/ i = Len(t) + 1 /\ u[i] = s[n]
  <2>1. CASE i <= Len(t)
    BY <1>2, <1>4, <2>1
  <2>2. CASE i > Len(t)
    <3> DEFINE a == Len(t)
               b == Len(w)
    <3>1. i \in Nat /\ i <= a + b /\ i > a /\ a \in Nat /\ b \in Nat /\ b <= 1
      BY <1>1, <1>2, <1>3, <2>2
    <3> HIDE DEF a, b
    <3>2. i = a + 1 /\ b = 1 /\ 1 \in 1..b
      BY <3>1
    <3> QED
      BY <1>1, <1>5, <3>2 DEF a, b
  <2> QED
    BY <1>2, <2>1, <2>2
<1>7. 1..m \subseteq 1..n /\ n \in 1..n /\ n \notin 1..m
  OBVIOUS
<1>8. ASSUME NEW i \in 1..Len(u)  PROVE \E k \in 1..n : u[i] = s[k]
  BY <1>6, <1>7 DEF Picks
<1>9. ASSUME NEW i \in 1..Len(u), NEW j \in 1..Len(u), i < j
      PROVE  \E k, l \in 1..n : k # l /\ u[i] = s[k] /\ u[j] = s[l]
  <2>1. i \in 1..Len(t) /\ u[i] = t[i]
    BY <1>1, <1>2, <1>3, <1>6, <1>9
  <2>2. CASE j \in 1..Len(t) /\ u[j] = t[j]
    <3>1. PICK k \in 1..m : \E l \in 1..m : k # l /\ t[i] = s[k] /\ t[j] = s[l]
      BY <1>9, <2>1, <2>2 DEF Picks
    <3> QED
      BY <1>7, <2>1, <2>2, <3>1
  <2>3. CASE u[j] = s[n]
    <3>1. PICK k \in 1..m : t[i] = s[k]
      BY <2>1 DEF Picks
    <3> QED
      BY <1>7, <2>1, <2>3, <3>1
  <2> QED
    BY <1>6, <2>2, <2>3
<1>10. Picks(u, s, n)
  BY <1>8, <1>9 DEF Picks
<1> QED
  BY <1>10 DEF u

\* Two places of Kept come from two places.
LEMMA KeptPicks ==
  ASSUME NEW s, IsSeq(s), NEW S
  PROVE  IsSeq(Kept(s, S)) /\ Picks(Kept(s, S), s, Len(s))
<1> DEFINE ss == [i \in 1..Len(s) |-> IF s[i] \in S THEN <<s[i]>> ELSE <<>>]
           flat == CHOOSE f : IsFlat(f, ss, Len(ss))
           T == {m \in Nat : m \in 1..Len(s) => Picks(flat[m], s, m)}
<1>1. Len(s) \in Nat /\ s \in Seq(ToSet(s)) /\ IsSeq(Kept(s, S))
  BY SeqMembers, KeptMembers
<1>2. Len(ss) = Len(s) /\ ss \in Seq(Seq(ToSet(s))) /\ \A i \in 1..Len(s) : ss[i] \in {<<>>, <<s[i]>>}
  BY <1>1
<1>3. Kept(s, S) = FlattenSeq(ss)
  BY DEF Kept
<1>4. IsFlat(flat, ss, Len(ss))
  <2>1. Len(ss) \in Nat
    BY <1>1, <1>2
  <2> HIDE DEF ss
  <2>2. \E f : IsFlat(f, ss, Len(ss))
    BY <2>1, FlatExists
  <2> QED
    BY <2>2, Zenon
<1>5. FlattenSeq(ss) = IF Len(ss) = 0 THEN ss ELSE flat[Len(ss)]
  <2> HIDE DEF ss
  <2>1. CASE Len(ss) = 0
    BY <2>1 DEF FlattenSeq
  <2>2. CASE Len(ss) # 0
    <3>1. FlattenSeq(ss) =
            (CHOOSE f : f = [i \in 1..Len(ss) |-> IF i = 1 THEN ss[i] ELSE f[i-1] \o ss[i]])[Len(ss)]
      BY <2>2, Zenon DEF FlattenSeq
    <3> QED
      BY <2>2, <3>1, Zenon DEF IsFlat
  <2> QED
    BY <2>1, <2>2
<1> HIDE DEF flat, ss
<1>6. \A m \in 1..Len(s) : IsSeq(flat[m])
  <2>1. \A m \in 1..Len(ss) : flat[m] \in Seq(ToSet(s))
    BY <1>2, <1>4, FlatType
  <2> QED
    BY <1>2, <2>1, SeqIsSeq
<1>7. T \in SUBSET Nat /\ 0 \in T
  OBVIOUS
<1>8. ASSUME NEW m \in T, m + 1 \in 1..Len(s)  PROVE Picks(flat[m + 1], s, m + 1)
  <2> DEFINE n == m + 1
  <2>1. n \in 1..Len(ss) /\ m \in Nat /\ (n = 1 <=> m = 0) /\ n - 1 = m /\ (m # 0 => m \in 1..Len(s))
    BY <1>1, <1>2, <1>8
  <2>2. flat[n] = IF n = 1 THEN ss[n] ELSE flat[n-1] \o ss[n]
    BY <1>4, <2>1 DEF IsFlat
  <2>3. ss[n] \in {<<>>, <<s[n]>>}
    BY <1>2, <2>1
  <2>4. m # 0 => IsSeq(flat[m]) /\ Picks(flat[m], s, m)
    BY <1>6, <2>1
  <2>5. IsSeq(<<>>) /\ Picks(<<>>, s, m)
    <3> DEFINE e == <<>>
    <3>1. IsSeq(e) /\ Len(e) = 0
      BY ShortSeqs
    <3> HIDE DEF e
    <3>2. Picks(e, s, m)
      BY <3>1 DEF Picks
    <3> QED
      BY <3>1, <3>2 DEF e
  <2>6. <<>> \o ss[n] = ss[n]
    BY <2>3
  <2>7. n = m + 1
    OBVIOUS
  <2> HIDE DEF n, T
  <2>8. CASE m = 0
    <3>1. Picks(<<>> \o ss[n], s, n)
      BY <2>1, <2>3, <2>5, <2>7, PicksOneMore
    <3> QED
      BY <2>1, <2>2, <2>6, <2>8, <3>1 DEF n
  <2>9. CASE m # 0
    <3>1. Picks(flat[m] \o ss[n], s, n)
      BY <2>1, <2>3, <2>4, <2>7, <2>9, PicksOneMore
    <3>2. flat[n] = flat[m] \o ss[n]
      BY <2>1, <2>2, <2>9
    <3> QED
      BY <3>1, <3>2 DEF n
  <2> QED
    BY <2>8, <2>9
<1>9. T = Nat
  <2>1. ASSUME NEW m \in T  PROVE m + 1 \in T
    <3>1. m + 1 \in Nat
      OBVIOUS
    <3> QED
      BY <1>8, <3>1
  <2> HIDE DEF T
  <2> QED
    BY <1>7, <2>1, NoCounterexample
<1>10. Len(s) # 0 => Picks(flat[Len(s)], s, Len(s))
  <2>1. Len(s) \in T
    BY <1>1, <1>9
  <2> QED
    BY <1>1, <2>1
<1>11. CASE Len(s) = 0
  <2>1. Len(Kept(s, S)) = 0
    BY <1>2, <1>3, <1>5, <1>11
  <2> QED
    BY <1>1, <2>1 DEF Picks
<1>12. CASE Len(s) # 0
  BY <1>1, <1>2, <1>3, <1>5, <1>10, <1>12
<1> QED
  BY <1>11, <1>12

LEMMA DistinctKept ==
  ASSUME NEW nodes, IsSeq(nodes), DistinctNames(nodes), NEW S
  PROVE  IsSeq(Kept(nodes, S)) /\ DistinctNames(Kept(nodes, S))
<1> DEFINE t == Kept(nodes, S)
<1>1. IsSeq(t) /\ Picks(t, nodes, Len(nodes)) /\ Len(t) \in Nat
  BY KeptPicks, SeqMembers
<1> HIDE DEF t
<1>2. ASSUME NEW i \in 1..Len(t), NEW j \in 1..Len(t), i < j, t[i].ns = t[j].ns, t[i].name = t[j].name
      PROVE  FALSE
  <2>1. PICK k \in 1..Len(nodes) : \E l \in 1..Len(nodes) : k # l /\ t[i] = nodes[k] /\ t[j] = nodes[l]
    BY <1>1, <1>2 DEF Picks
  <2>2. PICK l \in 1..Len(nodes) : k # l /\ t[i] = nodes[k] /\ t[j] = nodes[l]
    BY <2>1
  <2> QED
    BY <1>2, <2>2 DEF DistinctNames
<1>3. \A i, j \in 1..Len(t) : i = j \/ i < j \/ j < i
  BY <1>1
<1>4. DistinctNames(t)
  BY <1>2, <1>3 DEF DistinctNames
<1> QED
  BY <1>1, <1>4 DEF t

LEMMA DistinctConcat ==
  ASSUME NEW s, NEW t, IsSeq(s), IsSeq(t), DistinctNames(s), DistinctNames(t),
         \A i \in 1..Len(s) : \A j \in 1..Len(t) : ~(s[i].ns = t[j].ns /\ s[i].name = t[j].name)
  PROVE  DistinctNames(s \o t)
<1> DEFINE u == s \o t
           Same(x, y) == x.ns = y.ns /\ x.name = y.name
<1>1. Len(s) \in Nat /\ Len(t) \in Nat
  BY SeqMembers
<1>2. Len(u) = Len(s) + Len(t)
  BY ConcatIsSeq
<1>3. \A i \in 1..Len(s) : u[i] = s[i]
  BY ConcatIsSeq
<1>4. \A i \in 1..Len(t) : u[Len(s) + i] = t[i]
  BY ConcatIsSeq
<1> HIDE DEF u
<1>5. ASSUME NEW i \in 1..Len(u)
      PROVE  \/ i \in 1..Len(s) /\ u[i] = s[i]
             \/ i - Len(s) \in 1..Len(t) /\ u[i] = t[i - Len(s)] /\ i \in Nat
  <2>1. CASE i <= Len(s)
    BY <1>1, <1>3, <2>1
  <2>2. CASE i > Len(s)
    <3>1. i - Len(s) \in 1..Len(t) /\ Len(s) + (i - Len(s)) = i
      BY <1>1, <1>2, <2>2
    <3> QED
      BY <1>4, <3>1
  <2> QED
    BY <1>1, <2>1, <2>2
<1>6. /\ \A i, j \in 1..Len(s) : Same(s[i], s[j]) => i = j
      /\ \A i, j \in 1..Len(t) : Same(t[i], t[j]) => i = j
      /\ \A i \in 1..Len(s) : \A j \in 1..Len(t) : ~Same(s[i], t[j]) /\ ~Same(t[j], s[i])
  BY DEF DistinctNames
<1>7. ASSUME NEW i \in 1..Len(u), NEW j \in 1..Len(u), Same(u[i], u[j])  PROVE i = j
  <2> HIDE DEF Same
  <2>1. CASE i \in 1..Len(s) /\ u[i] = s[i]
    BY <1>5, <1>6, <1>7, <2>1
  <2>2. CASE i - Len(s) \in 1..Len(t) /\ u[i] = t[i - Len(s)] /\ i \in Nat
    <3>1. j - Len(s) \in 1..Len(t) /\ u[j] = t[j - Len(s)] /\ j \in Nat
      BY <1>5, <1>6, <1>7, <2>2
    <3>2. i - Len(s) = j - Len(s)
      BY <1>6, <1>7, <2>2, <3>1
    <3> QED
      BY <1>1, <2>2, <3>1, <3>2
  <2> QED
    BY <1>5, <2>1, <2>2
<1>8. DistinctNames(u)
  BY <1>7 DEF DistinctNames
<1> QED
  BY <1>8 DEF u

-----------------------------------------------------------------------------
(* Names. *)

LEMMA LastOfConcat ==
  ASSUME NEW a, NEW s, IsSeq(a), IsSeq(s), s # <<>>
  PROVE  Last(a \o s) = Last(s)
<1> DEFINE u == a \o s
<1>1. Len(a) \in Nat /\ Len(s) \in Nat /\ Len(s) >= 1
  BY SeqMembers, TailIsSeq
<1>2. Len(u) = Len(a) + Len(s)
  BY ConcatIsSeq
<1>3. u[Len(a) + Len(s)] = s[Len(s)]
  BY <1>1, ConcatIsSeq
<1> HIDE DEF u
<1>4. Last(u) = Last(s)
  BY <1>2, <1>3 DEF Last
<1> QED
  BY <1>4 DEF u

\* What stands before the same end is the same.
LEMMA SameBeforeEnd ==
  ASSUME NEW a, NEW b, NEW s, IsSeq(a), IsSeq(b), IsSeq(s), a \o s = b \o s
  PROVE  a = b
<1>1. Len(a) \in Nat /\ Len(b) \in Nat /\ Len(s) \in Nat
  BY SeqMembers
<1>2. Len(a \o s) = Len(a) + Len(s) /\ \A i \in 1..Len(a) : (a \o s)[i] = a[i]
  BY ConcatIsSeq
<1>3. Len(b \o s) = Len(b) + Len(s) /\ \A i \in 1..Len(b) : (b \o s)[i] = b[i]
  BY ConcatIsSeq
<1>4. Len(a) + Len(s) = Len(b) + Len(s)
  BY <1>2, <1>3
<1>5. Len(a) = Len(b)
  BY <1>1, <1>4
<1>6. \A i \in 1..Len(a) : a[i] = b[i]
  BY <1>2, <1>3, <1>5
<1>7. a = [i \in 1..Len(a) |-> a[i]] /\ b = [i \in 1..Len(b) |-> b[i]]
  BY DEF IsSeq
<1> QED
  BY <1>5, <1>6, <1>7

\* The last word of a policy's name says which adapter has made it.
LEMMA SuffixesDiffer ==
  ASSUME NEW k \in ToSet(PolicyKeys), NEW l \in ToSet(PolicyKeys)
  PROVE  /\ IsSeq(Adapter(k).suffix) /\ Adapter(k).suffix # <<>>
         /\ Last(Adapter(k).suffix) = Last(Adapter(l).suffix) => Adapter(k) = Adapter(l)
         /\ Adapter(k) = TimeoutBody <=> k \in TuningKeys
<1> DEFINE As == {Affinity, IPFilter, BasicAuth, RateLimit, TimeoutBody, BackendTLS}
<1>1. /\ Affinity.suffix = <<"affinity">> /\ IPFilter.suffix = <<"ipfilter">>
      /\ BasicAuth.suffix = <<"basicauth">> /\ RateLimit.suffix = <<"ratelimit">>
      /\ TimeoutBody.suffix = <<"backend">> /\ BackendTLS.suffix = <<"backend", "tls">>
  BY DEF Affinity, IPFilter, BasicAuth, RateLimit, TimeoutBody, BackendTLS
<1>2. /\ Last(<<"affinity">>) = "affinity" /\ Last(<<"ipfilter">>) = "ipfilter"
      /\ Last(<<"basicauth">>) = "basicauth" /\ Last(<<"ratelimit">>) = "ratelimit"
      /\ Last(<<"backend">>) = "backend" /\ Last(<<"backend", "tls">>) = "tls"
  BY DEF Last
<1>3. /\ <<"affinity">> # <<>> /\ <<"ipfilter">> # <<>> /\ <<"basicauth">> # <<>>
      /\ <<"ratelimit">> # <<>> /\ <<"backend">> # <<>> /\ <<"backend", "tls">> # <<>>
  OBVIOUS
<1>4. \A key \in ToSet(PolicyKeys) : Adapter(key) \in As /\ (key \in TuningKeys => Adapter(key) = TimeoutBody)
  BY AdapterFound
<1>5. \A a \in As : a.suffix # <<>>
  BY <1>1, <1>3
<1>6. \A a, b \in As : Last(a.suffix) = Last(b.suffix) => a = b
  BY <1>1, <1>2
<1>7. \A a \in {Affinity, IPFilter, BasicAuth, RateLimit, BackendTLS} : a # TimeoutBody
  BY <1>1, <1>2
<1>8. IsSeq(Adapter(k).suffix)
  BY AdapterFields DEF Providers
<1>9. Adapter(k) = TimeoutBody <=> k \in TuningKeys
  BY <1>7, AdapterFound
<1> HIDE DEF As
<1> QED
  BY <1>4, <1>5, <1>6, <1>8, <1>9

LEMMA PolicyNames ==
  ASSUME NEW a, NEW b, IsSeq(a), IsSeq(b), NEW k \in ToSet(PolicyKeys), NEW l \in ToSet(PolicyKeys),
         a \o Adapter(k).suffix = b \o Adapter(l).suffix
  PROVE  a = b /\ Adapter(k) = Adapter(l)
<1> DEFINE s == Adapter(k).suffix
           t == Adapter(l).suffix
<1>1. IsSeq(s) /\ s # <<>> /\ IsSeq(t) /\ t # <<>>
  BY SuffixesDiffer
<1>2. Last(s) = Last(t)
  <2> HIDE DEF s, t
  <2>1. Last(a \o s) = Last(s) /\ Last(b \o t) = Last(t)
    BY <1>1, LastOfConcat
  <2>2. a \o s = b \o t
    BY DEF s, t
  <2> QED
    BY <2>1, <2>2
<1>3. Adapter(k) = Adapter(l)
  BY <1>2, SuffixesDiffer
<1>4. a \o s = b \o s
  BY <1>3
<1> HIDE DEF s, t
<1>5. a = b
  BY <1>1, <1>4, SameBeforeEnd
<1> QED
  BY <1>3, <1>5

-----------------------------------------------------------------------------
(* What one Ingress gives. *)

LEMMA PolicyKeysDiffer == \A i, j \in 1..Len(PolicyKeys) : PolicyKeys[i] = PolicyKeys[j] => i = j
BY DEF PolicyKeys

\* Of one adapter an Ingress has one policy: the first tuning annotation claims the others,
\* and the other adapters have one annotation or are asked for once.
LEMMA OneKeyOfAnAdapter ==
  ASSUME NEW ing, AtMostOne(ing, DOMAIN IPFilter.fields), AtMostOne(ing, DOMAIN RateLimit.fields),
         NEW a \in 1..Len(PolicyKeys), NEW b \in 1..Len(PolicyKeys), a # b,
         PolicyKeys[a] \in ing.annotations, ~Claimed(PolicyKeys[a], ing.annotations),
         PolicyKeys[b] \in ing.annotations, ~Claimed(PolicyKeys[b], ing.annotations)
  PROVE  Adapter(PolicyKeys[a]) # Adapter(PolicyKeys[b])
<1> DEFINE k == PolicyKeys[a]
           l == PolicyKeys[b]
<1>1. k \in ToSet(PolicyKeys) /\ l \in ToSet(PolicyKeys) /\ k # l /\ Len(PolicyKeys) \in Nat
  <2>1. IsSeq(PolicyKeys)
    BY PolicyKeySet DEF IsSeq
  <2> QED
    BY <2>1, SeqMembers, PolicyKeysDiffer
<1>2. CASE k \in TuningKeys /\ l \in TuningKeys
  <2>1. a < b \/ b < a
    BY <1>1
  <2>2. Claimed(k, ing.annotations) \/ Claimed(l, ing.annotations)
    BY <1>2, <2>1 DEF Claimed
  <2> QED
    BY <2>2
<1>3. CASE k \notin TuningKeys \/ l \notin TuningKeys
  <2> SUFFICES ASSUME Adapter(k) = Adapter(l)  PROVE FALSE
    OBVIOUS
  <2> DEFINE A == Adapter(k)
  <2>1. k \notin TuningKeys /\ l \notin TuningKeys
    BY <1>1, <1>3, SuffixesDiffer
  <2>2. k \in DOMAIN A.fields /\ l \in DOMAIN A.fields /\ A \in {Affinity, IPFilter, BasicAuth, RateLimit, BackendTLS}
    BY <1>1, <2>1, AdapterFound
  <2>3. /\ DOMAIN Affinity.fields = {"affinity"} /\ DOMAIN BasicAuth.fields = {"auth-type"}
        /\ DOMAIN BackendTLS.fields = {"proxy-ssl-secret"}
    BY DEF Affinity, BasicAuth, BackendTLS
  <2> HIDE DEF A, k, l
  <2>4. CASE A \in {Affinity, BasicAuth, BackendTLS}
    BY <1>1, <2>2, <2>3, <2>4
  <2>5. CASE A \in {IPFilter, RateLimit}
    <3>1. k \in ing.annotations /\ l \in ing.annotations
      BY DEF k, l
    <3> QED
      BY <1>1, <2>2, <2>5, <3>1 DEF AtMostOne
  <2> QED
    BY <2>2, <2>4, <2>5
<1> QED
  BY <1>2, <1>3

LEMMA NewPolicies ==
  ASSUME NEW ing, NEW provider, IsSeq(ing.name)
  PROVE  LET ps == PoliciesOf(ing, provider)
         IN /\ IsSeq(ps) /\ Len(ps) \in Nat
            /\ \A i \in 1..Len(ps) : \E k \in ToSet(PolicyKeys) :
                 ps[i].name = ing.name \o Adapter(k).suffix /\ ps[i].ns = ing.ns
            /\ AtMostOne(ing, DOMAIN IPFilter.fields) /\ AtMostOne(ing, DOMAIN RateLimit.fields)
                 => DistinctNames(ps)
<1> DEFINE S    == {k \in ing.annotations : ~Claimed(k, ing.annotations)}
           keys == Kept(PolicyKeys, S)
           ps   == [i \in 1..Len(keys) |-> PolicyOf(ing, keys[i], provider)]
<1>1. PoliciesOf(ing, provider) = ps
  BY DEF PoliciesOf
<1>2. IsSeq(PolicyKeys)
  BY PolicyKeySet DEF IsSeq
<1>3. IsSeq(keys) /\ Picks(keys, PolicyKeys, Len(PolicyKeys)) /\ ToSet(keys) = ToSet(PolicyKeys) \cap S
  BY <1>2, KeptPicks, KeptMembers
<1>4. ps = [i \in 1..Len(keys) |-> ps[i]] /\ \A i \in 1..Len(keys) : ps[i] = PolicyOf(ing, keys[i], provider)
  OBVIOUS
<1> HIDE DEF keys, ps, S
<1>5. Len(keys) \in Nat /\ \A i \in 1..Len(keys) : keys[i] \in ToSet(PolicyKeys) /\ keys[i] \in S
  BY <1>3, SeqMembers
<1>6. IsSeq(ps) /\ Len(ps) = Len(keys)
  BY <1>4, <1>5, FunctionIsSeq
<1>7. ASSUME NEW i \in 1..Len(keys)
      PROVE  ps[i].name = ing.name \o Adapter(keys[i]).suffix /\ ps[i].ns = ing.ns
  <2> DEFINE k == keys[i]
             o == PolicyOf(ing, k, provider)
  <2>1. ps[i] = o
    BY <1>4
  <2>2. o.name = ing.name \o Adapter(k).suffix /\ o.ns = ing.ns
    <3> HIDE DEF k
    <3> QED
      BY DEF PolicyOf
  <2> HIDE DEF o
  <2> QED
    BY <2>1, <2>2
<1>8. ASSUME AtMostOne(ing, DOMAIN IPFilter.fields), AtMostOne(ing, DOMAIN RateLimit.fields)
      PROVE  DistinctNames(ps)
  <2>1. ASSUME NEW i \in 1..Len(keys), NEW j \in 1..Len(keys), i < j, ps[i].name = ps[j].name  PROVE FALSE
    <3> DEFINE a == ing.name
               k == keys[i]
               l == keys[j]
    <3>a. k \in ToSet(PolicyKeys) /\ l \in ToSet(PolicyKeys) /\ IsSeq(a)
      BY <1>5
    <3>b. a \o Adapter(k).suffix = a \o Adapter(l).suffix
      BY <1>7, <2>1
    <3>1. Adapter(k) = Adapter(l)
      <4> HIDE DEF a, k, l
      <4> QED
        BY <3>a, <3>b, PolicyNames
    <3> HIDE DEF a
    <3>2. PICK m \in 1..Len(PolicyKeys) : \E n \in 1..Len(PolicyKeys) :
            m # n /\ keys[i] = PolicyKeys[m] /\ keys[j] = PolicyKeys[n]
      BY <1>3, <2>1 DEF Picks
    <3>3. PICK n \in 1..Len(PolicyKeys) : m # n /\ keys[i] = PolicyKeys[m] /\ keys[j] = PolicyKeys[n]
      BY <3>2
    <3>4. keys[i] \in S /\ keys[j] \in S
      BY <1>5
    <3>5. Adapter(PolicyKeys[m]) # Adapter(PolicyKeys[n])
      BY <1>8, <3>3, <3>4, OneKeyOfAnAdapter DEF S
    <3> QED
      BY <3>1, <3>3, <3>5
  <2>2. \A i, j \in 1..Len(keys) : i = j \/ i < j \/ j < i
    BY <1>5
  <2> QED
    BY <1>6, <2>1, <2>2 DEF DistinctNames
<1> QED
  BY <1>1, <1>5, <1>6, <1>7, <1>8

LEMMA NewCertificates ==
  ASSUME NEW ing
  PROVE  LET cs == CertificatesOf(ing)
         IN /\ IsSeq(cs) /\ Len(cs) \in Nat
            /\ \A i \in 1..Len(cs) : cs[i].name = ing.name \o <<"cert">> /\ cs[i].ns = ing.ns
            /\ AtMostOne(ing, ToSet(IssuerKeys)) => DistinctNames(cs)
<1> DEFINE keys == Kept(IssuerKeys, ing.annotations)
           cs   == [i \in 1..Len(keys) |-> [name |-> ing.name \o <<"cert">>, ns |-> ing.ns,
                                            secret |-> ing.name \o <<"tls">>, issuer |-> keys[i]]]
<1>1. CertificatesOf(ing) = cs
  BY DEF CertificatesOf
<1>2. IsSeq(IssuerKeys) /\ \A a, b \in 1..Len(IssuerKeys) : IssuerKeys[a] = IssuerKeys[b] => a = b
  BY DEF IsSeq, IssuerKeys, ToSet
<1>3. /\ IsSeq(keys) /\ Picks(keys, IssuerKeys, Len(IssuerKeys))
      /\ ToSet(keys) = ToSet(IssuerKeys) \cap ing.annotations
  BY <1>2, KeptPicks, KeptMembers
<1>4. /\ cs = [i \in 1..Len(keys) |-> cs[i]]
      /\ \A i \in 1..Len(keys) : cs[i].name = ing.name \o <<"cert">> /\ cs[i].ns = ing.ns
  OBVIOUS
<1> HIDE DEF keys, cs
<1>5. Len(keys) \in Nat /\ \A i \in 1..Len(keys) : keys[i] \in ToSet(IssuerKeys) \cap ing.annotations
  BY <1>3, SeqMembers
<1>6. IsSeq(cs) /\ Len(cs) = Len(keys)
  BY <1>4, <1>5, FunctionIsSeq
<1>7. ASSUME AtMostOne(ing, ToSet(IssuerKeys)), NEW i \in 1..Len(keys), NEW j \in 1..Len(keys), i < j
      PROVE  FALSE
  <2>1. keys[i] = keys[j]
    BY <1>5, <1>7 DEF AtMostOne
  <2>2. PICK a \in 1..Len(IssuerKeys) : \E b \in 1..Len(IssuerKeys) :
          a # b /\ keys[i] = IssuerKeys[a] /\ keys[j] = IssuerKeys[b]
    BY <1>3, <1>7 DEF Picks
  <2> QED
    BY <1>2, <2>1, <2>2
<1>8. \A i, j \in 1..Len(keys) : i = j \/ i < j \/ j < i
  BY <1>5
<1>9. AtMostOne(ing, ToSet(IssuerKeys)) => DistinctNames(cs)
  BY <1>6, <1>7, <1>8 DEF DistinctNames
<1> QED
  BY <1>1, <1>4, <1>5, <1>6, <1>9

-----------------------------------------------------------------------------
(* Names stay apart while routes are built, merged and staged. *)

\* A certificate of the bundle is called after an Ingress that is built.
LEMMA CertificateOrigin ==
  ASSUME NEW c \in CertificatesOfBuilt
  PROVE  \E ing \in ToSet(built) : c.name = ing.name \o <<"cert">> /\ c.ns = ing.ns
<1>1. PICK ing \in ToSet(built) : c \in ToSet(CertificatesOf(ing))
  BY DEF CertificatesOfBuilt
<1> DEFINE cs == CertificatesOf(ing)
<1>2. IsSeq(cs) /\ \A i \in 1..Len(cs) : cs[i].name = ing.name \o <<"cert">> /\ cs[i].ns = ing.ns
  BY NewCertificates
<1> HIDE DEF cs
<1>3. \E i \in 1..Len(cs) : c = cs[i]
  BY <1>1, <1>2, SeqMembers DEF cs
<1> QED
  BY <1>2, <1>3

\* The next Ingress has a name that no built one has.
LEMMA NewName ==
  ASSUME Fits, BuildRoute, HaveOwnNames'
  PROVE  /\ HaveOwnNames
         /\ \A ing \in ToSet(built) : ~(ing.ns = Head(todo).ns /\ ing.name = Head(todo).name)
         /\ AtMostOne(Head(todo), DOMAIN IPFilter.fields) /\ AtMostOne(Head(todo), DOMAIN RateLimit.fields)
         /\ AtMostOne(Head(todo), ToSet(IssuerKeys))
<1> DEFINE next == Head(todo)
           n    == Len(built)
           b    == built'
<1>1. /\ Len(b) = n + 1 /\ n \in Nat /\ b[n + 1] = next
      /\ \A i \in 1..n : b[i] = built[i]
      /\ ToSet(b) = ToSet(built) \cup {next}
  BY NextRoute
<1>2. DistinctNames(b) /\ \A ing \in ToSet(b) :
        /\ AtMostOne(ing, DOMAIN IPFilter.fields) /\ AtMostOne(ing, DOMAIN RateLimit.fields)
        /\ AtMostOne(ing, ToSet(IssuerKeys))
  BY DEF HaveOwnNames, DistinctNames, AtMostOne
<1>3. ToSet(built) = {built[i] : i \in 1..n}
  BY BuiltFromIngresses, SeqIsSeq, SeqMembers
<1> HIDE DEF next, n, b
<1>4. \A i \in 1..n : i \in 1..Len(b) /\ n + 1 \in 1..Len(b) /\ i # n + 1
  BY <1>1
<1>5. DistinctNames(built)
  BY <1>1, <1>2, <1>4 DEF DistinctNames, n
<1>6. \A i \in 1..n : ~(built[i].ns = next.ns /\ built[i].name = next.name)
  BY <1>1, <1>2, <1>4 DEF DistinctNames
<1>7. HaveOwnNames
  BY <1>1, <1>2, <1>5 DEF HaveOwnNames
<1>8. next \in ToSet(b)
  BY <1>1
<1> QED
  BY <1>2, <1>3, <1>6, <1>7, <1>8 DEF next

\* Its policies have names that no policy of the bundle has.
LEMMA NewPolicyNames ==
  ASSUME Fits, BuildRoute, NamesFit, HaveOwnNames'
  PROVE  DistinctNames(bundle'.policies)
<1> DEFINE ing == Head(todo)
           p   == opts.provider
           qs  == bundle.policies
           new == PoliciesOf(ing, p)
<1>1. bundle'.policies = qs \o new
  BY DEF BuildRoute
<1>2. IsSeq(ing.name)
  BY NextRoute DEF IsIngress
<1>3. /\ IsSeq(new) /\ DistinctNames(new)
      /\ \A j \in 1..Len(new) : \E k \in ToSet(PolicyKeys) :
           new[j].name = ing.name \o Adapter(k).suffix /\ new[j].ns = ing.ns
  <2> HIDE DEF ing, p
  <2>1. AtMostOne(ing, DOMAIN IPFilter.fields) /\ AtMostOne(ing, DOMAIN RateLimit.fields)
    BY NewName DEF ing
  <2> QED
    BY <1>2, <2>1, NewPolicies
<1>4. IsSeq(qs) /\ DistinctNames(qs) /\ ToSet(qs) \subseteq PoliciesOfBuilt
  BY NewName, SeqIsSeq DEF NamesFit, Fits, BundleFits, PoliciesFit
<1>5. ASSUME NEW i \in 1..Len(qs), NEW j \in 1..Len(new), qs[i].ns = new[j].ns, qs[i].name = new[j].name
      PROVE  FALSE
  <2> DEFINE q == qs[i]
             m == new[j]
  <2>1. q \in PoliciesOfBuilt
    BY <1>4, SeqMembers
  <2>2. q.ns = m.ns /\ q.name = m.name
    BY <1>5
  <2>3. PICK k \in ToSet(PolicyKeys) : m.name = ing.name \o Adapter(k).suffix /\ m.ns = ing.ns
    BY <1>3
  <2> HIDE DEF q, m, ing
  <2>4. PICK o \in ToSet(built) : \E l \in ToSet(PolicyKeys) \cap o.annotations :
          q.name = o.name \o Adapter(l).suffix /\ q.ns = o.ns
    BY <2>1, PolicyOrigin
  <2>5. PICK l \in ToSet(PolicyKeys) : q.name = o.name \o Adapter(l).suffix /\ q.ns = o.ns
    BY <2>4
  <2> DEFINE a == o.name
             b == ing.name
  <2>6. IsSeq(a) /\ IsSeq(b) /\ a \o Adapter(l).suffix = b \o Adapter(k).suffix
    BY <1>2, <2>2, <2>3, <2>5, BuiltFromIngresses DEF IsIngress
  <2>7. ~(o.ns = ing.ns /\ a = b)
    BY NewName DEF ing
  <2> HIDE DEF a, b
  <2>8. a = b
    BY <2>6, PolicyNames
  <2> QED
    BY <2>2, <2>3, <2>5, <2>7, <2>8
<1> HIDE DEF qs, new
<1>6. DistinctNames(qs \o new)
  BY <1>3, <1>4, <1>5, DistinctConcat
<1> QED
  BY <1>1, <1>6

\* And so have its certificates.
LEMMA NewCertificateNames ==
  ASSUME Fits, BuildRoute, NamesFit, HaveOwnNames'
  PROVE  DistinctNames(bundle'.certificates)
<1> DEFINE ing == Head(todo)
           cs  == bundle.certificates
           new == IF opts.httpOnly THEN <<>> ELSE CertificatesOf(ing)
<1>1. bundle'.certificates = cs \o new
  BY DEF BuildRoute
<1>2. IsSeq(ing.name)
  BY NextRoute DEF IsIngress
<1>3. /\ IsSeq(new) /\ DistinctNames(new)
      /\ \A j \in 1..Len(new) : new[j].name = ing.name \o <<"cert">> /\ new[j].ns = ing.ns
  <2>1. CASE opts.httpOnly
    <3>1. new = <<>> /\ Len(new) = 0 /\ IsSeq(new)
      BY <2>1, ShortSeqs
    <3> HIDE DEF new
    <3> QED
      BY <3>1 DEF DistinctNames
  <2>2. CASE ~opts.httpOnly
    <3>1. new = CertificatesOf(ing)
      BY <2>2
    <3>2. AtMostOne(ing, ToSet(IssuerKeys))
      BY NewName
    <3> HIDE DEF new, ing
    <3> QED
      BY <3>1, <3>2, NewCertificates
  <2> QED
    BY <2>1, <2>2
<1>4. IsSeq(cs) /\ DistinctNames(cs) /\ ToSet(cs) \subseteq CertificatesOfBuilt
  BY NewName, SeqIsSeq DEF NamesFit, Fits, BundleFits, PoliciesFit
<1>5. ASSUME NEW i \in 1..Len(cs), NEW j \in 1..Len(new), cs[i].ns = new[j].ns, cs[i].name = new[j].name
      PROVE  FALSE
  <2> DEFINE q == cs[i]
             m == new[j]
  <2>1. q \in CertificatesOfBuilt
    BY <1>4, SeqMembers
  <2>2. q.ns = m.ns /\ q.name = m.name
    BY <1>5
  <2>3. m.name = ing.name \o <<"cert">> /\ m.ns = ing.ns
    BY <1>3
  <2> HIDE DEF q, m, ing
  <2>4. PICK o \in ToSet(built) : q.name = o.name \o <<"cert">> /\ q.ns = o.ns
    BY <2>1, CertificateOrigin
  <2> DEFINE a == o.name
             b == ing.name
             s == <<"cert">>
  <2>6. IsSeq(a) /\ IsSeq(b) /\ IsSeq(s) /\ a \o s = b \o s
    BY <1>2, <2>2, <2>3, <2>4, BuiltFromIngresses, ShortSeqs DEF IsIngress
  <2>7. ~(o.ns = ing.ns /\ a = b)
    BY NewName DEF ing
  <2> HIDE DEF a, b, s
  <2>8. a = b
    BY <2>6, SameBeforeEnd
  <2> QED
    BY <2>2, <2>3, <2>4, <2>7, <2>8
<1> HIDE DEF cs, new
<1>6. DistinctNames(cs \o new)
  BY <1>3, <1>4, <1>5, DistinctConcat
<1> QED
  BY <1>1, <1>6

\* A dual run renames neither.
LEMMA StagedNames ==
  ASSUME Fits, NamesFit, ApplyDualRunMode
  PROVE  NamesFit'
<1> DEFINE S  == StagingName(bundle)
           qs == bundle.policies
           ps == [i \in 1..Len(qs) |-> StagedPolicy(qs[i], S)]
<1>1. bundle' = Staged(bundle) /\ built' = built
  BY DEF ApplyDualRunMode
<1>2. bundle'.policies = ps /\ bundle'.certificates = bundle.certificates
  BY <1>1 DEF Staged
<1>3. HaveOwnNames' => HaveOwnNames
  BY <1>1 DEF HaveOwnNames, DistinctNames, AtMostOne
<1>4. qs \in Seq(PoliciesOfBuilt)
  BY DEF Fits, BundleFits, PoliciesFit
<1>5. ASSUME NEW i \in 1..Len(qs)
      PROVE  ps[i].name = qs[i].name /\ ps[i].ns = qs[i].ns
  <2> DEFINE q == qs[i]
  <2>1. q \in PoliciesOfBuilt /\ ps[i] = StagedPolicy(q, S)
    BY <1>4
  <2> HIDE DEF ps, q, S
  <2>2. StagedPolicy(q, S).name = q.name /\ StagedPolicy(q, S).ns = q.ns
    BY <2>1, StagedPolicyFields
  <2> QED
    BY <2>1, <2>2 DEF q
<1>6. Len(ps) = Len(qs)
  BY <1>4
<1> HIDE DEF ps, qs
<1>7. DistinctNames(qs) => DistinctNames(ps)
  BY <1>5, <1>6 DEF DistinctNames
<1>8. HaveOwnNames' => DistinctNames(ps) /\ DistinctNames(bundle.certificates)
  BY <1>3, <1>7 DEF NamesFit, qs
<1> QED
  BY <1>2, <1>8 DEF NamesFit, DistinctNames

LEMMA NamesUntouched ==
  ASSUME NamesFit, built' = built, bundle'.policies = bundle.policies,
         bundle'.certificates = bundle.certificates
  PROVE  NamesFit'
BY DEF NamesFit, HaveOwnNames, DistinctNames, AtMostOne

LEMMA NextNames ==
  ASSUME Fits, NamesFit, [EmissionNext]_emissionVars
  PROVE  NamesFit'
<1>1. ASSUME EndCommand  PROVE NamesFit'
  <2>1. bundle' = NoBundle
    BY <1>1 DEF EndCommand
  <2>2. bundle'.policies = <<>> /\ bundle'.certificates = <<>>
    BY <2>1 DEF NoBundle
  <2>3. Len(<<>>) = 0
    OBVIOUS
  <2> QED
    BY <2>2, <2>3 DEF NamesFit, DistinctNames
<1>2. CASE FromIngress \/ Analyze \/ SplitCanaries
  <2>1. built' = built /\ bundle' = bundle
    BY <1>2 DEF FromIngress, Analyze, SplitCanaries
  <2> QED
    BY <2>1, NamesUntouched
<1>3. CASE BuildRoute
  BY <1>3, NewPolicyNames, NewCertificateNames DEF NamesFit, DistinctNames
<1>4. CASE ApplyCanary
  <2>1. built' = built
    BY <1>4 DEF ApplyCanary
  <2> QED
    BY <1>4, <2>1, CanaryPolicies, NamesUntouched
<1>5. CASE FinalizeIR
  <2>1. built' = built
    BY <1>5 DEF FinalizeIR
  <2> QED
    BY <1>5, <2>1, FinalizeIRRules, NamesUntouched
<1>6. CASE ApplyDualRunMode
  BY <1>6, StagedNames
<1>7. CASE Emit
  <2>1. built' = built /\ bundle' = bundle
    BY <1>7 DEF Emit, EmitYAML
  <2> QED
    BY <2>1, NamesUntouched
<1>8. CASE Validate \/ KubectlApply
  BY <1>1, <1>8 DEF Validate, KubectlApply
<1>9. CASE UNCHANGED emissionVars
  <2>1. built' = built /\ bundle' = bundle
    BY <1>9 DEF emissionVars, vars
  <2> QED
    BY <2>1, NamesUntouched
<1> QED
  BY <1>2, <1>3, <1>4, <1>5, <1>6, <1>7, <1>8, <1>9 DEF EmissionNext, Convert

LEMMA NamesAlways == EmissionSpec => [](Fits /\ NamesFit)
<1>1. EmissionInit => Fits /\ NamesFit
  <2> SUFFICES ASSUME EmissionInit  PROVE NamesFit
    BY InitFits
  <2>1. bundle = NoBundle
    BY DEF EmissionInit
  <2>2. bundle.policies = <<>> /\ bundle.certificates = <<>>
    BY <2>1 DEF NoBundle
  <2>3. Len(<<>>) = 0
    OBVIOUS
  <2> QED
    BY <2>2, <2>3 DEF NamesFit, DistinctNames
<1>2. Fits /\ NamesFit /\ [EmissionNext]_emissionVars => Fits' /\ NamesFit'
  BY NextFits, NextNames
<1> QED
  BY <1>1, <1>2, PTL DEF EmissionSpec

-----------------------------------------------------------------------------
(* What is emitted of the bundle has names of its own, kind by kind. *)

LEMMA SameBeforeLast ==
  ASSUME NEW a, NEW b, NEW x, IsSeq(a), IsSeq(b), Append(a, x) = Append(b, x)
  PROVE  a = b
<1> DEFINE S == ToSet(a) \cup ToSet(b) \cup {x}
           s == <<x>>
<1>1. a \in Seq(S) /\ b \in Seq(S) /\ x \in S
  BY DEF IsSeq
<1> HIDE DEF S
<1>2. Append(a, x) = a \o s /\ Append(b, x) = b \o s
  BY <1>1
<1>3. IsSeq(s)
  BY ShortSeqs
<1> HIDE DEF s
<1> QED
  BY <1>2, <1>3, SameBeforeEnd

\* A command that converts each Ingress by itself names each Gateway after its Ingress.
LEMMA OwnGateways ==
  ASSUME Fits, session # <<>>, opts.entry = "FromIngress"
  PROVE  opts.gatewayName = <<>> /\ ~IsStaged
<1> DEFINE c == Head(session)
<1>1. IsCommand(c) /\ opts = Effective(c) /\ opts.entry = c.opts.entry
  BY RunningCommand DEF Fits
<1>2. c.command \in {"migrate", "validate"} /\ c.opts.gatewayName = <<>>
  BY <1>1 DEF IsCommand
<1>3. opts = c.opts
  BY <1>1, <1>2 DEF Effective
<1>4. ~IsDualRun
  BY <1>2 DEF IsDualRun, Command
<1> QED
  BY <1>2, <1>3, <1>4 DEF Fits, CommandFits

LEMMA GatewaysHaveOwnNames ==
  ASSUME Fits, session # <<>>, HaveOwnNames
  PROVE  DistinctNames(bundle.gateways)
<1> DEFINE gs == bundle.gateways
<1>1. /\ GatewayCount \in Nat /\ GatewayCount <= Len(built) /\ Len(gs) = GatewayCount
      /\ \A i \in 1..GatewayCount : gs[i] = GatewayOf(built[i])
  BY NodesOfBundle
<1>2. CASE GatewayCount <= 1
  BY <1>1, <1>2 DEF DistinctNames
<1>3. CASE GatewayCount > 1
  <2>1. opts.entry = "FromIngress"
    BY <1>1, <1>3, BuiltFromIngresses DEF GatewayCount
  <2>2. opts.gatewayName = <<>> /\ ~IsStaged
    BY <2>1, OwnGateways
  <2>3. ASSUME NEW i \in 1..GatewayCount
        PROVE  /\ i \in 1..Len(built) /\ IsSeq(built[i].name)
               /\ gs[i].name = built[i].name \o <<"gateway">> /\ gs[i].ns = built[i].ns
    <3> DEFINE ing == built[i]
    <3>1. i \in 1..Len(built)
      BY <1>1, BuiltFromIngresses
    <3>2. IsSeq(ing.name)
      BY <3>1, BuiltFromIngresses DEF IsIngress
    <3>3. gs[i] = GatewayOf(ing)
      BY <1>1
    <3> HIDE DEF ing, gs
    <3>4. gs[i].name = GatewayName(ing) /\ gs[i].ns = ing.ns
      BY <2>2, <3>3 DEF GatewayOf, ParentOf
    <3>5. GatewayName(ing) = ing.name \o <<"gateway">>
      BY <2>1, <2>2 DEF GatewayName
    <3> QED
      BY <3>1, <3>2, <3>4, <3>5 DEF ing
  <2>4. ASSUME NEW i \in 1..GatewayCount, NEW j \in 1..GatewayCount,
               gs[i].ns = gs[j].ns, gs[i].name = gs[j].name
        PROVE  i = j
    <3> DEFINE a == built[i].name
               b == built[j].name
               s == <<"gateway">>
    <3>1. IsSeq(a) /\ IsSeq(b) /\ IsSeq(s) /\ a \o s = b \o s
      BY <2>3, <2>4, ShortSeqs
    <3>2. built[i].ns = built[j].ns /\ i \in 1..Len(built) /\ j \in 1..Len(built)
      BY <2>3, <2>4
    <3>3. a = b
      <4> HIDE DEF a, b, s
      <4> QED
        BY <3>1, SameBeforeEnd
    <3> QED
      BY <3>2, <3>3 DEF HaveOwnNames, DistinctNames
  <2> QED
    BY <1>1, <2>4 DEF DistinctNames
<1> QED
  BY <1>1, <1>2, <1>3

LEMMA RoutesHaveOwnNames ==
  ASSUME Fits, session # <<>>, HaveOwnNames,
         IsDualRun => \A ing \in ToSet(built) : ~HasSuffix(ing.name, "shadow")
  PROVE  DistinctNames(bundle.routes)
<1> DEFINE rs == bundle.routes
<1>1. Len(rs) = Len(built) /\ Len(built) \in Nat
  BY NodesOfBundle, BuiltFromIngresses
<1>2. \A i \in 1..Len(built) :
        /\ rs[i].ns = built[i].ns
        /\ rs[i].name = IF IsStaged THEN ShadowRouteName(built[i].name) ELSE built[i].name
  BY RouteNames
<1>3. ASSUME NEW i \in 1..Len(built), NEW j \in 1..Len(built), rs[i].name = rs[j].name
      PROVE  built[i].name = built[j].name
  <2> DEFINE a == built[i].name
             b == built[j].name
  <2>1. IsSeq(a) /\ IsSeq(b)
    BY BuiltFromIngresses DEF IsIngress
  <2>2. CASE ~IsStaged
    BY <1>2, <1>3, <2>2
  <2>3. CASE IsStaged
    <3>1. ~HasSuffix(a, "shadow") /\ ~HasSuffix(b, "shadow")
      BY <2>3, BuiltFromIngresses DEF Fits, CommandFits
    <3>2. ShadowRouteName(a) = ShadowRouteName(b)
      BY <1>2, <1>3, <2>3
    <3> HIDE DEF a, b
    <3>3. Append(a, "shadow") = Append(b, "shadow")
      BY <3>1, <3>2 DEF ShadowRouteName
    <3> QED
      BY <2>1, <3>3, SameBeforeLast DEF a, b
  <2> QED
    BY <2>2, <2>3
<1> QED
  BY <1>1, <1>2, <1>3 DEF HaveOwnNames, DistinctNames

LEMMA PoliciesHaveOwnNames ==
  ASSUME Fits, NamesFit, HaveOwnNames
  PROVE  DistinctNames(EmittedPolicies)
<1> DEFINE ps   == bundle.policies
           pols == IF opts.skipExtensions THEN WithoutExtensions(ps) ELSE ps
           E    == {p \in ToSet(pols) : IsEmitted(p)}
<1>1. IsSeq(ps) /\ DistinctNames(ps)
  BY SeqIsSeq DEF NamesFit, Fits, BundleFits, PoliciesFit
<1>2. EmittedPolicies = Kept(pols, E)
  BY DEF EmittedPolicies
<1>3. IsSeq(pols) /\ DistinctNames(pols)
  <2>1. IsSeq(WithoutExtensions(ps)) /\ DistinctNames(WithoutExtensions(ps))
    <3> HIDE DEF ps
    <3> QED
      BY <1>1, DistinctKept DEF WithoutExtensions
  <2> QED
    BY <1>1, <2>1
<1> HIDE DEF pols, E
<1> QED
  BY <1>2, <1>3, DistinctKept

-----------------------------------------------------------------------------
(* Where a document comes from. *)

\* Document i is made of a node, whose place is the document's after those of other kinds.
IsFrom(i, kinds, nodes, before) ==
  /\ Documents[i].key[1] \in kinds
  /\ \E n \in 1..Len(nodes) :
       i = before + n /\ Documents[i].key[2] = nodes[n].ns /\ Documents[i].key[3] = nodes[n].name

LEMMA DocumentPlaces ==
  ASSUME Fits, NEW i \in 1..Len(Documents)
  PROVE  LET g == Len(bundle.gateways)
             r == Len(bundle.routes)
             p == Len(EmittedPolicies)
         IN \/ IsFrom(i, {"Gateway"}, bundle.gateways, 0)
            \/ IsFrom(i, {"HTTPRoute"}, bundle.routes, g)
            \/ IsFrom(i, PolicyKinds, EmittedPolicies, g + r)
            \/ IsFrom(i, {"Certificate"}, bundle.certificates, g + r + p)
<1> DEFINE gs == bundle.gateways
           rs == bundle.routes
           ps == EmittedPolicies
           cs == bundle.certificates
           g  == Len(gs)
           r  == Len(rs)
           p  == Len(ps)
           c  == Len(cs)
           D  == Documents
<1>1. /\ Len(D) = g + r + p + c
      /\ g \in Nat /\ r \in Nat /\ p \in Nat /\ c \in Nat
      /\ \A j \in 1..g : D[j] = GatewayDocument(gs[j])
      /\ \A j \in 1..r : D[g + j] = RouteDocument(rs[j])
      /\ \A j \in 1..p : D[g + r + j] = PolicyDocument(ps[j])
      /\ \A j \in 1..c : D[g + r + p + j] = CertificateDocument(cs[j])
  BY DocumentsInOrder
<1>2. \A j \in 1..p : ps[j].crd \in PolicyKinds
  BY PoliciesOfBundle, SeqMembers
<1>3. i \in 1..Len(D)
  OBVIOUS
<1> HIDE DEF gs, rs, ps, cs, g, r, p, c, D
<1>4. CASE i <= g
  <2>1. i \in 1..g /\ i = 0 + i
    BY <1>1, <1>3, <1>4
  <2>2. D[i].key = <<"Gateway", gs[i].ns, gs[i].name>>
    BY <1>1, <2>1, DocumentKeys
  <2>3. IsFrom(i, {"Gateway"}, gs, 0)
    BY <2>1, <2>2 DEF IsFrom, D, g
  <2> QED
    BY <2>3 DEF gs
<1>5. CASE i > g /\ i <= g + r
  <2> DEFINE j == i - g
  <2>1. j \in 1..r /\ i = g + j
    BY <1>1, <1>3, <1>5
  <2> HIDE DEF j
  <2>2. D[i].key = <<"HTTPRoute", rs[j].ns, rs[j].name>>
    BY <1>1, <2>1, DocumentKeys
  <2>3. IsFrom(i, {"HTTPRoute"}, rs, g)
    BY <2>1, <2>2 DEF IsFrom, D, r
  <2> QED
    BY <2>3 DEF rs, gs, g
<1>6. CASE i > g + r /\ i <= g + r + p
  <2> DEFINE j == i - (g + r)
  <2>1. j \in 1..p /\ i = g + r + j
    BY <1>1, <1>3, <1>6
  <2> HIDE DEF j
  <2>2. D[i].key = <<ps[j].crd, ps[j].ns, ps[j].name>> /\ ps[j].crd \in PolicyKinds
    BY <1>1, <1>2, <2>1, DocumentKeys
  <2>3. IsFrom(i, PolicyKinds, ps, g + r)
    BY <2>1, <2>2 DEF IsFrom, D, p
  <2> QED
    BY <2>3 DEF ps, gs, rs, g, r
<1>7. CASE i > g + r + p
  <2> DEFINE j == i - (g + r + p)
  <2>1. j \in 1..c /\ i = g + r + p + j
    BY <1>1, <1>3, <1>7
  <2> HIDE DEF j
  <2>2. D[i].key = <<"Certificate", cs[j].ns, cs[j].name>>
    BY <1>1, <2>1, DocumentKeys
  <2>3. IsFrom(i, {"Certificate"}, cs, g + r + p)
    BY <2>1, <2>2 DEF IsFrom, D, c
  <2> QED
    BY <2>3 DEF cs, ps, gs, rs, g, r, p
<1>8. i \in Nat /\ g \in Nat /\ g + r \in Nat /\ g + r + p \in Nat
  BY <1>1, <1>3
<1>9. i <= g \/ (i > g /\ i <= g + r) \/ (i > g + r /\ i <= g + r + p) \/ i > g + r + p
  BY <1>8
<1> QED
  BY <1>4, <1>5, <1>6, <1>7, <1>9, Zenon

LEMMA OneDocumentOfAName ==
  ASSUME NEW i, NEW j, NEW kinds, NEW nodes, NEW before, DistinctNames(nodes),
         IsFrom(i, kinds, nodes, before), IsFrom(j, kinds, nodes, before),
         Documents[i].key = Documents[j].key
  PROVE  i = j
<1>1. PICK n \in 1..Len(nodes) :
        i = before + n /\ Documents[i].key[2] = nodes[n].ns /\ Documents[i].key[3] = nodes[n].name
  BY DEF IsFrom
<1>2. PICK m \in 1..Len(nodes) :
        j = before + m /\ Documents[j].key[2] = nodes[m].ns /\ Documents[j].key[3] = nodes[m].name
  BY DEF IsFrom
<1>3. nodes[n].ns = nodes[m].ns /\ nodes[n].name = nodes[m].name
  BY <1>1, <1>2
<1>4. n = m
  BY <1>3 DEF DistinctNames
<1> QED
  BY <1>1, <1>2, <1>4

LEMMA DocumentsHaveOwnNames == Fits /\ NamesFit => NoDocumentIsOverwritten
<1> SUFFICES ASSUME Fits, NamesFit, Done, HaveOwnNames,
                    IsDualRun => \A ing \in ToSet(built) : ~HasSuffix(ing.name, "shadow"),
                    NEW i \in 1..Len(documents), NEW j \in 1..Len(documents),
                    documents[i].key = documents[j].key
             PROVE  i = j
  BY DEF NoDocumentIsOverwritten
<1>1. documents = Documents /\ session # <<>>
  BY DEF Fits, CommandFits, Done
<1>2. /\ DistinctNames(bundle.gateways) /\ DistinctNames(bundle.routes)
      /\ DistinctNames(EmittedPolicies) /\ DistinctNames(bundle.certificates)
  BY <1>1, GatewaysHaveOwnNames, RoutesHaveOwnNames, PoliciesHaveOwnNames DEF NamesFit
<1> DEFINE g == Len(bundle.gateways)
           r == Len(bundle.routes)
           p == Len(EmittedPolicies)
           From(n) == \/ IsFrom(n, {"Gateway"}, bundle.gateways, 0)
                      \/ IsFrom(n, {"HTTPRoute"}, bundle.routes, g)
                      \/ IsFrom(n, PolicyKinds, EmittedPolicies, g + r)
                      \/ IsFrom(n, {"Certificate"}, bundle.certificates, g + r + p)
<1>3. From(i) /\ From(j)
  BY <1>1, DocumentPlaces
<1> HIDE DEF g, r, p
<1>4. Documents[i].key = Documents[j].key /\ Documents[i].key[1] = Documents[j].key[1]
  BY <1>1
<1>5. "HTTPRoute" \notin PolicyKinds /\ "Gateway" \notin PolicyKinds /\ "Certificate" \notin PolicyKinds
  BY DEF PolicyKinds
<1>6. \A n, kinds, nodes, before : IsFrom(n, kinds, nodes, before) => Documents[n].key[1] \in kinds
  BY DEF IsFrom
<1>7. CASE IsFrom(i, {"Gateway"}, bundle.gateways, 0)
  <2>1. IsFrom(j, {"Gateway"}, bundle.gateways, 0)
    BY <1>3, <1>4, <1>5, <1>6, <1>7
  <2> QED
    BY <1>2, <1>4, <1>7, <2>1, OneDocumentOfAName
<1>8. CASE IsFrom(i, {"HTTPRoute"}, bundle.routes, g)
  <2>1. IsFrom(j, {"HTTPRoute"}, bundle.routes, g)
    BY <1>3, <1>4, <1>5, <1>6, <1>8
  <2> QED
    BY <1>2, <1>4, <1>8, <2>1, OneDocumentOfAName
<1>9. CASE IsFrom(i, PolicyKinds, EmittedPolicies, g + r)
  <2>1. IsFrom(j, PolicyKinds, EmittedPolicies, g + r)
    BY <1>3, <1>4, <1>5, <1>6, <1>9
  <2> QED
    BY <1>2, <1>4, <1>9, <2>1, OneDocumentOfAName
<1>10. CASE IsFrom(i, {"Certificate"}, bundle.certificates, g + r + p)
  <2>1. IsFrom(j, {"Certificate"}, bundle.certificates, g + r + p)
    BY <1>3, <1>4, <1>5, <1>6, <1>10
  <2> QED
    BY <1>2, <1>4, <1>10, <2>1, OneDocumentOfAName
<1> QED
  BY <1>3, <1>7, <1>8, <1>9, <1>10

-----------------------------------------------------------------------------
(* The theorems. *)

\* While the Ingresses of a command have names of their own, and none asks twice for what
\* is given once, so do the policies and the certificates of its bundle.
THEOREM NamesInvariant == EmissionSpec => []NamesFit
BY NamesAlways, PTL

\* All that is said of a bundle's rules, of where they come from and of names.
THEOREM BundleInvariant == EmissionSpec => []BundleInv
<1>1. RulesInv /\ OriginsInv /\ NamesFit => BundleInv
  BY DEF BundleInv
<1> QED
  BY <1>1, OriginsAlways, NamesAlways, PTL

\* One command emits no object twice, as long as its Ingresses have names of their own
\* and, under dual-run, none is called after a shadow.
THEOREM NoDocumentOverwritesAnother == EmissionSpec => []NoDocumentIsOverwritten
BY NamesAlways, DocumentsHaveOwnNames, PTL
=============================================================================
