--------------------------- MODULE Policies_proofs ---------------------------
(***************************************************************************)
(* Lemmas about the sequences the pipeline builds, and about the policies   *)
(* and certificates that an Ingress gives.                                   *)
(***************************************************************************)
EXTENDS Policies, SequenceTheorems, FiniteSetTheorems, NaturalsInduction, TLAPS

-----------------------------------------------------------------------------
(* Sequences. *)

\* A set of numbers has a least one.
LEMMA LeastNumber ==
  ASSUME NEW T \in SUBSET Nat, T # {}
  PROVE  \E m \in T : \A n \in T : m <= n
<1> DEFINE less == {ss \in Nat \X Nat : ss[1] < ss[2]}
<1>1. IsWellFoundedOn(less, Nat)
  BY NatLessThanWellFounded DEF OpToRel
<1> HIDE DEF less
<1>2. PICK m \in T : \A n \in T : <<n, m>> \notin less
  BY <1>1, WFMin
<1>3. ASSUME NEW n \in T  PROVE m <= n
  <2>1. n \in Nat /\ m \in Nat
    OBVIOUS
  <2>2. n < m => <<n, m>> \in less
    BY <2>1 DEF less
  <2> QED
    BY <1>2, <2>1, <2>2
<1> QED
  BY <1>3

\* A property of zero that every number hands on holds of all: the set of
\* counterexamples has no least member.
LEMMA NoCounterexample ==
  ASSUME NEW T \in SUBSET Nat, 0 \in T, \A n \in T : n + 1 \in T
  PROVE  T = Nat
<1>1. SUFFICES ASSUME Nat \ T # {}  PROVE FALSE
  OBVIOUS
<1>2. PICK m \in Nat \ T : \A n \in Nat \ T : m <= n
  BY <1>1, LeastNumber
<1>3. m # 0 /\ m - 1 \in Nat /\ ~(m <= m - 1) /\ (m - 1) + 1 = m
  OBVIOUS
<1>4. m - 1 \in T
  BY <1>2, <1>3
<1> QED
  BY <1>2, <1>3, <1>4

\* What the definition of FlattenSeq gives for the first n sequences of ss.
IsFlat(f, ss, n) == f = [i \in 1..n |-> IF i = 1 THEN ss[i] ELSE f[i-1] \o ss[i]]

LEMMA FlatStep ==
  ASSUME NEW ss, NEW m \in Nat, NEW f, IsFlat(f, ss, m)
  PROVE  \E g : IsFlat(g, ss, m + 1)
<1> DEFINE v == IF m + 1 = 1 THEN ss[m+1] ELSE f[m] \o ss[m+1]
           g == [i \in 1..m+1 |-> IF i <= m THEN f[i] ELSE v]
           h == [i \in 1..m+1 |-> IF i = 1 THEN ss[i] ELSE g[i-1] \o ss[i]]
<1>1. ASSUME NEW i \in 1..m+1  PROVE g[i] = h[i]
  <2>1. CASE i <= m
    <3>1. i \in 1..m /\ (i # 1 => i - 1 \in 1..m /\ i - 1 \in 1..m+1 /\ i - 1 <= m)
      BY <2>1
    <3>2. f[i] = IF i = 1 THEN ss[i] ELSE f[i-1] \o ss[i]
      BY <3>1 DEF IsFlat
    <3>3. g[i] = f[i] /\ (i # 1 => g[i-1] = f[i-1])
      BY <2>1, <3>1
    <3>4. h[i] = IF i = 1 THEN ss[i] ELSE g[i-1] \o ss[i]
      OBVIOUS
    <3> HIDE DEF g, h
    <3> QED
      BY <3>2, <3>3, <3>4
  <2>2. CASE i = m + 1
    <3>1. g[i] = v /\ (i # 1 => g[i-1] = f[m])
      BY <2>2
    <3>2. h[i] = IF i = 1 THEN ss[i] ELSE g[i-1] \o ss[i]
      OBVIOUS
    <3> HIDE DEF g, h
    <3> QED
      BY <2>2, <3>1, <3>2
  <2> QED
    BY <2>1, <2>2
<1>2. g = [i \in 1..m+1 |-> g[i]] /\ h = [i \in 1..m+1 |-> h[i]]
  OBVIOUS
<1>3. g = h
  <2> HIDE DEF g, h
  <2> QED
    BY <1>1, <1>2
<1>4. IsFlat(g, ss, m + 1)
  <2>1. h = [i \in 1..m+1 |-> IF i = 1 THEN ss[i] ELSE g[i-1] \o ss[i]]
    OBVIOUS
  <2> HIDE DEF g, h
  <2> QED
    BY <1>3, <2>1 DEF IsFlat
<1> QED
  BY <1>4

LEMMA FlatExists ==
  ASSUME NEW ss, NEW n \in Nat
  PROVE  \E f : IsFlat(f, ss, n)
<1> DEFINE T == {m \in Nat : \E f : IsFlat(f, ss, m)}
<1>1. T \in SUBSET Nat
  OBVIOUS
<1>2. 0 \in T
  <2>1. IsFlat([i \in 1..0 |-> ss], ss, 0)
    BY DEF IsFlat
  <2> QED
    BY <2>1
<1>3. ASSUME NEW m \in T  PROVE m + 1 \in T
  <2>1. m \in Nat /\ m + 1 \in Nat
    OBVIOUS
  <2>2. \E f : IsFlat(f, ss, m)
    OBVIOUS
  <2>3. \E f : IsFlat(f, ss, m + 1)
    BY <2>1, <2>2, FlatStep
  <2> QED
    BY <2>1, <2>3
<1>4. T = Nat
  <2> HIDE DEF T
  <2> QED
    BY <1>1, <1>2, <1>3, NoCounterexample
<1> QED
  BY <1>4

LEMMA FlatType ==
  ASSUME NEW S, NEW ss \in Seq(Seq(S)), NEW f, IsFlat(f, ss, Len(ss))
  PROVE  \A m \in 1..Len(ss) : f[m] \in Seq(S)
<1> DEFINE T == {m \in Nat : m \in 1..Len(ss) => f[m] \in Seq(S)}
<1>1. T \in SUBSET Nat /\ 0 \in T
  OBVIOUS
<1>2. ASSUME NEW m \in T  PROVE m + 1 \in T
  <2>1. CASE m + 1 \in 1..Len(ss)
    <3>1. PICK i \in 1..Len(ss) : i = m + 1 /\ m = i - 1 /\ (m = 0 <=> i = 1)
      BY <2>1
    <3>2. f[i] = IF i = 1 THEN ss[i] ELSE f[i-1] \o ss[i]
      BY DEF IsFlat
    <3>3. ss[i] \in Seq(S)
      OBVIOUS
    <3>4. m # 0 => m \in 1..Len(ss) /\ f[m] \in Seq(S)
      BY <3>1
    <3> HIDE DEF T
    <3>5. ASSUME m = 0  PROVE f[i] \in Seq(S)
      BY <3>1, <3>2, <3>3, <3>5
    <3>6. ASSUME m # 0  PROVE f[i] \in Seq(S)
      <4>1. f[m] \o ss[i] \in Seq(S)
        BY <3>3, <3>4, <3>6, ConcatProperties
      <4> QED
        BY <3>1, <3>2, <3>6, <4>1
    <3>7. f[m+1] \in Seq(S)
      BY <3>1, <3>5, <3>6
    <3> QED
      BY <2>1, <3>7 DEF T
  <2> QED
    BY <2>1
<1>3. T = Nat
  <2> HIDE DEF T
  <2> QED
    BY <1>1, <1>2, NoCounterexample
<1> QED
  BY <1>3

\* One after the other, sequences over S make a sequence over S.
LEMMA FlattenSeqType ==
  ASSUME NEW S, NEW ss \in Seq(Seq(S))
  PROVE  FlattenSeq(ss) \in Seq(S)
<1>1. CASE Len(ss) = 0
  BY <1>1 DEF FlattenSeq
<1>2. CASE Len(ss) # 0
  <2> DEFINE flat == CHOOSE f : IsFlat(f, ss, Len(ss))
  <2>1. FlattenSeq(ss) = flat[Len(ss)]
    <3>1. FlattenSeq(ss) =
            (CHOOSE f : f = [i \in 1..Len(ss) |-> IF i = 1 THEN ss[i] ELSE f[i-1] \o ss[i]])[Len(ss)]
      BY <1>2, Zenon DEF FlattenSeq
    <3> QED
      BY <3>1, Zenon DEF IsFlat
  <2>2. IsFlat(flat, ss, Len(ss))
    <3>1. Len(ss) \in Nat
      OBVIOUS
    <3>2. \E f : IsFlat(f, ss, Len(ss))
      BY <3>1, FlatExists
    <3> QED
      BY <3>2, Zenon
  <2> HIDE DEF flat
  <2>3. flat[Len(ss)] \in Seq(S)
    BY <1>2, <2>2, FlatType
  <2> QED
    BY <2>1, <2>3
<1> QED
  BY <1>1, <1>2

\* Kept keeps members of S, and the sequence's own.
LEMMA KeptType ==
  ASSUME NEW R, NEW s \in Seq(R), NEW S
  PROVE  Kept(s, S) \in Seq(R \cap S)
<1> DEFINE ss == [i \in 1..Len(s) |-> IF s[i] \in S THEN <<s[i]>> ELSE <<>>]
<1>1. ss \in Seq(Seq(R \cap S))
  <2>1. ASSUME NEW i \in 1..Len(s)  PROVE ss[i] \in Seq(R \cap S)
    <3>1. s[i] \in R /\ <<>> \in Seq(R \cap S)
      OBVIOUS
    <3>2. s[i] \in S => <<s[i]>> \in Seq(R \cap S)
      BY <3>1
    <3> QED
      BY <3>1, <3>2
  <2> QED
    BY <2>1
<1> QED
  BY <1>1, FlattenSeqType DEF Kept
LEMMA SeqIsSeq ==
  ASSUME NEW S, NEW s \in Seq(S)
  PROVE  IsSeq(s) /\ ToSet(s) \subseteq S /\ Len(s) \in Nat /\ DOMAIN s = 1..Len(s)
<1>1. s = [i \in 1..Len(s) |-> s[i]] /\ Len(s) \in Nat /\ DOMAIN s = 1..Len(s)
  OBVIOUS
<1>2. \A i \in 1..Len(s) : s[i] \in ToSet(s)
  BY <1>1 DEF ToSet
<1>3. [i \in 1..Len(s) |-> s[i]] \in Seq(ToSet(s))
  BY <1>1, <1>2
<1>4. IsSeq(s)
  BY <1>1, <1>3, Zenon DEF IsSeq
<1>5. ToSet(s) \subseteq S
  BY <1>1 DEF ToSet
<1> QED
  BY <1>1, <1>4, <1>5

LEMMA ConcatIsSeq ==
  ASSUME NEW s, NEW t, IsSeq(s), IsSeq(t)
  PROVE  /\ IsSeq(s \o t) /\ Len(s \o t) = Len(s) + Len(t)
         /\ IsPrefix(s, s \o t)
         /\ \A i \in 1..Len(s) : (s \o t)[i] = s[i]
         /\ \A i \in 1..Len(t) : (s \o t)[Len(s) + i] = t[i]
<1> DEFINE S == ToSet(s) \cup ToSet(t)
<1>1. s \in Seq(S) /\ t \in Seq(S)
  BY DEF IsSeq
<1> HIDE DEF S
<1>2. /\ s \o t \in Seq(S) /\ Len(s \o t) = Len(s) + Len(t) /\ Len(s) \in Nat /\ Len(t) \in Nat
      /\ \A i \in 1..Len(s) : (s \o t)[i] = s[i]
      /\ \A i \in 1..Len(t) : (s \o t)[Len(s) + i] = t[i]
  BY <1>1
<1>3. IsSeq(s \o t)
  BY <1>2, SeqIsSeq
<1>4. SubSeq(s, 1, Len(s)) = SubSeq(s \o t, 1, Len(s))
  BY <1>1, <1>2
<1> QED
  BY <1>2, <1>3, <1>4 DEF IsPrefix

LEMMA ConcatMembers ==
  ASSUME NEW s, NEW t, IsSeq(s), IsSeq(t)
  PROVE  ToSet(s \o t) = ToSet(s) \cup ToSet(t)
<1> DEFINE u == s \o t
<1>1. /\ IsSeq(u) /\ Len(u) = Len(s) + Len(t)
      /\ \A i \in 1..Len(s) : u[i] = s[i]
      /\ \A i \in 1..Len(t) : u[Len(s) + i] = t[i]
  BY ConcatIsSeq
<1>2. \A v : IsSeq(v) => ToSet(v) = {v[i] : i \in 1..Len(v)} /\ Len(v) \in Nat
  BY DEF IsSeq, ToSet
<1> HIDE DEF u
<1>3. ToSet(u) = {u[i] : i \in 1..Len(u)} /\ ToSet(s) = {s[i] : i \in 1..Len(s)}
      /\ ToSet(t) = {t[i] : i \in 1..Len(t)} /\ Len(s) \in Nat /\ Len(t) \in Nat
  BY <1>1, <1>2
<1>4. ASSUME NEW i \in 1..Len(u)  PROVE u[i] \in ToSet(s) \cup ToSet(t)
  <2>1. CASE i <= Len(s)
    BY <1>1, <1>3, <2>1
  <2>2. CASE i > Len(s)
    <3>1. i - Len(s) \in 1..Len(t) /\ Len(s) + (i - Len(s)) = i
      BY <1>1, <1>3, <2>2
    <3> QED
      BY <1>1, <1>3, <3>1
  <2> QED
    BY <1>1, <1>3, <2>1, <2>2
<1>5. ASSUME NEW i \in 1..Len(s)  PROVE s[i] \in ToSet(u)
  <2>1. i \in 1..Len(u) /\ u[i] = s[i]
    BY <1>1, <1>3
  <2> QED
    BY <1>3, <2>1
<1>6. ASSUME NEW i \in 1..Len(t)  PROVE t[i] \in ToSet(u)
  <2>1. Len(s) + i \in 1..Len(u) /\ u[Len(s) + i] = t[i]
    BY <1>1, <1>3
  <2> QED
    BY <1>3, <2>1
<1>7. ToSet(u) \subseteq ToSet(s) \cup ToSet(t)
  BY <1>3, <1>4
<1>8. ToSet(s) \subseteq ToSet(u) /\ ToSet(t) \subseteq ToSet(u)
  BY <1>3, <1>5, <1>6
<1>9. ToSet(u) = ToSet(s) \cup ToSet(t)
  BY <1>7, <1>8
<1> QED
  BY <1>9 DEF u

\* Nothing is lost of the sequences that are flattened.
LEMMA FlatMembers ==
  ASSUME NEW S, NEW ss \in Seq(Seq(S)), NEW f, IsFlat(f, ss, Len(ss))
  PROVE  \A m \in 1..Len(ss) : \A i \in 1..m : ToSet(ss[i]) \subseteq ToSet(f[m])
<1> DEFINE Holds(m) == \A i \in 1..m : ToSet(ss[i]) \subseteq ToSet(f[m])
           T == {m \in Nat : m \in 1..Len(ss) => Holds(m)}
<1>1. T \in SUBSET Nat /\ 0 \in T
  OBVIOUS
<1>2. ASSUME NEW m \in T  PROVE m + 1 \in T
  <2>1. CASE m + 1 \in 1..Len(ss)
    <3>1. PICK n \in 1..Len(ss) : n = m + 1 /\ m = n - 1 /\ (m = 0 <=> n = 1)
      BY <2>1
    <3>2. f[n] = IF n = 1 THEN ss[n] ELSE f[n-1] \o ss[n]
      BY DEF IsFlat
    <3>3. ss[n] \in Seq(S)
      OBVIOUS
    <3>4. m # 0 => m \in 1..Len(ss) /\ f[m] \in Seq(S) /\ Holds(m)
      BY <3>1, FlatType
    <3> HIDE DEF T
    <3>5. ASSUME m = 0  PROVE Holds(n)
      BY <3>1, <3>2, <3>5
    <3>6. ASSUME m # 0  PROVE Holds(n)
      <4>1. f[n] = f[m] \o ss[n]
        BY <3>1, <3>2, <3>6
      <4>2. IsSeq(f[m]) /\ IsSeq(ss[n])
        BY <3>3, <3>4, <3>6, SeqIsSeq
      <4>3. ToSet(f[n]) = ToSet(f[m]) \cup ToSet(ss[n])
        BY <4>1, <4>2, ConcatMembers
      <4>4. \A i \in 1..n : i = n \/ i \in 1..m
        BY <3>1
      <4> QED
        BY <3>4, <3>6, <4>3, <4>4
    <3>7. Holds(m + 1)
      BY <3>1, <3>5, <3>6
    <3> HIDE DEF Holds
    <3> QED
      BY <3>7 DEF T
  <2> QED
    BY <2>1
<1>3. T = Nat
  <2> HIDE DEF T
  <2> QED
    BY <1>1, <1>2, NoCounterexample
<1>4. ASSUME NEW m \in 1..Len(ss)  PROVE Holds(m)
  <2> HIDE DEF Holds
  <2>1. m \in Nat
    OBVIOUS
  <2>2. m \in T
    <3> HIDE DEF T
    <3> QED
      BY <1>3, <2>1
  <2> QED
    BY <2>2
<1> QED
  BY <1>4

LEMMA FlattenSeqMembers ==
  ASSUME NEW S, NEW ss \in Seq(Seq(S))
  PROVE  ToSet(FlattenSeq(ss)) = UNION {ToSet(ss[i]) : i \in 1..Len(ss)}
<1> DEFINE U == UNION {ToSet(ss[i]) : i \in 1..Len(ss)}
<1>1. ToSet(FlattenSeq(ss)) \subseteq U
  <2>1. \A i \in 1..Len(ss) : ss[i] \in Seq(U)
    <3> SUFFICES ASSUME NEW i \in 1..Len(ss)  PROVE ss[i] \in Seq(U)
      OBVIOUS
    <3>1. ss[i] \in Seq(S)
      OBVIOUS
    <3>2. ss[i] \in Seq(ToSet(ss[i]))
      BY <3>1, SeqIsSeq DEF IsSeq
    <3>3. ToSet(ss[i]) \subseteq U
      OBVIOUS
    <3> HIDE DEF U
    <3> QED
      BY <3>2, <3>3
  <2> HIDE DEF U
  <2>2. ss \in Seq(Seq(U))
    BY <2>1
  <2> QED
    BY <2>2, FlattenSeqType, SeqIsSeq
<1>2. ASSUME NEW k \in 1..Len(ss)  PROVE ToSet(ss[k]) \subseteq ToSet(FlattenSeq(ss))
  <2> DEFINE flat == CHOOSE f : IsFlat(f, ss, Len(ss))
  <2>1. Len(ss) \in Nat /\ Len(ss) \in 1..Len(ss) /\ Len(ss) # 0
    OBVIOUS
  <2>2. FlattenSeq(ss) = flat[Len(ss)]
    <3>1. FlattenSeq(ss) =
            (CHOOSE f : f = [i \in 1..Len(ss) |-> IF i = 1 THEN ss[i] ELSE f[i-1] \o ss[i]])[Len(ss)]
      BY <2>1, Zenon DEF FlattenSeq
    <3> QED
      BY <3>1, Zenon DEF IsFlat
  <2>3. IsFlat(flat, ss, Len(ss))
    <3>1. \E f : IsFlat(f, ss, Len(ss))
      BY <2>1, FlatExists
    <3> QED
      BY <3>1, Zenon
  <2> HIDE DEF flat
  <2> QED
    BY <2>1, <2>2, <2>3, FlatMembers
<1> QED
  BY <1>1, <1>2

LEMMA KeptMembers ==
  ASSUME NEW s, IsSeq(s), NEW S
  PROVE  IsSeq(Kept(s, S)) /\ ToSet(Kept(s, S)) = ToSet(s) \cap S
<1> DEFINE ss == [i \in 1..Len(s) |-> IF s[i] \in S THEN <<s[i]>> ELSE <<>>]
<1>1. s \in Seq(ToSet(s)) /\ Len(s) \in Nat
  BY DEF IsSeq
<1>2. Kept(s, S) \in Seq(ToSet(s) \cap S)
  BY <1>1, KeptType
<1>3. ASSUME NEW x \in ToSet(s) \cap S  PROVE x \in ToSet(Kept(s, S))
  <2>1. ss \in Seq(Seq(ToSet(s))) /\ Len(ss) = Len(s)
    BY <1>1
  <2>2. PICK i \in 1..Len(s) : s[i] = x
    BY <1>1 DEF ToSet
  <2>3. ss[i] = <<x>>
    BY <2>2
  <2>4. x \in ToSet(ss[i])
    BY <2>3 DEF ToSet
  <2>5. Kept(s, S) = FlattenSeq(ss)
    BY DEF Kept
  <2> HIDE DEF ss
  <2> QED
    BY <2>1, <2>4, <2>5, FlattenSeqMembers
<1> QED
  BY <1>2, <1>3, SeqIsSeq

-----------------------------------------------------------------------------
(* Policies. *)

LEMMA PolicyKeySet ==
  /\ PolicyKeys \in Seq(ToSet(PolicyKeys))
  /\ ToSet(PolicyKeys) =
       {"affinity", "auth-type", "denylist-source-range", "limit-connections", "limit-rpm", "limit-rps",
        "proxy-body-size", "proxy-buffering", "proxy-read-timeout", "proxy-ssl-secret",
        "whitelist-source-range"}
BY DEF PolicyKeys, ToSet

\* Every key of the list has an adapter that knows it.
LEMMA AdapterFound ==
  ASSUME NEW key \in ToSet(PolicyKeys)
  PROVE  \/ key \in TuningKeys /\ Adapter(key) = TimeoutBody
         \/ /\ key \notin TuningKeys /\ key \in DOMAIN Adapter(key).fields
            /\ Adapter(key) \in {Affinity, IPFilter, BasicAuth, RateLimit, BackendTLS}
<1>1. CASE key \in TuningKeys
  BY <1>1 DEF Adapter
<1>2. CASE key \notin TuningKeys
  <2> DEFINE As == {Affinity, IPFilter, BasicAuth, RateLimit, BackendTLS}
  <2>1. \E a \in As : key \in DOMAIN a.fields
    BY <1>2, PolicyKeySet DEF TuningKeys, Affinity, IPFilter, BasicAuth, RateLimit, BackendTLS
  <2>2. Adapter(key) = CHOOSE a \in As : key \in DOMAIN a.fields
    BY <1>2 DEF Adapter
  <2> HIDE DEF As
  <2>3. Adapter(key) \in As /\ key \in DOMAIN Adapter(key).fields
    BY <2>1, <2>2, Zenon
  <2> QED
    BY <1>2, <2>3 DEF As
<1> QED
  BY <1>1, <1>2

LEMMA AdapterFields ==
  ASSUME NEW key \in ToSet(PolicyKeys), NEW provider \in Providers
  PROVE  /\ IsSeq(Adapter(key).suffix)
         /\ Adapter(key).crd[provider] \in PolicyKinds
<1> DEFINE Fits(a) ==
      /\ IsSeq(a.suffix)
      /\ a.crd[provider] \in PolicyKinds
<1>1. /\ IsSeq(<<"affinity">>) /\ IsSeq(<<"ipfilter">>) /\ IsSeq(<<"basicauth">>)
      /\ IsSeq(<<"ratelimit">>) /\ IsSeq(<<"backend">>) /\ IsSeq(<<"backend", "tls">>)
  BY DEF IsSeq, ToSet
<1>2. Fits(TimeoutBody) /\ Fits(BackendTLS)
  <2>1. TimeoutBody.suffix = <<"backend">> /\ BackendTLS.suffix = <<"backend", "tls">>
    BY DEF TimeoutBody, BackendTLS
  <2>2. TimeoutBody.crd[provider] \in PolicyKinds /\ BackendTLS.crd[provider] \in PolicyKinds
    BY DEF TimeoutBody, BackendTLS, PolicyKinds
  <2> QED
    BY <1>1, <2>1, <2>2
<1>3. Fits(Affinity) /\ Fits(IPFilter) /\ Fits(BasicAuth)
  <2>1. Affinity.suffix = <<"affinity">> /\ IPFilter.suffix = <<"ipfilter">> /\ BasicAuth.suffix = <<"basicauth">>
    BY DEF Affinity, IPFilter, BasicAuth
  <2>2. /\ Affinity.crd[provider] \in PolicyKinds
        /\ IPFilter.crd[provider] \in PolicyKinds
        /\ BasicAuth.crd[provider] \in PolicyKinds
    BY DEF Affinity, IPFilter, BasicAuth, EnvoyOr, PolicyKinds
  <2> QED
    BY <1>1, <2>1, <2>2
<1>4. Fits(RateLimit)
  <2>1. RateLimit.suffix = <<"ratelimit">>
    BY DEF RateLimit
  <2>2. RateLimit.crd[provider] \in PolicyKinds
    BY DEF RateLimit, Providers, PolicyKinds
  <2> QED
    BY <1>1, <2>1, <2>2
<1> HIDE DEF Fits
<1>5. Fits(Adapter(key))
  BY <1>1, <1>2, <1>3, <1>4, AdapterFound
<1> QED
  BY <1>5 DEF Fits

\* Only Envoy Gateway's policies can be empty.
LEMMA SettingsSaySomething ==
  ASSUME NEW keys, NEW key \in ToSet(PolicyKeys) \cap keys, NEW provider \in Providers,
         Group(key, provider) # EnvoyGateway
  PROVE  Settings(key, keys, provider) # {}
<1>1. key \in Merged(key, keys)
  BY DEF Merged
<1>2. CASE Group(key, provider) \in {"gateshift.io", "cilium", "istio", "kong"}
  BY <1>1, <1>2 DEF Settings
<1>3. CASE Group(key, provider) \notin {"gateshift.io", "cilium", "istio", "kong"}
  <2>1. Adapter(key) = BackendTLS
    BY <1>3 DEF Group
  <2>2. TimeoutBody # BackendTLS
    <3>1. TimeoutBody.suffix # BackendTLS.suffix
      BY DEF TimeoutBody, BackendTLS
    <3> QED
      BY <3>1
  <2>3. key \in DOMAIN Adapter(key).fields
    BY <2>1, <2>2, AdapterFound
  <2> QED
    BY <1>1, <1>3, <2>3 DEF Settings
<1> QED
  BY <1>2, <1>3

LEMMA PolicyFields ==
  ASSUME NEW ing, NEW key \in ToSet(PolicyKeys) \cap ing.annotations, NEW provider \in Providers,
         IsSeq(ing.name)
  PROVE  LET p == PolicyOf(ing, key, provider)
         IN /\ IsPrefix(ing.name, p.name) /\ p.ns = ing.ns
            /\ p.crd \in PolicyKinds
            /\ IsEmitted(p) => Sanitized(p) # {}
<1> DEFINE p == PolicyOf(ing, key, provider)
<1>1. /\ p.name = ing.name \o Adapter(key).suffix /\ p.ns = ing.ns
      /\ p.crd = Adapter(key).crd[provider] /\ p.group = Group(key, provider)
      /\ p.settings = Settings(key, ing.annotations, provider)
  BY DEF PolicyOf
<1> HIDE DEF p
<1>2. IsPrefix(ing.name, p.name)
  BY <1>1, AdapterFields, ConcatIsSeq
<1>3. p.group # EnvoyGateway => Sanitized(p) # {}
  BY <1>1, SettingsSaySomething DEF Sanitized
<1>4. IsEmitted(p) => Sanitized(p) # {}
  BY <1>3 DEF IsEmitted
<1>5. p.crd \in PolicyKinds
  BY <1>1, AdapterFields
<1> QED
  BY <1>1, <1>2, <1>4, <1>5 DEF p

LEMMA PolicyTarget ==
  ASSUME NEW ing, NEW key, NEW provider
  PROVE  [PolicyOf(ing, key, provider) EXCEPT !.target = ing.name] = PolicyOf(ing, key, provider)
<1> DEFINE p == PolicyOf(ing, key, provider)
<1>1. p = [name |-> p.name, ns |-> p.ns, kind |-> p.kind, group |-> p.group, crd |-> p.crd,
           target |-> ing.name, settings |-> p.settings]
  BY DEF PolicyOf
<1> HIDE DEF p
<1>2. [p EXCEPT !.target = ing.name] = p
  BY <1>1
<1> QED
  BY <1>2 DEF p

\* Policies come from the keys of the Ingress that are in the list.
LEMMA PoliciesOfType ==
  ASSUME NEW ing, NEW provider
  PROVE  PoliciesOf(ing, provider)
           \in Seq({PolicyOf(ing, k, provider) : k \in ToSet(PolicyKeys) \cap ing.annotations})
<1> DEFINE S == {k \in ing.annotations : ~Claimed(k, ing.annotations)}
           keys == Kept(PolicyKeys, S)
           K == ToSet(PolicyKeys) \cap ing.annotations
<1>1. keys \in Seq(ToSet(PolicyKeys) \cap S)
  BY PolicyKeySet, KeptType
<1>2. \A i \in 1..Len(keys) : keys[i] \in K
  <2> HIDE DEF keys
  <2> QED
    BY <1>1
<1>3. Len(keys) \in Nat
  <2> HIDE DEF keys
  <2> QED
    BY <1>1
<1>4. PoliciesOf(ing, provider) = [i \in 1..Len(keys) |-> PolicyOf(ing, keys[i], provider)]
  BY DEF PoliciesOf
<1> HIDE DEF keys, S, K
<1>5. [i \in 1..Len(keys) |-> PolicyOf(ing, keys[i], provider)]
        \in Seq({PolicyOf(ing, k, provider) : k \in K})
  BY <1>2, <1>3
<1> QED
  BY <1>4, <1>5 DEF K

\* Every key that no earlier one has claimed gives its policy.
LEMMA PoliciesOfMembers ==
  ASSUME NEW ing, NEW provider, NEW k \in ToSet(PolicyKeys) \cap ing.annotations,
         ~Claimed(k, ing.annotations)
  PROVE  PolicyOf(ing, k, provider) \in ToSet(PoliciesOf(ing, provider))
<1> DEFINE S == {l \in ing.annotations : ~Claimed(l, ing.annotations)}
           keys == Kept(PolicyKeys, S)
           ps == [i \in 1..Len(keys) |-> PolicyOf(ing, keys[i], provider)]
<1>1. PoliciesOf(ing, provider) = ps
  BY DEF PoliciesOf
<1>2. IsSeq(keys) /\ ToSet(keys) = ToSet(PolicyKeys) \cap S
  <2>1. IsSeq(PolicyKeys)
    BY PolicyKeySet, SeqIsSeq
  <2> HIDE DEF S
  <2> QED
    BY <2>1, KeptMembers
<1>3. k \in ToSet(keys)
  BY <1>2
<1> HIDE DEF keys
<1>4. PICK i \in DOMAIN keys : keys[i] = k
  BY <1>3 DEF ToSet
<1>5. i \in 1..Len(keys)
  BY <1>2, <1>4 DEF IsSeq
<1>6. DOMAIN ps = 1..Len(keys) /\ ps[i] = PolicyOf(ing, k, provider)
  BY <1>4, <1>5
<1> HIDE DEF ps
<1> QED
  BY <1>1, <1>5, <1>6 DEF ToSet

\* The affinity annotation is the one that asks for sticky sessions.
LEMMA AffinityAdapter ==
  /\ "affinity" \in ToSet(PolicyKeys) /\ Adapter("affinity") = Affinity
  /\ \A keys : ~Claimed("affinity", keys)
  /\ \A key \in ToSet(PolicyKeys) : Adapter(key) = Affinity => key = "affinity"
<1>1. "affinity" \in ToSet(PolicyKeys) /\ "affinity" \notin TuningKeys
  BY PolicyKeySet DEF TuningKeys
<1>2. \A keys : ~Claimed("affinity", keys)
  BY <1>1 DEF Claimed
<1>3. /\ DOMAIN Affinity.fields = {"affinity"}
      /\ \A a \in {IPFilter, BasicAuth, RateLimit, BackendTLS} : "affinity" \notin DOMAIN a.fields
  <2>1. DOMAIN Affinity.fields = {"affinity"}
    BY DEF Affinity
  <2>2. "affinity" \notin DOMAIN IPFilter.fields /\ "affinity" \notin DOMAIN BasicAuth.fields
    BY DEF IPFilter, BasicAuth
  <2>3. "affinity" \notin DOMAIN RateLimit.fields /\ "affinity" \notin DOMAIN BackendTLS.fields
    BY DEF RateLimit, BackendTLS
  <2> QED
    BY <2>1, <2>2, <2>3
<1>4. Adapter("affinity") = Affinity
  BY <1>1, <1>3, AdapterFound
<1>5. TimeoutBody # Affinity
  <2>1. TimeoutBody.kind # Affinity.kind
    BY DEF TimeoutBody, Affinity
  <2> QED
    BY <2>1
<1>6. \A key \in ToSet(PolicyKeys) : Adapter(key) = Affinity => key = "affinity"
  BY <1>3, <1>5, AdapterFound
<1> QED
  BY <1>1, <1>2, <1>4, <1>6

LEMMA AffinityPolicies ==
  ASSUME NEW ing, "affinity" \in ing.annotations, NEW provider
  PROVE  \E p \in ToSet(PoliciesOf(ing, provider)) : p.kind = "SessionAffinity"
<1>1. PolicyOf(ing, "affinity", provider) \in ToSet(PoliciesOf(ing, provider))
  BY AffinityAdapter, PoliciesOfMembers
<1>2. PolicyOf(ing, "affinity", provider).kind = "SessionAffinity"
  <2>1. Affinity.kind = "SessionAffinity"
    BY DEF Affinity
  <2> QED
    BY <2>1, AffinityAdapter DEF PolicyOf
<1> QED
  BY <1>1, <1>2

\* No other annotation says anything of sticky sessions.
LEMMA AffinitySettings ==
  ASSUME NEW keys, NEW key \in ToSet(PolicyKeys) \cap keys, NEW provider \in Providers,
         Settings(key, keys, provider) \cap {"affinity", "loadBalancer"} # {}
  PROVE  "affinity" \in keys
<1>1. Merged(key, keys) \subseteq keys
  BY DEF Merged
<1>2. "loadBalancer" \notin Merged(key, keys)
  <2>1. "loadBalancer" \notin TuningKeys /\ key # "loadBalancer"
    BY PolicyKeySet DEF TuningKeys
  <2> QED
    BY <2>1 DEF Merged
<1>3. CASE Group(key, provider) \in {"gateshift.io", "cilium", "istio", "kong"}
  BY <1>1, <1>2, <1>3 DEF Settings
<1>4. CASE Group(key, provider) \notin {"gateshift.io", "cilium", "istio", "kong"}
  <2>1. PICK k \in DOMAIN Adapter(key).fields : Adapter(key).fields[k] \in {"affinity", "loadBalancer"}
    BY <1>4 DEF Settings
  <2> DEFINE Says(a) == \E l \in DOMAIN a.fields : a.fields[l] \in {"affinity", "loadBalancer"}
  <2>2. ~Says(TimeoutBody) /\ ~Says(IPFilter) /\ ~Says(BasicAuth)
    BY DEF TimeoutBody, IPFilter, BasicAuth
  <2>3. ~Says(RateLimit) /\ ~Says(BackendTLS)
    BY DEF RateLimit, BackendTLS
  <2>4. Says(Adapter(key))
    BY <2>1
  <2> HIDE DEF Says
  <2>5. Adapter(key) = Affinity
    BY <2>2, <2>3, <2>4, AdapterFound
  <2> QED
    BY <2>5, AffinityAdapter
<1> QED
  BY <1>3, <1>4

LEMMA CertificatesOfType ==
  ASSUME NEW ing
  PROVE  CertificatesOf(ing) \in Seq(ToSet(CertificatesOf(ing)))
<1> DEFINE keys == Kept(IssuerKeys, ing.annotations)
<1>1. IssuerKeys \in Seq(ToSet(IssuerKeys))
  BY DEF IssuerKeys, ToSet
<1>2. keys \in Seq(ToSet(IssuerKeys) \cap ing.annotations)
  BY <1>1, KeptType
<1>3. Len(keys) \in Nat
  <2> HIDE DEF keys
  <2> QED
    BY <1>2
<1> DEFINE c(i) == [name |-> ing.name \o <<"cert">>, ns |-> ing.ns,
                    secret |-> ing.name \o <<"tls">>, issuer |-> keys[i]]
<1>4. CertificatesOf(ing) = [i \in 1..Len(keys) |-> c(i)]
  BY DEF CertificatesOf
<1> HIDE DEF keys, c
<1> QED
  BY <1>3, <1>4 DEF ToSet

\* What is left of a list of policies is among it.
LEMMA WithoutExtensionsType ==
  ASSUME NEW S, NEW pols \in Seq(S)
  PROVE  WithoutExtensions(pols) \in Seq(S)
<1> DEFINE K == {p \in ToSet(pols) :
                   ~(p.group = EnvoyGateway
                     /\ p.crd \in {"BackendTrafficPolicy", "SecurityPolicy", "ClientTrafficPolicy"})}
<1>1. Kept(pols, K) \in Seq(S \cap K)
  BY KeptType
<1>2. WithoutExtensions(pols) = Kept(pols, K)
  BY DEF WithoutExtensions
<1> HIDE DEF K
<1> QED
  BY <1>1, <1>2
=============================================================================
