---------------------------- MODULE Routes_proofs ----------------------------
(***************************************************************************)
(* What the rules of the emitted routes owe to the Ingresses: weights, the  *)
(* regular expressions of hosts in regex mode, and where canaries go.       *)
(***************************************************************************)
EXTENDS Emission_proofs

-----------------------------------------------------------------------------
(* Hosts. *)

LEMMA FunctionIsSeq ==
  ASSUME NEW n \in Nat, NEW f, f = [i \in 1..n |-> f[i]]
  PROVE  IsSeq(f) /\ Len(f) = n /\ ToSet(f) = {f[i] : i \in 1..n}
<1>1. DOMAIN f = 1..n
  OBVIOUS
<1>2. ToSet(f) = {f[i] : i \in 1..n}
  BY <1>1 DEF ToSet
<1>3. [i \in 1..n |-> f[i]] \in Seq({f[i] : i \in 1..n})
  OBVIOUS
<1>4. f \in Seq({f[i] : i \in 1..n})
  BY <1>3
<1>5. Len(f) = n
  BY <1>1, <1>4
<1> QED
  BY <1>2, <1>4, <1>5 DEF IsSeq

LEMMA ShortSeqs ==
  ASSUME NEW x
  PROVE  IsSeq(<<>>) /\ ToSet(<<>>) = {} /\ IsSeq(<<x>>) /\ ToSet(<<x>>) = {x}
<1>1. ToSet(<<>>) = {} /\ ToSet(<<x>>) = {x}
  BY DEF ToSet
<1> QED
  BY <1>1 DEF IsSeq

LEMMA SeqMembers ==
  ASSUME NEW s, IsSeq(s)
  PROVE  Len(s) \in Nat /\ ToSet(s) = {s[i] : i \in 1..Len(s)} /\ s \in Seq(ToSet(s))
BY DEF IsSeq, ToSet

LEMMA TailIsSeq ==
  ASSUME NEW s, IsSeq(s), s # <<>>
  PROVE  /\ Len(s) \in Nat /\ Len(s) >= 1 /\ IsSeq(Tail(s)) /\ Len(Tail(s)) = Len(s) - 1
         /\ \A i \in 1..Len(s) - 1 : Tail(s)[i] = s[i + 1]
<1> DEFINE S == ToSet(s)
<1>1. s \in Seq(S)
  BY DEF IsSeq
<1> HIDE DEF S
<1>2. /\ Len(s) \in Nat /\ Len(s) >= 1 /\ Tail(s) \in Seq(S) /\ Len(Tail(s)) = Len(s) - 1
      /\ \A i \in 1..Len(s) - 1 : Tail(s)[i] = s[i + 1]
  BY <1>1
<1> QED
  BY <1>2, SeqIsSeq

LEMMA HeadAndTail ==
  ASSUME NEW s, IsSeq(s), s # <<>>
  PROVE  ToSet(s) = {Head(s)} \cup ToSet(Tail(s))
<1>1. /\ Len(s) \in Nat /\ Len(s) >= 1 /\ IsSeq(Tail(s)) /\ Len(Tail(s)) = Len(s) - 1
      /\ \A i \in 1..Len(s) - 1 : Tail(s)[i] = s[i + 1]
  BY TailIsSeq
<1>2. /\ s \in Seq(ToSet(s)) /\ ToSet(s) = {s[i] : i \in 1..Len(s)}
      /\ ToSet(Tail(s)) = {Tail(s)[i] : i \in 1..Len(Tail(s))}
  BY <1>1, SeqMembers
<1>3. Head(s) = s[1]
  <2> DEFINE S == ToSet(s)
  <2>1. s \in Seq(S)
    BY <1>2
  <2> HIDE DEF S
  <2> QED
    BY <2>1
<1>4. ASSUME NEW i \in 1..Len(s)  PROVE s[i] \in {Head(s)} \cup ToSet(Tail(s))
  <2>1. CASE i = 1
    BY <1>3, <2>1
  <2>2. CASE i # 1
    <3>1. i - 1 \in 1..Len(s) - 1 /\ (i - 1) + 1 = i
      BY <1>1, <2>2
    <3> QED
      BY <1>1, <1>2, <3>1
  <2> QED
    BY <2>1, <2>2
<1>5. ToSet(Tail(s)) \subseteq ToSet(s) /\ Head(s) \in ToSet(s)
  <2>1. \A i \in 1..Len(s) - 1 : i + 1 \in 1..Len(s)
    BY <1>1
  <2> QED
    BY <1>1, <1>2, <1>3, <2>1
<1> QED
  BY <1>2, <1>4, <1>5

\* Each host is found where it occurs first.
LEMMA Hostnames ==
  ASSUME NEW ing, IsIngress(ing)
  PROVE  IsSeq(CollectHostnames(ing)) /\ HostSet(ing) \subseteq ToSet(CollectHostnames(ing))
<1> DEFINE hosts == [i \in 1..Len(ing.rules) |-> ing.rules[i].host]
           named == Kept(hosts, ToSet(hosts) \ {""})
           blocks == [i \in 1..Len(ing.tls) |-> ing.tls[i].hosts]
           secure == FlattenSeq(blocks)
           all == named \o secure
           firsts == [i \in 1..Len(all) |->
                        IF \E j \in 1..Len(all) : j < i /\ all[j] = all[i] THEN <<>> ELSE <<all[i]>>]
<1>1. /\ ing.rules \in Seq(ToSet(ing.rules)) /\ Len(ing.rules) \in Nat
      /\ ing.tls \in Seq(ToSet(ing.tls)) /\ Len(ing.tls) \in Nat
      /\ \A block \in ToSet(ing.tls) : IsSeq(block.hosts)
      /\ ToSet(ing.rules) = {ing.rules[i] : i \in 1..Len(ing.rules)}
  BY SeqMembers DEF IsIngress
<1>2. IsSeq(hosts) /\ ToSet(hosts) = {r.host : r \in ToSet(ing.rules)}
  <2>1. hosts = [i \in 1..Len(ing.rules) |-> hosts[i]]
    OBVIOUS
  <2>2. IsSeq(hosts) /\ ToSet(hosts) = {hosts[i] : i \in 1..Len(ing.rules)}
    <3>1. Len(ing.rules) \in Nat
      BY <1>1
    <3> HIDE DEF hosts
    <3> QED
      BY <2>1, <3>1, FunctionIsSeq, Zenon
  <2>3. {hosts[i] : i \in 1..Len(ing.rules)} = {r.host : r \in ToSet(ing.rules)}
    BY <1>1
  <2> QED
    BY <2>2, <2>3
<1>3. IsSeq(secure)
  <2> DEFINE S == UNION {ToSet(block.hosts) : block \in ToSet(ing.tls)}
  <2>1. \A block \in ToSet(ing.tls) : block.hosts \in Seq(S)
    <3> SUFFICES ASSUME NEW block \in ToSet(ing.tls)  PROVE block.hosts \in Seq(S)
      OBVIOUS
    <3>1. block.hosts \in Seq(ToSet(block.hosts)) /\ ToSet(block.hosts) \subseteq S
      BY <1>1 DEF IsSeq
    <3> HIDE DEF S
    <3> QED
      BY <3>1
  <2> HIDE DEF S
  <2>2. \A i \in 1..Len(ing.tls) : ing.tls[i] \in ToSet(ing.tls)
    BY <1>1
  <2>3. blocks \in Seq(Seq(S))
    BY <1>1, <2>1, <2>2
  <2> QED
    BY <2>3, FlattenSeqType, SeqIsSeq
<1>4. IsSeq(named) /\ ToSet(named) = HostSet(ing)
  <2> HIDE DEF hosts
  <2>1. IsSeq(named) /\ ToSet(named) = ToSet(hosts) \cap (ToSet(hosts) \ {""})
    BY <1>2, KeptMembers
  <2> QED
    BY <1>2, <2>1 DEF HostSet
<1>5. CollectHostnames(ing) = FlattenSeq(firsts)
  BY DEF CollectHostnames
<1> HIDE DEF hosts, named, secure
<1>6. IsSeq(all) /\ HostSet(ing) \subseteq ToSet(all)
  BY <1>3, <1>4, ConcatIsSeq, ConcatMembers
<1> HIDE DEF all
<1>7. all \in Seq(ToSet(all)) /\ Len(all) \in Nat /\ ToSet(all) = {all[i] : i \in 1..Len(all)}
  BY <1>6 DEF IsSeq, ToSet
<1>8. firsts \in Seq(Seq(ToSet(all))) /\ Len(firsts) = Len(all)
  <2>1. ASSUME NEW i \in 1..Len(all)  PROVE firsts[i] \in Seq(ToSet(all))
    <3>1. all[i] \in ToSet(all)
      BY <1>7
    <3>2. <<>> \in Seq(ToSet(all)) /\ <<all[i]>> \in Seq(ToSet(all))
      BY <3>1
    <3>3. firsts[i] \in {<<>>, <<all[i]>>}
      OBVIOUS
    <3> QED
      BY <3>2, <3>3
  <2> QED
    BY <1>7, <2>1
<1>9. ASSUME NEW h \in ToSet(all)  PROVE h \in ToSet(FlattenSeq(firsts))
  <2> DEFINE T == {i \in 1..Len(all) : all[i] = h}
  <2>1. T \in SUBSET Nat /\ T # {}
    BY <1>7
  <2>2. PICK m \in T : \A n \in T : m <= n
    BY <2>1, LeastNumber
  <2>3. m \in 1..Len(all) /\ all[m] = h /\ ~\E j \in 1..Len(all) : j < m /\ all[j] = all[m]
    BY <2>2
  <2>4. firsts[m] = <<h>>
    BY <2>3
  <2>5. h \in ToSet(firsts[m])
    BY <2>4 DEF ToSet
  <2> HIDE DEF firsts
  <2> QED
    BY <1>8, <2>3, <2>5, FlattenSeqMembers
<1> HIDE DEF firsts
<1> QED
  BY <1>5, <1>6, <1>8, <1>9, FlattenSeqType, SeqIsSeq

-----------------------------------------------------------------------------
(* The rules of one Ingress. *)

LEMMA NewRuleIsWeighted ==
  ASSUME NEW ing, NEW type, NEW path, NEW redirect, NEW svc
  PROVE  /\ IsWeighted(Rule(type, path, redirect, <<>>))
         /\ IsWeighted(BackendRule(ing, type, path, svc))
<1>1. Rule(type, path, redirect, <<>>).backends = <<>>
  BY DEF Rule
<1>2. BackendRule(ing, type, path, svc).backends = BackendRefs(svc)
  BY DEF Rule, BackendRule
<1>3. IsSeq(<<>>) /\ Len(<<>>) = 0
  BY DEF IsSeq, ToSet
<1>4. IsWeighted(Rule(type, path, redirect, <<>>))
  BY <1>1, <1>3 DEF IsWeighted, IsBacked
<1>5. CASE svc = None
  <2>1. BackendRule(ing, type, path, svc).backends = <<>>
    BY <1>2, <1>5 DEF BackendRefs
  <2> QED
    BY <1>3, <1>4, <2>1 DEF IsWeighted, IsBacked
<1>6. CASE svc # None
  <2> DEFINE b == [svc |-> svc, weight |-> None]
  <2>1. BackendRule(ing, type, path, svc).backends = <<b>>
    BY <1>2, <1>6 DEF BackendRefs
  <2>2. b = [svc |-> b.svc, weight |-> b.weight] /\ b.weight = None
    OBVIOUS
  <2> HIDE DEF b
  <2>3. IsSeq(<<b>>) /\ Len(<<b>>) = 1 /\ <<b>>[1] = b
    BY DEF IsSeq, ToSet
  <2> QED
    BY <1>4, <2>1, <2>2, <2>3 DEF IsWeighted, IsBacked
<1> QED
  BY <1>5, <1>6

LEMMA RulesOfPathMembers ==
  ASSUME NEW ing, NEW r, IsSeq(r.path)
  PROVE  \E type, path :
           LET b == BackendRule(ing, type, path, r.svc)
           IN /\ b \in ToSet(RulesOfPath(ing, r))
              /\ ToSet(RulesOfPath(ing, r)) \subseteq {b, Rule("Exact", Front(r.path), "slash", <<>>)}
              /\ IsForced(ing, r.host) /\ ~IsPathOfNGINX(r) => IsRegexOf(b, r)
<1> DEFINE forced == IsForced(ing, r.host)
           preserved == opts.preserve /\ forced
           type == IF preserved THEN "RegularExpression" ELSE Lowered(r, forced)
           path == IF preserved THEN PreserveRegexPath(PathOf(r)) ELSE PathOf(r)
           b == BackendRule(ing, type, path, r.svc)
           s == Rule("Exact", Front(r.path), "slash", <<>>)
<1>1. RulesOfPath(ing, r) = Append(SlashRedirects(r), b)
  BY Zenon DEF RulesOfPath
<1>2. SlashRedirects(r) = <<>> \/ SlashRedirects(r) = <<s>>
  BY Zenon DEF SlashRedirects
<1>3. b.type = type /\ b.path = path
  BY DEF BackendRule, Rule
<1>4. forced /\ ~IsPathOfNGINX(r) => IsRegexOf(b, r)
  <2>1. ~IsPathOfNGINX(r) => r.type # "Exact" /\ r.type # "Prefix"
    BY DEF IsPathOfNGINX, TypeOf
  <2>2. forced /\ ~IsPathOfNGINX(r) => type = "RegularExpression"
    BY <2>1 DEF Lowered
  <2>3. path \in {PathOf(r), PreserveRegexPath(PathOf(r))}
    OBVIOUS
  <2> HIDE DEF forced, type, path, b
  <2> QED
    BY <1>3, <2>2, <2>3 DEF IsRegexOf
<1> HIDE DEF s
<1>5. b \in ToSet(RulesOfPath(ing, r)) /\ ToSet(RulesOfPath(ing, r)) \subseteq {b, s}
  <2> HIDE DEF b
  <2>1. RulesOfPath(ing, r) = <<b>> \/ RulesOfPath(ing, r) = <<s, b>>
    BY <1>1, <1>2, AppendSmall, Zenon
  <2> QED
    BY <2>1 DEF ToSet
<1> QED
  BY <1>4, <1>5, Zenon DEF s

LEMMA RulesOfMembers ==
  ASSUME NEW ing, IsIngress(ing)
  PROVE  /\ \A r \in ToSet(ing.rules) : ToSet(RulesOfPath(ing, r)) \subseteq ToSet(RulesOf(ing))
         /\ ToSet(RulesOf(ing)) \subseteq
              {x \in {Rule("PathPrefix", Root, ing.redirect, <<>>)} : ing.redirect # None}
              \cup {x \in {BackendRule(ing, "PathPrefix", Root, ing.backend)} : ing.backend # None}
              \cup UNION {ToSet(RulesOfPath(ing, r)) : r \in ToSet(ing.rules)}
<1> DEFINE S == UNION {ToSet(RulesOfPath(ing, r)) : r \in ToSet(ing.rules)}
           ss == [i \in 1..Len(ing.rules) |-> RulesOfPath(ing, ing.rules[i])]
           red == Rule("PathPrefix", Root, ing.redirect, <<>>)
           def == BackendRule(ing, "PathPrefix", Root, ing.backend)
           a == IF ing.redirect = None \/ (opts.httpOnly /\ ing.redirect = "https") THEN <<>> ELSE <<red>>
           b == IF ing.backend = None THEN <<>> ELSE <<def>>
<1>1. /\ Len(ing.rules) \in Nat /\ ToSet(ing.rules) = {ing.rules[i] : i \in 1..Len(ing.rules)}
      /\ \A r \in ToSet(ing.rules) : IsSeq(RulesOfPath(ing, r))
  BY SeqMembers, RulesOfPathFit DEF IsIngress
<1>2. RulesOf(ing) = a \o b \o FlattenSeq(ss)
  BY DEF RulesOf
<1>3. ToSet(FlattenSeq(ss)) = S /\ IsSeq(FlattenSeq(ss))
  <2>1. \A r \in ToSet(ing.rules) : RulesOfPath(ing, r) \in Seq(S)
    <3> SUFFICES ASSUME NEW r \in ToSet(ing.rules)  PROVE RulesOfPath(ing, r) \in Seq(S)
      OBVIOUS
    <3>1. RulesOfPath(ing, r) \in Seq(ToSet(RulesOfPath(ing, r)))
      BY <1>1 DEF IsSeq
    <3>2. ToSet(RulesOfPath(ing, r)) \subseteq S
      OBVIOUS
    <3> HIDE DEF S
    <3> QED
      BY <3>1, <3>2
  <2>2. UNION {ToSet(ss[i]) : i \in 1..Len(ing.rules)} = S
    BY <1>1
  <2> HIDE DEF S
  <2>3. ss \in Seq(Seq(S)) /\ Len(ss) = Len(ing.rules)
    BY <1>1, <2>1
  <2> HIDE DEF ss
  <2>4. ToSet(FlattenSeq(ss)) = UNION {ToSet(ss[i]) : i \in 1..Len(ss)} /\ FlattenSeq(ss) \in Seq(S)
    BY <2>3, FlattenSeqMembers, FlattenSeqType
  <2> QED
    BY <2>2, <2>3, <2>4, SeqIsSeq
<1> HIDE DEF red, def, ss
<1> DEFINE A == {x \in {red} : ing.redirect # None}
           B == {x \in {def} : ing.backend # None}
<1>4. (a = <<>> \/ (a = <<red>> /\ red \in A)) /\ (b = <<>> \/ (b = <<def>> /\ def \in B))
  OBVIOUS
<1>5. IsSeq(a) /\ IsSeq(b) /\ ToSet(a) \subseteq A /\ ToSet(b) \subseteq B
  <2> HIDE DEF a, b, A, B
  <2> QED
    BY <1>4, ShortSeqs
<1> HIDE DEF a, b
<1>6. IsSeq(a \o b) /\ ToSet(a \o b) = ToSet(a) \cup ToSet(b)
  BY <1>5, ConcatIsSeq, ConcatMembers
<1>7. ToSet(RulesOf(ing)) = ToSet(a \o b) \cup ToSet(FlattenSeq(ss))
  BY <1>2, <1>3, <1>6, ConcatMembers
<1>8. \A r \in ToSet(ing.rules) : ToSet(RulesOfPath(ing, r)) \subseteq S
  OBVIOUS
<1>9. ToSet(RulesOf(ing)) \subseteq A \cup B \cup S /\ S \subseteq ToSet(RulesOf(ing))
  <2> HIDE DEF S, A, B
  <2> QED
    BY <1>3, <1>5, <1>6, <1>7
<1>10. \A r \in ToSet(ing.rules) : ToSet(RulesOfPath(ing, r)) \subseteq ToSet(RulesOf(ing))
  <2> HIDE DEF S
  <2> QED
    BY <1>8, <1>9
<1> QED
  BY <1>9, <1>10, Zenon DEF red, def, A, B

\* A new route has no weights, and every regular expression that is called for.
LEMMA NewRulesFit ==
  ASSUME NEW ing, IsIngress(ing)
  PROVE  /\ \A rule \in ToSet(RulesOf(ing)) : IsWeighted(rule)
         /\ \A r \in ToSet(ing.rules) : IsForced(ing, r.host) /\ ~IsPathOfNGINX(r) =>
              \E rule \in ToSet(RulesOf(ing)) : IsRegexOf(rule, r)
<1>1. \A r \in ToSet(ing.rules) : IsSeq(r.path)
  BY DEF IsIngress
<1>2. ASSUME NEW r \in ToSet(ing.rules), NEW rule \in ToSet(RulesOfPath(ing, r))  PROVE IsWeighted(rule)
  BY <1>1, RulesOfPathMembers, NewRuleIsWeighted
<1>3. \A rule \in ToSet(RulesOf(ing)) : IsWeighted(rule)
  BY <1>2, RulesOfMembers, NewRuleIsWeighted
<1>4. ASSUME NEW r \in ToSet(ing.rules), IsForced(ing, r.host), ~IsPathOfNGINX(r)
      PROVE  \E rule \in ToSet(RulesOf(ing)) : IsRegexOf(rule, r)
  BY <1>1, <1>4, RulesOfPathMembers, RulesOfMembers
<1> QED
  BY <1>3, <1>4

-----------------------------------------------------------------------------
(* Canaries. *)

\* One canary backend makes two weights of a rule that had none; more make no pair.
LEMMA WeightedStaysWeighted ==
  ASSUME NEW rule, IsRule(rule), IsWeighted(rule), NEW c, IsIngress(c), c.weight <= 100
  PROVE  IsWeighted(Weighted(rule, c))
<1> DEFINE bs == CanaryBackends(c)
           compatible == Kept(bs, {b \in ToSet(bs) : PathCompatible(rule.path, b.path)})
           first == rule.backends[1]
           x == IF first.weight = None THEN [first EXCEPT !.weight = PrimaryWeight(c)] ELSE first
           ws == [i \in 1..Len(compatible) |-> [svc |-> compatible[i].svc, weight |-> c.weight]]
           v == <<x>> \o Tail(rule.backends) \o ws
<1>1. c.weight \in Int /\ PrimaryWeight(c) = 100 - c.weight
  BY DEF IsIngress, PrimaryWeight
<1>2. Weighted(rule, c) = IF rule.backends = <<>> \/ compatible = <<>> THEN rule
                          ELSE [rule EXCEPT !.backends = v]
  BY Zenon DEF Weighted
<1>3. SUFFICES ASSUME rule.backends # <<>>, compatible # <<>>
               PROVE  IsWeighted([rule EXCEPT !.backends = v])
  BY <1>2
<1>4. [rule EXCEPT !.backends = v].backends = v
  BY RuleFields
<1>5. IsSeq(compatible)
  BY CanaryBackendsFit, KeptMembers
<1> HIDE DEF compatible
<1>6. Len(compatible) \in Nat /\ Len(compatible) >= 1
  BY <1>3, <1>5, SeqMembers
<1>7. IsSeq(ws) /\ Len(ws) = Len(compatible)
  <2>1. ws = [i \in 1..Len(compatible) |-> ws[i]]
    OBVIOUS
  <2> HIDE DEF ws
  <2> QED
    BY <1>6, <2>1, FunctionIsSeq
<1>8. \A i \in 1..Len(ws) : ws[i] = [svc |-> ws[i].svc, weight |-> ws[i].weight] /\ ws[i].weight = c.weight
  BY <1>7
<1>9. IsSeq(rule.backends) /\ rule.backends \in Seq(ToSet(rule.backends)) /\ Len(rule.backends) \in Nat
  BY SeqMembers DEF IsWeighted, IsBacked
<1>10. /\ Len(rule.backends) >= 1 /\ IsSeq(Tail(rule.backends))
       /\ Len(Tail(rule.backends)) = Len(rule.backends) - 1
       /\ \A i \in 1..Len(rule.backends) - 1 : Tail(rule.backends)[i] = rule.backends[i + 1]
  BY <1>3, <1>9, TailIsSeq
<1>11. x = [svc |-> x.svc, weight |-> x.weight] /\ (first.weight = None => x.weight = 100 - c.weight)
  <2>1. first = [svc |-> first.svc, weight |-> first.weight]
    BY <1>9, <1>10 DEF IsWeighted, IsBacked
  <2> HIDE DEF first
  <2> QED
    BY <1>1, <2>1
<1> DEFINE t == Tail(rule.backends)
           l == <<x>> \o t
<1> HIDE DEF x, ws
<1>12. IsSeq(<<x>>) /\ Len(<<x>>) = 1 /\ <<x>>[1] = x
  BY ShortSeqs
<1>13. /\ IsSeq(l) /\ Len(l) = 1 + Len(t) /\ l[1] = x
       /\ \A i \in 1..Len(t) : l[1 + i] = t[i]
  BY <1>10, <1>12, ConcatIsSeq
<1>14. /\ IsSeq(v) /\ Len(v) = Len(l) + Len(ws)
       /\ \A i \in 1..Len(l) : v[i] = l[i]
       /\ \A i \in 1..Len(ws) : v[Len(l) + i] = ws[i]
  <2>1. v = l \o ws
    BY DEF l
  <2> HIDE DEF v, l, t
  <2>2. IsSeq(l) /\ IsSeq(ws)
    BY <1>7, <1>13
  <2>3. IsSeq(v) /\ Len(v) = Len(l) + Len(ws)
    BY <2>1, <2>2, ConcatIsSeq
  <2>4. \A i \in 1..Len(l) : v[i] = l[i]
    BY <2>1, <2>2, ConcatIsSeq
  <2>5. \A i \in 1..Len(ws) : v[Len(l) + i] = ws[i]
    BY <2>1, <2>2, ConcatIsSeq
  <2> QED
    BY <2>3, <2>4, <2>5
<1> HIDE DEF v, l
<1>15. Len(v) = Len(rule.backends) + Len(compatible) /\ Len(l) = Len(rule.backends)
  BY <1>7, <1>9, <1>10, <1>13, <1>14
<1>16. ASSUME NEW i \in 1..Len(v)  PROVE v[i] = [svc |-> v[i].svc, weight |-> v[i].weight]
  <2>1. CASE i = 1
    BY <1>9, <1>10, <1>11, <1>13, <1>14, <1>15, <2>1
  <2>2. CASE i \in 2..Len(l)
    <3>1. i - 1 \in 1..Len(t) /\ 1 + (i - 1) = i /\ (i - 1) + 1 = i /\ i \in 1..Len(l) /\ i \in 1..Len(rule.backends)
      BY <1>9, <1>10, <1>15, <2>2
    <3>2. v[i] = rule.backends[i]
      BY <1>10, <1>13, <1>14, <3>1
    <3> QED
      BY <3>1, <3>2 DEF IsWeighted, IsBacked
  <2>3. CASE i > Len(l)
    <3>1. i - Len(l) \in 1..Len(ws) /\ Len(l) + (i - Len(l)) = i
      BY <1>6, <1>7, <1>9, <1>15, <2>3
    <3>2. v[i] = ws[i - Len(l)]
      BY <1>14, <3>1
    <3> QED
      BY <1>8, <3>1, <3>2
  <2> QED
    BY <1>9, <1>15, <2>1, <2>2, <2>3
<1>17. ASSUME Len(v) = 2
       PROVE  v[1].weight \in Int /\ v[2].weight \in Int /\ v[1].weight + v[2].weight = 100
  <2>1. Len(rule.backends) = 1 /\ Len(compatible) = 1
    <3>1. Len(rule.backends) + Len(compatible) = 2
      BY <1>15, <1>17
    <3>2. Len(rule.backends) \in Nat /\ Len(compatible) \in Nat /\ Len(rule.backends) >= 1 /\ Len(compatible) >= 1
      BY <1>6, <1>9, <1>10
    <3>3. \A m, n \in Nat : m + n = 2 /\ m >= 1 /\ n >= 1 => m = 1 /\ n = 1
      OBVIOUS
    <3> QED
      BY <3>1, <3>2, <3>3
  <2>2. first.weight = None
    BY <2>1 DEF IsWeighted, IsBacked
  <2>3. v[1] = x /\ v[2] = ws[1]
    BY <1>7, <1>13, <1>14, <1>15, <2>1
  <2>4. ws[1].weight = c.weight
    BY <1>7, <1>8, <2>1
  <2> QED
    BY <1>1, <1>11, <2>2, <2>3, <2>4
<1>18. Len(v) # 1
  <2>1. Len(rule.backends) \in Nat /\ Len(compatible) \in Nat /\ Len(rule.backends) >= 1 /\ Len(compatible) >= 1
    BY <1>6, <1>9, <1>10
  <2> QED
    BY <1>15, <2>1
<1> DEFINE joined == [rule EXCEPT !.backends = v]
<1>19. joined.backends = v
  BY <1>4
<1> HIDE DEF joined
<1>20. IsWeighted(joined)
  BY <1>14, <1>16, <1>17, <1>18, <1>19 DEF IsWeighted, IsBacked
<1> QED
  BY <1>20 DEF joined

\* A canary leaves the types and paths of the rules alone, and adds some in front.
LEMMA CanaryKeepsRegexes ==
  ASSUME NEW c, IsIngress(c), NEW rules, IsSeq(rules), \A rule \in ToSet(rules) : IsRule(rule),
         NEW r, NEW rule \in ToSet(rules), IsRegexOf(rule, r)
  PROVE  \E other \in ToSet(CanaryRules(c, rules)) : IsRegexOf(other, r)
<1>1. CASE c.header
  <2>1. IsSeq(HeaderRules(c))
    <3>1. IsSeq(<<>>) /\ \A q \in ToSet(<<>>) : IsRule(q)
      BY DEF IsSeq, ToSet
    <3>2. IsSeq(CanaryRules(c, <<>>))
      BY <3>1, CanaryRulesFit
    <3>3. CanaryRules(c, <<>>) = HeaderRules(c) \o <<>>
      BY <1>1 DEF CanaryRules
    <3> DEFINE hs == [i \in 1..Len(CanaryBackends(c)) |->
                        [Rule("PathPrefix", CanaryBackends(c)[i].path, None,
                              <<[svc |-> CanaryBackends(c)[i].svc, weight |-> c.weight]>>) EXCEPT !.header = TRUE]]
    <3>4. Len(CanaryBackends(c)) \in Nat /\ hs = [i \in 1..Len(CanaryBackends(c)) |-> hs[i]]
      BY CanaryBackendsFit
    <3>5. HeaderRules(c) = Reverse(hs)
      BY DEF HeaderRules
    <3> HIDE DEF hs
    <3>6. hs \in Seq(ToSet(hs))
      BY <3>4, FunctionIsSeq DEF IsSeq
    <3>7. Reverse(hs) \in Seq(ToSet(hs))
      BY <3>6 DEF Reverse
    <3> QED
      BY <3>5, <3>7, SeqIsSeq
  <2>2. CanaryRules(c, rules) = HeaderRules(c) \o rules
    BY <1>1 DEF CanaryRules
  <2>3. rule \in ToSet(CanaryRules(c, rules))
    BY <2>1, <2>2, ConcatMembers
  <2> QED
    BY <2>3
<1>2. CASE ~c.header
  <2> DEFINE w == [j \in 1..Len(rules) |-> Weighted(rules[j], c)]
  <2>1. w = [j \in 1..Len(rules) |-> w[j]] /\ CanaryRules(c, rules) = w
    BY <1>2 DEF CanaryRules
  <2>2. PICK j \in 1..Len(rules) : rules[j] = rule
    BY SeqMembers
  <2>3. w[j] = Weighted(rule, c)
    BY <2>2
  <2> HIDE DEF w
  <2>4. Weighted(rule, c) \in ToSet(CanaryRules(c, rules))
    <3>1. Len(rules) \in Nat
      BY SeqMembers
    <3>2. ToSet(w) = {w[i] : i \in 1..Len(rules)}
      BY <2>1, <3>1, FunctionIsSeq
    <3> QED
      BY <2>1, <2>3, <3>2
  <2>5. \E u : Weighted(rule, c) = [rule EXCEPT !.backends = u] \/ Weighted(rule, c) = rule
    BY Zenon DEF Weighted
  <2>6. \A u : [rule EXCEPT !.backends = u].type = rule.type /\ [rule EXCEPT !.backends = u].path = rule.path
    BY DEF IsRule
  <2>7. Weighted(rule, c).type = rule.type /\ Weighted(rule, c).path = rule.path
    BY <2>5, <2>6
  <2> QED
    BY <2>4, <2>7 DEF IsRegexOf
<1> QED
  BY <1>1, <1>2

-----------------------------------------------------------------------------
(* The invariant. *)

LEMMA RulesUntouched ==
  ASSUME WeightsFit, RegexesFit, ingresses' = ingresses, built' = built, hostRegex' = hostRegex,
         \A i \in 1..Len(built) : bundle'.routes[i].rules = bundle.routes[i].rules
  PROVE  WeightsFit' /\ RegexesFit'
<1>1. WeightsFit'
  BY DEF WeightsFit
<1>2. \A ing, host : IsForced(ing, host)' <=> IsForced(ing, host)
  BY DEF IsForced
<1> QED
  BY <1>1, <1>2 DEF RegexesFit

LEMMA NoRulesYet ==
  ASSUME built' = <<>>
  PROVE  WeightsFit' /\ RegexesFit'
<1>1. Len(built') = 0
  OBVIOUS
<1> QED
  BY <1>1 DEF WeightsFit, RegexesFit

LEMMA QuirksStay ==
  ASSUME ingresses' = ingresses
  PROVE  ForcedHosts' = ForcedHosts /\ QuirkFindings(ForcedHosts)' = QuirkFindings(ForcedHosts)
<1>1. ForcedHosts' = ForcedHosts
  BY DEF ForcedHosts
<1>2. \A forced : HostFindings(forced)' = HostFindings(forced)
  BY DEF HostFindings
<1>3. \A forced : QuirkFindings(forced)' = QuirkFindings(forced)
  BY <1>2 DEF QuirkFindings
<1> QED
  BY <1>1, <1>3

\* The same Ingresses have a route, or will have one.
LEMMA PrimaryStays ==
  ASSUME PrimaryFits, ingresses' = ingresses, opts' = opts, stage \in {"build", "merge", "emit", "done"},
         Len(built') + Len(todo') = Len(built) + Len(todo),
         ToSet(built') \cup ToSet(todo') = ToSet(built) \cup ToSet(todo)
  PROVE  PrimaryFits'
BY DEF PrimaryFits

LEMMA InitRules == EmissionInit => RulesInv
<1> SUFFICES ASSUME EmissionInit  PROVE RulesInv
  OBVIOUS
<1>1. stage = "start" /\ built = <<>> /\ canaries = <<>>
  BY DEF EmissionInit
<1>2. canaries \in Seq({ing \in ToSet(ingresses) : ing.canary})
  BY <1>1
<1>3. Len(built) = 0
  BY <1>1
<1> QED
  BY <1>1, <1>2, <1>3 DEF RulesInv, WeightsFit, QuirksFit, RegexesFit, PrimaryFits

LEMMA FromIngressKeepsRules == Fits /\ RulesInv /\ FromIngress => RulesInv'
<1> SUFFICES ASSUME Fits, RulesInv, FromIngress  PROVE RulesInv'
  OBVIOUS
<1>1. /\ built = <<>> /\ opts.entry = "FromIngress" /\ stage' = "build"
      /\ UNCHANGED <<ingresses, opts, hostRegex, quirks, built, canaries, bundle>>
  BY DEF Fits, PipelineFits, FromIngress
<1>2. WeightsFit' /\ RegexesFit'
  BY <1>1, NoRulesYet
<1> QED
  BY <1>1, <1>2 DEF RulesInv, QuirksFit, PrimaryFits

LEMMA AnalyzeKeepsRules == Fits /\ RulesInv /\ Analyze => RulesInv'
<1> SUFFICES ASSUME Fits, RulesInv, Analyze  PROVE RulesInv'
  OBVIOUS
<1>1. /\ built = <<>> /\ stage' = "split" /\ hostRegex' = ForcedHosts /\ quirks' = QuirkFindings(ForcedHosts)
      /\ UNCHANGED <<ingresses, opts, built, canaries, bundle>>
  BY DEF Fits, PipelineFits, Analyze
<1>2. WeightsFit' /\ RegexesFit'
  BY <1>1, NoRulesYet
<1>3. QuirksFit'
  BY <1>1, QuirksStay DEF QuirksFit
<1> QED
  BY <1>1, <1>2, <1>3 DEF RulesInv, PrimaryFits

LEMMA SplitCanariesKeepsRules == Fits /\ RulesInv /\ SplitCanaries => RulesInv'
<1> SUFFICES ASSUME Fits, RulesInv, SplitCanaries  PROVE RulesInv'
  OBVIOUS
<1> DEFINE cs   == Kept(ingresses, {i \in ToSet(ingresses) : i.canary})
           rest == Kept(ingresses, {i \in ToSet(ingresses) : ~i.canary})
           C    == {ing \in ToSet(ingresses) : ing.canary}
           Q    == {p \in ToSet(rest) : HostSet(p) \cap HostSet(cs[1]) # {}}
           q    == Kept(rest, Q)
<1>1. /\ stage = "split" /\ stage' = "build" /\ built = <<>> /\ opts.entry = "FromIngresses"
      /\ UNCHANGED <<ingresses, opts, hostRegex, quirks, built, bundle>>
      /\ IF cs = <<>> THEN canaries' = <<>>
         ELSE /\ todo' = <<Primary(rest, cs)>>
              /\ canaries' = IF rest = <<>> THEN Tail(cs) ELSE cs
  BY DEF Fits, PipelineFits, SplitCanaries
<1>2. session # <<>>
  BY <1>1 DEF Fits, CommandFits
<1>3. IsSeq(ingresses)
  BY <1>2, RunningCommand, SeqIsSeq DEF Fits
<1>4. IsSeq(cs) /\ ToSet(cs) = C /\ IsSeq(rest) /\ ToSet(rest) = {i \in ToSet(ingresses) : ~i.canary}
  <2>1. /\ IsSeq(cs) /\ ToSet(cs) = ToSet(ingresses) \cap C
        /\ IsSeq(rest) /\ ToSet(rest) = ToSet(ingresses) \cap {i \in ToSet(ingresses) : ~i.canary}
    BY <1>3, KeptMembers
  <2> HIDE DEF cs, rest
  <2> QED
    BY <2>1
<1>5. canaries' \in Seq(C)
  <2> HIDE DEF cs, rest, C
  <2>1. cs \in Seq(C) /\ (cs # <<>> => Tail(cs) \in Seq(C))
    BY <1>4 DEF IsSeq
  <2> QED
    BY <1>1, <2>1
<1>6. WeightsFit' /\ RegexesFit'
  BY <1>1, NoRulesYet
<1>7. QuirksFit'
  BY <1>1, QuirksStay DEF RulesInv, QuirksFit
<1>8. ASSUME cs # <<>>, {i \in ToSet(ingresses) : ~i.canary /\ HostSet(i) \cap HostSet(cs[1]) # {}} # {}
      PROVE  Primary(rest, cs) \in {i \in ToSet(ingresses) : ~i.canary /\ HostSet(i) \cap HostSet(cs[1]) # {}}
  <2>1. Q = {i \in ToSet(ingresses) : ~i.canary /\ HostSet(i) \cap HostSet(cs[1]) # {}}
    BY <1>4
  <2>2. Primary(rest, cs) = Head(q \o rest \o cs)
    BY DEF Primary
  <2> HIDE DEF cs, rest
  <2>3. IsSeq(q) /\ ToSet(q) = Q
    <3>1. IsSeq(q) /\ ToSet(q) = ToSet(rest) \cap Q
      BY <1>4, KeptMembers
    <3> HIDE DEF q
    <3> QED
      BY <3>1
  <2> HIDE DEF q, Q
  <2>4. q \in Seq(ToSet(q)) /\ ToSet(q) # {}
    BY <1>8, <2>1, <2>3 DEF IsSeq
  <2>5. Len(q) \in Nat /\ Len(q) >= 1 /\ q[1] \in Q
    BY <2>3, <2>4 DEF ToSet
  <2>6. IsSeq(q \o rest) /\ Len(q \o rest) = Len(q) + Len(rest) /\ (q \o rest)[1] = q[1]
    BY <1>4, <2>3, <2>5, ConcatIsSeq
  <2> DEFINE p == q \o rest
  <2> HIDE DEF p
  <2>7. IsSeq(p) /\ Len(p) >= 1 /\ Len(p) \in Nat /\ p[1] = q[1]
    BY <1>4, <2>5, <2>6, SeqMembers DEF p
  <2>8. IsSeq(p \o cs) /\ (p \o cs)[1] = p[1]
    BY <1>4, <2>7, ConcatIsSeq
  <2>9. Head(p \o cs) = (p \o cs)[1]
    <3> DEFINE pc == p \o cs
    <3>1. pc \in Seq(ToSet(pc))
      BY <2>8 DEF IsSeq
    <3> HIDE DEF pc
    <3>2. Head(pc) = pc[1]
      BY <3>1
    <3> QED
      BY <3>2 DEF pc
  <2> QED
    BY <2>1, <2>2, <2>5, <2>7, <2>8, <2>9 DEF p
<1>9. PrimaryFits'
  <2> DEFINE paired == {i \in ToSet(ingresses) : ~i.canary /\ HostSet(i) \cap HostSet(cs[1]) # {}}
  <2>1. ASSUME cs # <<>>, paired # {}
        PROVE  Len(built') + Len(todo') = 1 /\ ToSet(built') \cup ToSet(todo') \subseteq paired
    <3>1. Primary(rest, cs) \in paired
      BY <1>8, <2>1
    <3>2. todo' = <<Primary(rest, cs)>> /\ built' = <<>>
      BY <1>1, <2>1
    <3> HIDE DEF paired, cs, rest
    <3>3. Len(todo') = 1 /\ Len(built') = 0 /\ ToSet(built') = {} /\ ToSet(todo') = {Primary(rest, cs)}
      BY <3>2, ShortSeqs
    <3> QED
      BY <3>1, <3>3
  <2> QED
    BY <1>1, <2>1 DEF PrimaryFits
<1> QED
  BY <1>1, <1>5, <1>6, <1>7, <1>9 DEF RulesInv

\* The next Ingress gets a route with its own rules, behind those that are there.
LEMMA NextRoute ==
  ASSUME Fits, BuildRoute
  PROVE  LET ing == Head(todo)
             n   == Len(built) + 1
         IN /\ stage = "build" /\ todo # <<>> /\ stage' \in {"build", "merge"}
            /\ built' = Append(built, ing) /\ todo' = Tail(todo)
            /\ UNCHANGED <<ingresses, opts, hostRegex, quirks, canaries>>
            /\ ing \in ToSet(ingresses) /\ IsIngress(ing)
            /\ Len(built') = n /\ Len(todo') = Len(todo) - 1 /\ Len(built) \in Nat
            /\ built'[n] = ing
            /\ \A i \in 1..Len(built) : built'[i] = built[i]
            /\ ToSet(built') = ToSet(built) \cup {ing}
            /\ bundle'.routes[n].rules = RulesOf(ing)
            /\ \A i \in 1..Len(built) : bundle'.routes[i].rules = bundle.routes[i].rules
<1> DEFINE ing == Head(todo)
           n   == Len(built) + 1
           r   == [name |-> ing.name, ns |-> ing.ns, source |-> ing.name, hostnames |-> CollectHostnames(ing),
                   parent |-> [name |-> GatewayName(ing), ns |-> ing.ns], rules |-> RulesOf(ing)]
<1>1. /\ stage = "build" /\ todo # <<>> /\ stage' \in {"build", "merge"}
      /\ bundle'.routes = Append(bundle.routes, r)
      /\ built' = Append(built, ing) /\ todo' = Tail(todo)
      /\ UNCHANGED <<ingresses, opts, hostRegex, quirks, canaries>>
  BY DEF BuildRoute
<1>2. /\ ing \in ToSet(ingresses) /\ IsIngress(ing)
      /\ Len(built') = n /\ Len(todo') = Len(todo) - 1 /\ Len(built) \in Nat
      /\ built'[n] = ing
      /\ \A i \in 1..Len(built) : built'[i] = built[i]
      /\ ToSet(built') = ToSet(built) \cup {ing}
  BY <1>1, NextIngress
<1>3. r.rules = RulesOf(ing)
  <2> DEFINE nm == ing.name
             hs == CollectHostnames(ing)
             gw == [name |-> GatewayName(ing), ns |-> ing.ns]
             us == RulesOf(ing)
  <2> HIDE DEF nm, hs, gw, us
  <2> QED
    BY DEF nm, hs, gw, us
<1> HIDE DEF r
<1>4. /\ bundle'.routes[n].rules = RulesOf(ing)
      /\ \A i \in 1..Len(built) : bundle'.routes[i].rules = bundle.routes[i].rules
  <2> DEFINE rs == bundle.routes
  <2>1. rs = [i \in 1..Len(built) |-> rs[i]]
    BY DEF Fits, BundleFits, RoutesFit
  <2> HIDE DEF rs
  <2>2. Append(rs, r)[n] = r /\ \A i \in 1..Len(built) : Append(rs, r)[i] = rs[i]
    BY <1>2, <2>1
  <2> QED
    BY <1>1, <1>3, <2>2 DEF rs
<1> QED
  BY <1>1, <1>2, <1>4

LEMMA BuildRouteKeepsRules == Fits /\ RulesInv /\ BuildRoute => RulesInv'
<1> SUFFICES ASSUME Fits, RulesInv, BuildRoute  PROVE RulesInv'
  OBVIOUS
<1> DEFINE ing == Head(todo)
           n   == Len(built) + 1
<1>1. /\ stage = "build" /\ todo # <<>> /\ stage' \in {"build", "merge"}
      /\ built' = Append(built, ing) /\ todo' = Tail(todo)
      /\ UNCHANGED <<ingresses, opts, hostRegex, quirks, canaries>>
  BY NextRoute
<1>2. /\ ing \in ToSet(ingresses) /\ IsIngress(ing)
      /\ Len(built') = n /\ Len(todo') = Len(todo) - 1 /\ Len(built) \in Nat
      /\ built'[n] = ing
      /\ \A i \in 1..Len(built) : built'[i] = built[i]
      /\ ToSet(built') = ToSet(built) \cup {ing}
  BY NextRoute
<1>4. /\ bundle'.routes[n].rules = RulesOf(ing)
      /\ \A i \in 1..Len(built) : bundle'.routes[i].rules = bundle.routes[i].rules
  BY NextRoute
<1>5. /\ \A rule \in ToSet(RulesOf(ing)) : IsWeighted(rule)
      /\ \A s \in ToSet(ing.rules) : IsForced(ing, s.host) /\ ~IsPathOfNGINX(s) =>
           \E rule \in ToSet(RulesOf(ing)) : IsRegexOf(rule, s)
  BY <1>2, NewRulesFit
<1>6. \A i \in 1..Len(built') : i = n \/ i \in 1..Len(built)
  BY <1>2
<1> HIDE DEF ing, n
<1>7. WeightsFit'
  BY <1>1, <1>2, <1>4, <1>5, <1>6 DEF RulesInv, WeightsFit
<1>8. RegexesFit'
  <2>1. \A i, host : IsForced(i, host)' <=> IsForced(i, host)
    BY <1>1 DEF IsForced
  <2>2. ASSUME NEW i \in 1..Len(built'), NEW s \in ToSet(built'[i].rules),
               IsForced(built'[i], s.host), ~IsPathOfNGINX(s)
        PROVE  \E rule \in ToSet(bundle'.routes[i].rules) : IsRegexOf(rule, s)
    <3>1. CASE i = n
      BY <1>2, <1>4, <1>5, <2>2, <3>1
    <3>2. CASE i \in 1..Len(built)
      BY <1>2, <1>4, <2>2, <3>2 DEF RulesInv, RegexesFit
    <3> QED
      BY <1>6, <3>1, <3>2
  <2> QED
    BY <2>1, <2>2 DEF RegexesFit
<1>9. QuirksFit'
  BY <1>1, QuirksStay DEF RulesInv, QuirksFit
<1>10. PrimaryFits'
  <2>1. todo \in Seq(ToSet(ingresses))
    BY DEF Fits, PipelineFits
  <2>2. ToSet(todo) = {ing} \cup ToSet(Tail(todo)) /\ Len(todo) \in Nat
    BY <1>1, <2>1, HeadAndTail, SeqIsSeq DEF ing
  <2>3. Len(built') + Len(todo') = Len(built) + Len(todo)
    BY <1>2, <2>2 DEF n
  <2> QED
    BY <1>1, <1>2, <2>2, <2>3, PrimaryStays DEF RulesInv
<1> QED
  BY <1>1, <1>7, <1>8, <1>9, <1>10 DEF RulesInv

\* A canary changes the rules of the first route and of no other.
LEMMA CanaryStep ==
  ASSUME Fits, ApplyCanary
  PROVE  /\ bundle'.routes[1].rules = CanaryRules(Head(canaries), bundle.routes[1].rules)
         /\ \A i \in 1..Len(built) : i # 1 => bundle'.routes[i].rules = bundle.routes[i].rules
         /\ IsSeq(bundle.routes[1].rules) /\ \A rule \in ToSet(bundle.routes[1].rules) : IsRule(rule)
<1> DEFINE b  == bundle
           rs == b.routes
           v  == CanaryRules(Head(canaries), rs[1].rules)
           fs == b.findings \cup {Finding("canary.merge", built[1])}
<1>1. bundle' = [b EXCEPT !.routes[1].rules = v, !.findings = @ \cup {Finding("canary.merge", built[1])}]
  BY DEF ApplyCanary, CanaryRules
<1>2. b = [gateways |-> b.gateways, routes |-> rs, policies |-> b.policies,
           certificates |-> b.certificates, findings |-> b.findings]
  BY DEF Fits, BundleFits
<1>3. /\ rs = [i \in 1..Len(built) |-> RouteOf(built[i], rs[i].rules)]
      /\ \A i \in 1..Len(built) : IsSeq(rs[i].rules) /\ \A rule \in ToSet(rs[i].rules) : IsRule(rule)
  BY DEF Fits, BundleFits, RoutesFit
<1>4. Len(built) \in Nat /\ Len(built) >= 1
  BY DEF Fits, PipelineFits, ApplyCanary
<1> HIDE DEF v, fs
<1>5. bundle'.routes = [rs EXCEPT ![1].rules = v]
  <2>1. [b EXCEPT !.routes[1].rules = v, !.findings = @ \cup {Finding("canary.merge", built[1])}]
          = [b EXCEPT !.routes = [rs EXCEPT ![1].rules = v], !.findings = fs]
    BY DEF fs
  <2> DEFINE ws == [rs EXCEPT ![1].rules = v]
  <2> HIDE DEF ws
  <2>2. [b EXCEPT !.routes = ws, !.findings = fs].routes = ws
    BY <1>2
  <2> QED
    BY <1>1, <2>1, <2>2 DEF ws
<1>6. \A i \in 1..Len(built) : i # 1 => bundle'.routes[i] = rs[i]
  <2> HIDE DEF rs, b
  <2> QED
    BY <1>3, <1>5
<1>7. bundle'.routes[1].rules = v
  <2>1. bundle'.routes[1] = [rs[1] EXCEPT !.rules = v]
    <3> HIDE DEF rs, b
    <3> QED
      BY <1>3, <1>4, <1>5
  <2>2. rs[1] = RouteOf(built[1], rs[1].rules)
    BY <1>3, <1>4
  <2>3. /\ [RouteOf(built[1], rs[1].rules) EXCEPT !.rules = v] = RouteOf(built[1], v)
        /\ RouteOf(built[1], v).rules = v
    BY RouteRules
  <2> HIDE DEF rs
  <2> QED
    BY <2>1, <2>2, <2>3
<1> QED
  BY <1>3, <1>4, <1>6, <1>7 DEF v

LEMMA ApplyCanaryKeepsRules == Fits /\ RulesInv /\ ApplyCanary => RulesInv'
<1> SUFFICES ASSUME Fits, RulesInv, ApplyCanary  PROVE RulesInv'
  OBVIOUS
<1> DEFINE c     == Head(canaries)
           rules == bundle.routes[1].rules
           C     == {ing \in ToSet(ingresses) : ing.canary}
<1>1. /\ stage = "merge" /\ canaries # <<>> /\ canaries' = Tail(canaries)
      /\ UNCHANGED <<ingresses, opts, stage, hostRegex, quirks, built, todo>>
  BY DEF ApplyCanary
<1>2. /\ bundle'.routes[1].rules = CanaryRules(c, rules)
      /\ \A i \in 1..Len(built) : i # 1 => bundle'.routes[i].rules = bundle.routes[i].rules
      /\ IsSeq(rules) /\ \A rule \in ToSet(rules) : IsRule(rule)
  BY CanaryStep
<1>3. c \in C /\ canaries' \in Seq(C)
  <2>1. canaries \in Seq(C)
    BY DEF RulesInv
  <2> HIDE DEF C
  <2> QED
    BY <1>1, <2>1
<1>4. c \in ToSet(ingresses) /\ c.canary /\ IsIngress(c)
  <2>1. session # <<>>
    BY <1>1 DEF Fits, CommandFits
  <2> QED
    BY <1>3, <2>1, RunningCommand DEF Fits
<1>5. 1 \in 1..Len(built)
  BY <1>1 DEF Fits, PipelineFits
<1> HIDE DEF c, rules
<1>6. WeightsFit'
  <2> SUFFICES ASSUME \A ing \in ToSet(ingresses) : ing.canary => ~ing.header /\ ing.weight <= 100
               PROVE  \A i \in 1..Len(built) : \A rule \in ToSet(bundle'.routes[i].rules) : IsWeighted(rule)
    BY <1>1 DEF WeightsFit
  <2>1. \A i \in 1..Len(built) : \A rule \in ToSet(bundle.routes[i].rules) : IsWeighted(rule)
    BY DEF RulesInv, WeightsFit
  <2>2. ASSUME NEW rule \in ToSet(CanaryRules(c, rules))  PROVE IsWeighted(rule)
    <3> DEFINE w == [j \in 1..Len(rules) |-> Weighted(rules[j], c)]
    <3>1. CanaryRules(c, rules) = w /\ w = [j \in 1..Len(rules) |-> w[j]]
      BY <1>4 DEF CanaryRules
    <3>2. Len(rules) \in Nat /\ ToSet(rules) = {rules[j] : j \in 1..Len(rules)}
      BY <1>2, SeqMembers
    <3>3. \A j \in 1..Len(rules) : w[j] = Weighted(rules[j], c)
      OBVIOUS
    <3> HIDE DEF w
    <3>4. ToSet(w) = {w[j] : j \in 1..Len(rules)}
      BY <3>1, <3>2, FunctionIsSeq
    <3>5. PICK j \in 1..Len(rules) : rule = w[j]
      BY <3>1, <3>4
    <3>6. rules[j] \in ToSet(rules)
      BY <3>2
    <3>7. IsRule(rules[j]) /\ IsWeighted(rules[j])
      BY <1>2, <1>5, <2>1, <3>6 DEF rules
    <3>8. IsWeighted(Weighted(rules[j], c))
      BY <1>4, <3>7, WeightedStaysWeighted
    <3> QED
      BY <3>3, <3>5, <3>8
  <2> QED
    BY <1>2, <2>1, <2>2
<1>7. RegexesFit'
  <2>1. \A i, host : IsForced(i, host)' <=> IsForced(i, host)
    BY <1>1 DEF IsForced
  <2>2. ASSUME NEW i \in 1..Len(built), NEW s \in ToSet(built[i].rules),
               IsForced(built[i], s.host), ~IsPathOfNGINX(s)
        PROVE  \E rule \in ToSet(bundle'.routes[i].rules) : IsRegexOf(rule, s)
    <3>1. PICK rule \in ToSet(bundle.routes[i].rules) : IsRegexOf(rule, s)
      BY <2>2 DEF RulesInv, RegexesFit
    <3>2. CASE i = 1
      <4>1. rule \in ToSet(rules)
        BY <3>1, <3>2 DEF rules
      <4>2. \E other \in ToSet(CanaryRules(c, rules)) : IsRegexOf(other, s)
        BY <1>2, <1>4, <3>1, <4>1, CanaryKeepsRegexes
      <4> QED
        BY <1>2, <3>2, <4>2
    <3>3. CASE i # 1
      BY <1>2, <3>1, <3>3
    <3> QED
      BY <3>2, <3>3
  <2> QED
    BY <1>1, <2>1, <2>2 DEF RegexesFit
<1>8. QuirksFit'
  BY <1>1, QuirksStay DEF RulesInv, QuirksFit
<1>9. PrimaryFits'
  BY <1>1, PrimaryStays DEF RulesInv
<1> QED
  BY <1>1, <1>3, <1>6, <1>7, <1>8, <1>9 DEF RulesInv

\* The last stages of the pipeline leave the rules alone and add findings.
LEMMA FindingsAdded ==
  ASSUME RulesInv, stage' \in {"merge", "emit", "done"}, stage \in {"merge", "emit"},
         UNCHANGED <<ingresses, opts, hostRegex, quirks, built, todo, canaries>>,
         \A i \in 1..Len(built) : bundle'.routes[i].rules = bundle.routes[i].rules,
         stage' \in {"emit", "done"} => quirks \subseteq bundle'.findings
  PROVE  RulesInv'
<1>1. WeightsFit' /\ RegexesFit'
  BY RulesUntouched DEF RulesInv
<1>2. QuirksFit'
  BY QuirksStay DEF RulesInv, QuirksFit
<1>3. PrimaryFits'
  BY PrimaryStays DEF RulesInv
<1> QED
  BY <1>1, <1>2, <1>3 DEF RulesInv

LEMMA FinalizeIRKeepsRules == Fits /\ RulesInv /\ FinalizeIR => RulesInv'
<1> SUFFICES ASSUME Fits, RulesInv, FinalizeIR  PROVE RulesInv'
  OBVIOUS
<1> DEFINE b  == bundle
           fs == b.findings \cup quirks
<1>1. /\ stage = "merge" /\ stage' = "emit" /\ bundle' = [b EXCEPT !.findings = fs]
      /\ UNCHANGED <<ingresses, opts, hostRegex, quirks, built, todo, canaries>>
  BY DEF FinalizeIR
<1>2. b = [gateways |-> b.gateways, routes |-> b.routes, policies |-> b.policies,
           certificates |-> b.certificates, findings |-> b.findings]
  BY DEF Fits, BundleFits
<1>3. bundle'.routes = b.routes /\ bundle'.findings = b.findings \cup quirks
  BY <1>1, <1>2
<1> QED
  BY <1>1, <1>3, FindingsAdded

\* A dual run renames the routes and leaves their rules alone.
LEMMA DualRunRules ==
  ASSUME Fits, ApplyDualRunMode
  PROVE  /\ stage = "emit" /\ bundle.findings \subseteq bundle'.findings
         /\ UNCHANGED <<ingresses, opts, stage, hostRegex, quirks, built, todo, canaries>>
         /\ \A i \in 1..Len(built) : bundle'.routes[i].rules = bundle.routes[i].rules
<1> DEFINE S  == StagingName(bundle)
           qs == bundle.routes
           gs == StagedGateways(bundle)
           rs == [i \in 1..Len(qs) |-> StagedRoute(qs[i], S)]
           ps == [i \in 1..Len(bundle.policies) |-> StagedPolicy(bundle.policies[i], S)]
           fs == bundle.findings \cup
                   {[id |-> "dual-run", ingress |-> <<>>, host |-> "", type |-> "", path |-> <<>>]}
<1>1. /\ stage = "emit" /\ ~IsStaged /\ bundle' = Staged(bundle)
      /\ UNCHANGED <<ingresses, opts, stage, hostRegex, quirks, built, todo, canaries>>
  BY DEF ApplyDualRunMode
<1>2. Staged(bundle) = [gateways |-> gs, routes |-> rs, policies |-> ps,
                        certificates |-> bundle.certificates, findings |-> fs]
  BY DEF Staged
<1>3. bundle.findings \subseteq fs
  OBVIOUS
<1> HIDE DEF gs, rs, ps, fs
<1>4. bundle'.routes = rs /\ bundle'.findings = fs
  BY <1>1, <1>2
<1>5. Len(qs) = Len(built) /\ qs = [i \in 1..Len(built) |-> RouteOf(built[i], qs[i].rules)]
  <2>1. qs = [i \in 1..Len(built) |-> RouteOf(built[i], qs[i].rules)]
    BY DEF Fits, BundleFits, RoutesFit
  <2>2. Len(built) \in Nat
    BY DEF Fits, PipelineFits
  <2> HIDE DEF qs
  <2> QED
    BY <2>1, <2>2
<1>6. ASSUME NEW i \in 1..Len(built)  PROVE rs[i].rules = qs[i].rules
  <2> DEFINE q == qs[i]
             u == qs[i].rules
  <2>1. rs[i] = StagedRoute(q, S)
    BY <1>5 DEF rs
  <2>2. q = [name |-> built[i].name, ns |-> built[i].ns, source |-> built[i].name,
             hostnames |-> CollectHostnames(built[i]),
             parent |-> [name |-> GatewayName(built[i]), ns |-> built[i].ns], rules |-> u]
    BY <1>1, <1>5, LiveNames
  <2> HIDE DEF u, q, S
  <2>3. StagedRoute(q, S).rules = u
    <3> DEFINE nm == built[i].name
               sp == built[i].ns
               hs == CollectHostnames(built[i])
               g  == GatewayName(built[i])
    <3>1. q = [name |-> nm, ns |-> sp, source |-> nm, hostnames |-> hs, parent |-> [name |-> g, ns |-> sp], rules |-> u]
      BY <2>2
    <3> HIDE DEF nm, sp, hs, g
    <3>2. StagedRoute(q, S) = [name |-> ShadowRouteName(nm), ns |-> sp, source |-> nm, hostnames |-> hs,
                               parent |-> [name |-> S, ns |-> sp], rules |-> u]
      BY <3>1, StagedRouteFields
    <3> QED
      BY <3>2
  <2> QED
    BY <2>1, <2>3 DEF u
<1> QED
  BY <1>1, <1>3, <1>4, <1>6

LEMMA ApplyDualRunModeKeepsRules == Fits /\ RulesInv /\ ApplyDualRunMode => RulesInv'
<1> SUFFICES ASSUME Fits, RulesInv, ApplyDualRunMode  PROVE RulesInv'
  OBVIOUS
<1>1. /\ stage = "emit" /\ bundle.findings \subseteq bundle'.findings
      /\ UNCHANGED <<ingresses, opts, stage, hostRegex, quirks, built, todo, canaries>>
      /\ \A i \in 1..Len(built) : bundle'.routes[i].rules = bundle.routes[i].rules
  BY DualRunRules
<1>2. quirks \subseteq bundle'.findings
  BY <1>1 DEF RulesInv, QuirksFit
<1> QED
  BY <1>1, <1>2, FindingsAdded

LEMMA EmitKeepsRules == Fits /\ RulesInv /\ Emit => RulesInv'
<1> SUFFICES ASSUME Fits, RulesInv, Emit  PROVE RulesInv'
  OBVIOUS
<1>1. /\ stage = "emit" /\ stage' = "done" /\ bundle' = bundle
      /\ UNCHANGED <<ingresses, opts, hostRegex, quirks, built, todo, canaries>>
  BY DEF Emit, EmitYAML
<1> QED
  BY <1>1, FindingsAdded DEF RulesInv, QuirksFit

LEMMA EndCommandKeepsRules == EndCommand => RulesInv'
<1> SUFFICES ASSUME EndCommand  PROVE RulesInv'
  OBVIOUS
<1>1. built' = <<>> /\ canaries' = <<>> /\ stage' \in {"start", "end"}
  BY DEF EndCommand
<1>2. canaries' \in Seq({ing \in ToSet(ingresses') : ing.canary})
  BY <1>1
<1>3. WeightsFit' /\ RegexesFit'
  BY <1>1, NoRulesYet
<1> QED
  BY <1>1, <1>2, <1>3 DEF RulesInv, QuirksFit, PrimaryFits

LEMMA StutterKeepsRules == RulesInv /\ UNCHANGED emissionVars => RulesInv'
<1> SUFFICES ASSUME RulesInv, UNCHANGED emissionVars  PROVE RulesInv'
  OBVIOUS
<1>1. UNCHANGED <<ingresses, opts, stage, hostRegex, quirks, built, todo, canaries, bundle>>
  BY DEF emissionVars, vars
<1>2. WeightsFit' /\ RegexesFit'
  BY <1>1, RulesUntouched DEF RulesInv
<1>3. QuirksFit'
  BY <1>1, QuirksStay DEF RulesInv, QuirksFit
<1>4. PrimaryFits'
  BY <1>1 DEF RulesInv, PrimaryFits
<1> QED
  BY <1>1, <1>2, <1>3, <1>4 DEF RulesInv

LEMMA NextRules == Fits /\ RulesInv /\ [EmissionNext]_emissionVars => RulesInv'
BY FromIngressKeepsRules, AnalyzeKeepsRules, SplitCanariesKeepsRules, BuildRouteKeepsRules,
   ApplyCanaryKeepsRules, FinalizeIRKeepsRules, ApplyDualRunModeKeepsRules, EmitKeepsRules,
   EndCommandKeepsRules, StutterKeepsRules
   DEF EmissionNext, Convert, Validate, KubectlApply

LEMMA RulesAlways == EmissionSpec => [](Fits /\ RulesInv)
<1>1. EmissionInit => Fits /\ RulesInv
  BY InitFits, InitRules
<1>2. Fits /\ RulesInv /\ [EmissionNext]_emissionVars => Fits' /\ RulesInv'
  BY NextFits, NextRules
<1> QED
  BY <1>1, <1>2, PTL DEF EmissionSpec

-----------------------------------------------------------------------------
(* What the emitted routes show of it. *)

LEMMA EmittedRuleFields ==
  ASSUME NEW rule, IsRule(rule)
  PROVE  /\ Emitted(rule).type = rule.type /\ Emitted(rule).path = rule.path
         /\ Emitted(rule).backends = rule.backends /\ Emitted(rule).redirect = rule.redirect
<1>1. ASSUME NEW v
      PROVE  LET e == [rule EXCEPT !.header = v]
             IN e.type = rule.type /\ e.path = rule.path /\ e.backends = rule.backends /\ e.redirect = rule.redirect
  <2>1. rule = [type |-> rule.type, path |-> rule.path, header |-> rule.header, filters |-> rule.filters,
                redirect |-> rule.redirect, backends |-> rule.backends]
    BY DEF IsRule
  <2>2. [rule EXCEPT !.header = v] =
          [type |-> rule.type, path |-> rule.path, header |-> v, filters |-> rule.filters,
           redirect |-> rule.redirect, backends |-> rule.backends]
    BY <2>1
  <2> QED
    BY <2>2
<1>2. Emitted(rule) = [rule EXCEPT !.header = FALSE]
  BY DEF Emitted
<1> QED
  BY <1>1, <1>2, Zenon

\* The emitted rules are those of the bundle, in the fields the properties look at.
LEMMA EmittedRules ==
  ASSUME Fits, Done
  PROVE  /\ Len(manifests) = Len(built) /\ Len(built) \in Nat
         /\ \A i \in 1..Len(built) :
              /\ manifests[i].hostnames = CollectHostnames(built[i])
              /\ \A rule \in ToSet(bundle.routes[i].rules) : IsRule(rule)
              /\ IsSeq(manifests[i].rules)
              /\ ToSet(manifests[i].rules) = {Emitted(rule) : rule \in ToSet(bundle.routes[i].rules)}
<1>1. manifests = EmittedRoutes
  BY DEF Fits, CommandFits, Done
<1>2. /\ Len(bundle.routes) = Len(built) /\ Len(built) \in Nat
      /\ \A i \in 1..Len(built) : bundle.routes[i] = RouteOf(built[i], bundle.routes[i].rules)
  BY NodesOfBundle, BuiltFromIngresses
<1>3. \A i \in 1..Len(built) :
        IsSeq(bundle.routes[i].rules) /\ \A rule \in ToSet(bundle.routes[i].rules) : IsRule(rule)
  BY DEF Fits, BundleFits, RoutesFit
<1>4. ASSUME NEW i \in 1..Len(built)
      PROVE  /\ manifests[i].hostnames = CollectHostnames(built[i])
             /\ IsSeq(manifests[i].rules)
             /\ ToSet(manifests[i].rules) = {Emitted(rule) : rule \in ToSet(bundle.routes[i].rules)}
  <2> DEFINE r   == bundle.routes[i]
             ing == built[i]
             u   == r.rules
             v   == [j \in 1..Len(u) |-> Emitted(u[j])]
             nm  == IF IsStaged THEN ShadowRouteName(ing.name) ELSE ing.name
             hs  == CollectHostnames(ing)
             gw  == ParentOf(ing)
  <2>1. manifests[i] = [r EXCEPT !.rules = v]
    BY <1>1, <1>2 DEF EmittedRoutes
  <2>2. r = [name |-> nm, ns |-> ing.ns, source |-> ing.name, hostnames |-> hs, parent |-> gw, rules |-> u]
    BY <1>2 DEF RouteOf
  <2>3. IsSeq(u)
    BY <1>3
  <2> HIDE DEF u
  <2>4. IsSeq(v) /\ ToSet(v) = {Emitted(rule) : rule \in ToSet(u)}
    <3>1. Len(u) \in Nat /\ ToSet(u) = {u[j] : j \in 1..Len(u)}
      BY <2>3, SeqMembers
    <3>2. v = [j \in 1..Len(u) |-> v[j]] /\ \A j \in 1..Len(u) : v[j] = Emitted(u[j])
      OBVIOUS
    <3> HIDE DEF v
    <3>3. IsSeq(v) /\ ToSet(v) = {v[j] : j \in 1..Len(u)}
      BY <3>1, <3>2, FunctionIsSeq
    <3> QED
      BY <3>1, <3>2, <3>3
  <2> HIDE DEF r, v, nm, hs, gw
  <2>5. [r EXCEPT !.rules = v] =
          [name |-> nm, ns |-> ing.ns, source |-> ing.name, hostnames |-> hs, parent |-> gw, rules |-> v]
    BY <2>2
  <2>6. manifests[i].hostnames = hs /\ manifests[i].rules = v
    BY <2>1, <2>5
  <2> QED
    BY <2>4, <2>6 DEF hs, u, r
<1>5. Len(manifests) = Len(built)
  BY <1>1, <1>2 DEF EmittedRoutes
<1> QED
  BY <1>2, <1>3, <1>4, <1>5

LEMMA WeightsOfManifests == Fits /\ RulesInv => WeightsAddUp
<1> SUFFICES ASSUME Fits, RulesInv, Done,
                    \A ing \in ToSet(ingresses) : ing.canary => ~ing.header /\ ing.weight <= 100,
                    NEW i \in 1..Len(manifests), NEW rule \in ToSet(manifests[i].rules), Len(rule.backends) = 2
             PROVE  /\ \A k \in 1..2 : rule.backends[k].weight # None
                    /\ rule.backends[1].weight + rule.backends[2].weight = 100
  BY DEF WeightsAddUp
<1>1. i \in 1..Len(built)
  BY EmittedRules
<1>2. PICK r \in ToSet(bundle.routes[i].rules) : rule = Emitted(r)
  BY <1>1, EmittedRules
<1>3. rule.backends = r.backends
  BY <1>1, <1>2, EmittedRules, EmittedRuleFields
<1>4. IsWeighted(r)
  BY <1>1 DEF RulesInv, WeightsFit
<1>5. /\ rule.backends[1].weight \in Int /\ rule.backends[2].weight \in Int
      /\ rule.backends[1].weight + rule.backends[2].weight = 100
  BY <1>3, <1>4 DEF IsWeighted, IsBacked
<1>6. \A k \in 1..2 : rule.backends[k].weight # None
  <2>1. \A k \in 1..2 : k = 1 \/ k = 2
    OBVIOUS
  <2> QED
    BY <1>5, <2>1, NoneAssumption
<1> QED
  BY <1>5, <1>6

LEMMA FindingFields ==
  ASSUME NEW f, NEW id, NEW name, NEW host, NEW type, NEW path,
         f = [id |-> id, ingress |-> name, host |-> host, type |-> type, path |-> path],
         NEW h, NEW p, NEW t
  PROVE  LET g == [f EXCEPT !.host = h, !.path = p, !.type = t]
         IN g.id = id /\ g.host = h /\ g.path = p /\ g.type = t
<1> DEFINE x == [f EXCEPT !.host = h]
           y == [x EXCEPT !.path = p]
<1>1. x = [id |-> id, ingress |-> name, host |-> h, type |-> type, path |-> path]
  OBVIOUS
<1> HIDE DEF x
<1>2. y = [id |-> id, ingress |-> name, host |-> h, type |-> type, path |-> p]
  BY <1>1
<1>3. [f EXCEPT !.host = h, !.path = p, !.type = t] = [y EXCEPT !.type = t]
  BY DEF x
<1> HIDE DEF y
<1>4. [y EXCEPT !.type = t] = [id |-> id, ingress |-> name, host |-> h, type |-> t, path |-> p]
  BY <1>2
<1> QED
  BY <1>3, <1>4

LEMMA QuirkFields ==
  ASSUME NEW id, NEW ing, NEW r
  PROVE  /\ QuirkFinding(id, ing, r).id = id /\ QuirkFinding(id, ing, r).host = HostKey(r.host)
         /\ QuirkFinding(id, ing, r).path = PathOf(r)
         /\ id = "quirk.path-as-regex" => QuirkFinding(id, ing, r).type = TypeOf(r)
<1> DEFINE f == Finding(id, ing)
           a == ing.name
           e == ""
           n == <<>>
           h == HostKey(r.host)
           p == PathOf(r)
           t == IF id = "quirk.path-as-regex" THEN TypeOf(r) ELSE ""
           g == [f EXCEPT !.host = h, !.path = p, !.type = t]
<1>1. f = [id |-> id, ingress |-> a, host |-> e, type |-> e, path |-> n]
  BY DEF Finding
<1>2. QuirkFinding(id, ing, r) = g
  BY DEF QuirkFinding
<1>3. id = "quirk.path-as-regex" => t = TypeOf(r)
  OBVIOUS
<1> HIDE DEF f, a, e, n, h, p, t
<1>4. g.id = id /\ g.host = h /\ g.path = p /\ g.type = t
  BY <1>1, FindingFields
<1> HIDE DEF g
<1> QED
  BY <1>2, <1>3, <1>4 DEF h, p

LEMMA RegexesOfManifests == Fits /\ RulesInv => RegexHostsAreHonoured
<1> SUFFICES ASSUME Fits, RulesInv, Done, opts.entry = "FromIngresses",
                    NEW i \in 1..Len(built), NEW r \in ToSet(built[i].rules),
                    NEW ing \in ToSet(ingresses), ing.regex, HostKey(r.host) \in HostsOf(ing)
             PROVE  \/ \E rule \in ToSet(manifests[i].rules) :
                         /\ rule.type = "RegularExpression"
                         /\ rule.path \in {PathOf(r), PreserveRegexPath(PathOf(r))}
                    \/ \E f \in bundle.findings :
                         /\ f.id = "quirk.path-as-regex"
                         /\ f.host = HostKey(r.host) /\ f.path = PathOf(r) /\ f.type = TypeOf(r)
  BY DEF RegexHostsAreHonoured
<1>1. HostKey(r.host) \in ForcedHosts
  BY DEF ForcedHosts
<1>2. /\ hostRegex = ForcedHosts /\ quirks = QuirkFindings(ForcedHosts) /\ quirks \subseteq bundle.findings
  BY DEF RulesInv, QuirksFit, Done
<1>3. built[i] \in ToSet(ingresses)
  BY DEF Fits, PipelineFits
<1>4. CASE IsPathOfNGINX(r)
  <2> DEFINE f == QuirkFinding("quirk.path-as-regex", built[i], r)
  <2>1. f \in QuirkFindings(ForcedHosts)
    BY <1>1, <1>3, <1>4 DEF QuirkFindings
  <2>2. /\ f.id = "quirk.path-as-regex" /\ f.host = HostKey(r.host) /\ f.path = PathOf(r)
        /\ f.type = TypeOf(r)
    BY QuirkFields
  <2> HIDE DEF f
  <2> QED
    BY <1>2, <2>1, <2>2
<1>5. CASE ~IsPathOfNGINX(r)
  <2>1. IsForced(built[i], r.host)
    BY <1>1, <1>2 DEF IsForced
  <2>2. PICK rule \in ToSet(bundle.routes[i].rules) : IsRegexOf(rule, r)
    BY <1>5, <2>1 DEF RulesInv, RegexesFit
  <2>3. Emitted(rule) \in ToSet(manifests[i].rules) /\ IsRule(rule)
    BY <2>2, EmittedRules
  <2>4. Emitted(rule).type = rule.type /\ Emitted(rule).path = rule.path
    BY <2>3, EmittedRuleFields
  <2> QED
    BY <2>2, <2>3, <2>4 DEF IsRegexOf
<1> QED
  BY <1>4, <1>5

LEMMA SeqIsFinite ==
  ASSUME NEW s, IsSeq(s)
  PROVE  IsFiniteSet(ToSet(s))
<1> DEFINE S == ToSet(s)
           n == Len(s)
<1>1. s \in Seq(S) /\ n \in Nat /\ S = {s[i] : i \in 1..n}
  BY SeqMembers DEF IsSeq
<1> HIDE DEF S, n
<1>2. IsFiniteSet(1..n)
  <2>1. 1 \in Int /\ n \in Int
    BY <1>1
  <2> QED
    BY <2>1, FS_Interval
<1>3. [i \in 1..n |-> s[i]] \in Surjection(1..n, S)
  BY <1>1 DEF Surjection
<1> QED
  BY <1>2, <1>3, FS_Surjection DEF S

LEMMA HostsAreFinite ==
  ASSUME NEW ing, IsIngress(ing)
  PROVE  /\ IsFiniteSet(HostSet(ing))
         /\ IsFiniteSet(HostsOf(ing) \cup ToSet(CollectHostnames(ing)))
<1>1. IsFiniteSet(ToSet(CollectHostnames(ing))) /\ HostSet(ing) \subseteq ToSet(CollectHostnames(ing))
  BY Hostnames, SeqIsFinite
<1>2. IsFiniteSet(HostSet(ing))
  BY <1>1, FS_Subset
<1>3. IsFiniteSet(HostsOf(ing))
  <2> DEFINE keys == [i \in 1..Len(ing.rules) |-> HostKey(ing.rules[i].host)]
  <2>1. Len(ing.rules) \in Nat /\ ToSet(ing.rules) = {ing.rules[i] : i \in 1..Len(ing.rules)}
    BY SeqMembers DEF IsIngress
  <2>2. {keys[i] : i \in 1..Len(ing.rules)} = {HostKey(r.host) : r \in ToSet(ing.rules)}
    BY <2>1
  <2>3. keys = [i \in 1..Len(ing.rules) |-> keys[i]]
    OBVIOUS
  <2> HIDE DEF keys
  <2>4. IsSeq(keys) /\ ToSet(keys) = {HostKey(r.host) : r \in ToSet(ing.rules)}
    BY <2>1, <2>2, <2>3, FunctionIsSeq
  <2>5. IsFiniteSet({HostKey(r.host) : r \in ToSet(ing.rules)}) /\ IsFiniteSet({"*"})
    BY <2>4, SeqIsFinite, FS_Singleton
  <2> QED
    BY <2>5 DEF HostsOf
<1> QED
  BY <1>1, <1>2, <1>3, FS_Union

\* Where every canary names one host that an Ingress has, an Ingress of that host, and
\* of no other, has the only route.
LEMMA OnlyRoute ==
  ASSUME Fits, RulesInv, Done, opts.entry = "FromIngresses", NEW hosts,
         hosts = UNION {HostSet(c) : c \in {ing \in ToSet(ingresses) : ing.canary}},
         Cardinality(hosts) = 1,
         \A c \in {ing \in ToSet(ingresses) : ing.canary} : HostSet(c) = hosts,
         \A ing \in ToSet(ingresses) : SingleHost(ing),
         NEW other \in ToSet(ingresses), ~other.canary, HostSet(other) = hosts
  PROVE  Len(built) = 1 /\ ToSet(CollectHostnames(built[1])) = hosts
<1> DEFINE C  == {ing \in ToSet(ingresses) : ing.canary}
           cs == Kept(ingresses, {i \in ToSet(ingresses) : i.canary})
           P  == {i \in ToSet(ingresses) : ~i.canary /\ HostSet(i) \cap HostSet(cs[1]) # {}}
<1>1. session # <<>> /\ todo = <<>> /\ stage = "done"
  BY DEF Fits, CommandFits, PipelineFits, Done
<1>2. IsSeq(ingresses) /\ \A ing \in ToSet(ingresses) : IsIngress(ing)
  BY <1>1, RunningCommand, SeqIsSeq DEF Fits
<1>3. PICK h : hosts = {h}
  <2>1. IsFiniteSet(hosts)
    BY <1>2, HostsAreFinite
  <2> QED
    BY <2>1, FS_Singleton
<1>4. IsSeq(cs) /\ ToSet(cs) = C
  <2>1. IsSeq(cs) /\ ToSet(cs) = ToSet(ingresses) \cap C
    BY <1>2, KeptMembers
  <2> HIDE DEF cs
  <2> QED
    BY <2>1
<1>5. cs # <<>> /\ cs[1] \in C
  <2>1. C # {}
    BY <1>3
  <2> HIDE DEF C, cs
  <2>2. cs \in Seq(C)
    BY <1>4 DEF IsSeq
  <2>3. cs # <<>>
    BY <1>4, <2>1, ShortSeqs
  <2> QED
    BY <2>2, <2>3
<1>6. HostSet(cs[1]) = hosts /\ other \in P
  BY <1>3, <1>5
<1>7. Len(built) + Len(todo) = 1 /\ ToSet(built) \subseteq P
  <2>1. P # {}
    BY <1>6
  <2> QED
    BY <1>1, <1>5, <2>1 DEF RulesInv, PrimaryFits
<1> DEFINE p == built[1]
           N == ToSet(CollectHostnames(p))
<1>8. Len(built) = 1 /\ p \in P
  <2>1. Len(todo) = 0 /\ Len(built) \in Nat /\ \A i \in 1..Len(built) : built[i] \in ToSet(built)
    BY <1>1, BuiltFromIngresses
  <2>2. Len(built) = 1
    BY <1>7, <2>1
  <2> HIDE DEF P
  <2> QED
    BY <1>7, <2>1, <2>2
<1>9. p \in ToSet(ingresses) /\ HostSet(p) \cap {h} # {}
  BY <1>3, <1>6, <1>8
<1> HIDE DEF p, P, C, cs
<1>10. h \in N
  BY <1>2, <1>9, Hostnames
<1>11. N = {h}
  <2>1. IsFiniteSet(HostsOf(p) \cup N) /\ Cardinality(HostsOf(p) \cup N) = 1
    BY <1>2, <1>9, HostsAreFinite DEF SingleHost
  <2> HIDE DEF N
  <2>2. \E x : HostsOf(p) \cup N = {x}
    BY <2>1, FS_Singleton
  <2> QED
    BY <1>10, <2>2
<1> QED
  BY <1>3, <1>8, <1>11 DEF p

LEMMA CanariesOfManifests == Fits /\ RulesInv => CanariesStayOnTheirHost
<1> DEFINE cs    == {ing \in ToSet(ingresses) : ing.canary}
           hosts == UNION {HostSet(c) : c \in cs}
           svcs  == {r.svc : r \in UNION {ToSet(c.rules) : c \in cs}}
<1> SUFFICES ASSUME Fits, RulesInv, Done, opts.entry = "FromIngresses", Cardinality(hosts) = 1,
                    \A c \in cs : HostSet(c) = hosts, \A ing \in ToSet(ingresses) : SingleHost(ing),
                    \E ing \in ToSet(ingresses) : ~ing.canary /\ HostSet(ing) = hosts
             PROVE  /\ \A host \in NamedHosts \ hosts, path \in RequestPaths :
                         \A rule \in Answers(host, path) :
                           \A k \in 1..Len(rule.backends) : rule.backends[k].svc \notin svcs
                    /\ \E i \in 1..Len(manifests) : hosts = ToSet(manifests[i].hostnames)
  BY DEF CanariesStayOnTheirHost
<1>1. Len(built) = 1 /\ ToSet(CollectHostnames(built[1])) = hosts
  BY OnlyRoute
<1>2. Len(manifests) = 1 /\ ToSet(manifests[1].hostnames) = hosts
  BY <1>1, EmittedRules
<1>3. hosts # {}
  BY FS_EmptySet
<1> HIDE DEF hosts, svcs
<1>4. ASSUME NEW host, host \notin hosts, NEW path  PROVE Answers(host, path) = {}
  <2>1. manifests[1].hostnames # <<>>
    BY <1>2, <1>3, ShortSeqs
  <2>2. Candidates(host, path) = {}
    <3> SUFFICES ASSUME NEW c \in Candidates(host, path)  PROVE FALSE
      OBVIOUS
    <3>1. /\ c \in UNION {{i} \X (1..Len(manifests[i].rules)) : i \in 1..Len(manifests)}
          /\ manifests[c[1]].hostnames = <<>> \/ host \in ToSet(manifests[c[1]].hostnames)
      BY DEF Candidates
    <3>2. c[1] = 1
      BY <1>2, <3>1
    <3> QED
      BY <1>2, <1>4, <2>1, <3>1, <3>2
  <2> QED
    BY <2>2 DEF Answers
<1> QED
  BY <1>2, <1>4

-----------------------------------------------------------------------------
(* Theorems. *)

\* The invariant of the rules: weights that are parts of a hundred, a regular expression
\* or a finding for every path of a host in regex mode, one route where a canary is paired.
THEOREM RulesInvariant == EmissionSpec => []RulesInv
BY RulesAlways, PTL

\* Where one canary backend joins a rule, the two weights are parts of a hundred.
THEOREM WeightsAreShares == EmissionSpec => []WeightsAddUp
BY RulesAlways, WeightsOfManifests, PTL

\* Every path of a host in regex mode is emitted as a regular expression or reported.
THEOREM RegexHostsAreReported == EmissionSpec => []RegexHostsAreHonoured
BY RulesAlways, RegexesOfManifests, PTL

\* A canary takes traffic of its own host only, and the route of that host is emitted.
THEOREM CanariesKeepToTheirHost == EmissionSpec => []CanariesStayOnTheirHost
BY RulesAlways, CanariesOfManifests, PTL
=============================================================================
