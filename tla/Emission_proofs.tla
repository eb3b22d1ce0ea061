--------------------------- MODULE Emission_proofs ---------------------------
(***************************************************************************)
(* What the commands around the pipeline keep, proved for every list of     *)
(* Ingresses, every set of options and every sequence of commands.          *)
(***************************************************************************)
EXTENDS Emission, Policies_proofs

-----------------------------------------------------------------------------
(* Commands. *)

LEMMA EffectiveOptions ==
  ASSUME NEW c, IsCommand(c)
  PROVE  /\ IsOptions(Effective(c)) /\ Effective(c).entry = c.opts.entry
         /\ Effective(c).includeGateway = c.opts.includeGateway
         /\ c.opts.gatewayName # <<>> => Effective(c).gatewayName = c.opts.gatewayName
<1> DEFINE o == c.opts
           n == (IF Len(c.ingresses) = 1 THEN c.ingresses[1].name ELSE <<"shared">>)
                \o <<"staging", "gateway">>
           e == [o EXCEPT !.gatewayName = n]
<1>1. IsOptions(o) /\ c.ingresses \in Seq(ToSet(c.ingresses)) /\ \A ing \in ToSet(c.ingresses) : IsIngress(ing)
  BY DEF IsCommand, IsSeq
<1>2. Effective(c) = o \/ (Effective(c) = e /\ o.gatewayName = <<>>)
  BY Zenon DEF Effective
<1>3. IsSeq(n)
  <2>1. IsSeq(<<"shared">>) /\ IsSeq(<<"staging", "gateway">>)
    BY DEF IsSeq, ToSet
  <2>2. Len(c.ingresses) = 1 => IsSeq(c.ingresses[1].name)
    <3>1. Len(c.ingresses) = 1 => c.ingresses[1] \in ToSet(c.ingresses)
      BY <1>1
    <3> QED
      BY <1>1, <3>1 DEF IsIngress
  <2> QED
    BY <2>1, <2>2, ConcatIsSeq
<1> HIDE DEF n
<1>4. o = [entry |-> o.entry, provider |-> o.provider, gatewayName |-> o.gatewayName,
           includeGateway |-> o.includeGateway, preserve |-> o.preserve, slashes |-> o.slashes,
           httpOnly |-> o.httpOnly, skipExtensions |-> o.skipExtensions]
  BY <1>1 DEF IsOptions
<1> HIDE DEF o
<1>5. e = [entry |-> o.entry, provider |-> o.provider, gatewayName |-> n,
           includeGateway |-> o.includeGateway, preserve |-> o.preserve, slashes |-> o.slashes,
           httpOnly |-> o.httpOnly, skipExtensions |-> o.skipExtensions]
  BY <1>4
<1> HIDE DEF e
<1>6. IsOptions(e) /\ e.entry = o.entry /\ e.includeGateway = o.includeGateway
  BY <1>1, <1>3, <1>5 DEF IsOptions
<1> QED
  BY <1>1, <1>2, <1>6 DEF o

\* The running command, its Ingresses and flags.
LEMMA RunningCommand ==
  ASSUME CommandFits, session # <<>>
  PROVE  /\ IsCommand(Head(session)) /\ ingresses = Head(session).ingresses
         /\ IsOptions(opts) /\ opts = Effective(Head(session)) /\ opts.entry = Head(session).opts.entry
         /\ ingresses \in Seq(ToSet(ingresses)) /\ ingresses # <<>>
         /\ \A ing \in ToSet(ingresses) : IsIngress(ing)
         /\ IsDualRun => opts.entry = "FromIngresses"
         /\ Tail(session) \in Seq(ToSet(session))
<1>1. session \in Seq(ToSet(session)) /\ \A c \in ToSet(session) : IsCommand(c)
  BY DEF CommandFits, IsSeq
<1>2. Head(session) \in ToSet(session) /\ Tail(session) \in Seq(ToSet(session))
  <2> DEFINE S == ToSet(session)
  <2>1. session \in Seq(S)
    BY <1>1
  <2> HIDE DEF S
  <2>2. Head(session) \in S /\ Tail(session) \in Seq(S)
    BY <2>1
  <2> QED
    BY <2>2 DEF S
<1>3. IsCommand(Head(session))
  BY <1>1, <1>2
<1>4. ingresses = Head(session).ingresses /\ opts = Effective(Head(session))
  BY DEF CommandFits
<1>5. IsOptions(opts) /\ opts.entry = Head(session).opts.entry
  BY <1>3, <1>4, EffectiveOptions
<1>6. /\ ingresses \in Seq(ToSet(ingresses)) /\ ingresses # <<>>
      /\ \A ing \in ToSet(ingresses) : IsIngress(ing)
  BY <1>3, <1>4 DEF IsCommand, IsSeq
<1>7. IsDualRun => opts.entry = "FromIngresses"
  BY <1>3, <1>5 DEF IsCommand, IsDualRun, Command, IsOptions
<1> QED
  BY <1>2, <1>3, <1>4, <1>5, <1>6, <1>7

-----------------------------------------------------------------------------
(* Rules. *)

LEMMA RuleFields ==
  ASSUME NEW r, IsRule(r), NEW v
  PROVE  /\ IsRule([r EXCEPT !.filters = v])  /\ [r EXCEPT !.filters = v].backends = r.backends
         /\ IsRule([r EXCEPT !.header = v])   /\ [r EXCEPT !.header = v].backends = r.backends
         /\ IsRule([r EXCEPT !.backends = v]) /\ [r EXCEPT !.backends = v].backends = v
<1>1. r = [type |-> r.type, path |-> r.path, header |-> r.header, filters |-> r.filters,
           redirect |-> r.redirect, backends |-> r.backends]
  BY DEF IsRule
<1>2. [r EXCEPT !.filters = v] =
        [type |-> r.type, path |-> r.path, header |-> r.header, filters |-> v,
         redirect |-> r.redirect, backends |-> r.backends]
  BY <1>1
<1>3. [r EXCEPT !.header = v] =
        [type |-> r.type, path |-> r.path, header |-> v, filters |-> r.filters,
         redirect |-> r.redirect, backends |-> r.backends]
  BY <1>1
<1>4. [r EXCEPT !.backends = v] =
        [type |-> r.type, path |-> r.path, header |-> r.header, filters |-> r.filters,
         redirect |-> r.redirect, backends |-> v]
  BY <1>1
<1> QED
  BY <1>2, <1>3, <1>4 DEF IsRule

LEMMA NewRule ==
  ASSUME NEW type \in {"Exact", "PathPrefix", "RegularExpression"}, NEW path, path # <<>>,
         NEW redirect, NEW backends
  PROVE  IsRule(Rule(type, path, redirect, backends))
BY DEF Rule, IsRule

LEMMA RootNotEmpty == Root # <<>> /\ IsSeq(Root)
BY DEF Root, IsSeq, ToSet

LEMMA PathsNotEmpty ==
  ASSUME NEW path, IsSeq(path)
  PROVE  /\ PreserveRegexPath(path) # <<>>
         /\ EndsInSlash(path) => Front(path) # <<>>
<1>1. IsSeq(<<"(?i)">>) /\ IsSeq(<<".*">>) /\ Len(<<"(?i)">>) = 1
  BY DEF IsSeq, ToSet
<1>2. Len(path) \in Nat
  BY DEF IsSeq
<1>3. PreserveRegexPath(path) # <<>>
  <2>1. IsSeq(<<"(?i)">> \o path) /\ Len(<<"(?i)">> \o path) = 1 + Len(path)
    BY <1>1, ConcatIsSeq
  <2>2. Len(PreserveRegexPath(path)) = Len(<<"(?i)">> \o path) + Len(<<".*">>)
    BY <1>1, <2>1, ConcatIsSeq DEF PreserveRegexPath
  <2>3. Len(PreserveRegexPath(path)) # 0
    BY <1>2, <2>1, <2>2
  <2> QED
    BY <2>3
<1>4. ASSUME EndsInSlash(path)  PROVE Front(path) # <<>>
  <2>1. path \in Seq(ToSet(path)) /\ path # <<>> /\ path # Root /\ path[Len(path)] = "/"
    BY <1>4 DEF EndsInSlash, Last, IsSeq
  <2>2. Len(path) # 1
    BY <2>1 DEF Root
  <2>3. Len(path) >= 2
    BY <1>2, <2>1, <2>2
  <2>4. Len(Front(path)) = Len(path) - 1
    BY <2>1, <2>3 DEF Front
  <2> QED
    BY <2>3, <2>4
<1> QED
  BY <1>3, <1>4

LEMMA AppendSmall ==
  ASSUME NEW x, NEW y
  PROVE  Append(<<>>, x) = <<x>> /\ Append(<<y>>, x) = <<y, x>>
<1>1. \E S : x \in S /\ y \in S
  <2>1. x \in {x, y} /\ y \in {x, y}
    OBVIOUS
  <2> QED
    BY <2>1
<1>2. PICK S : x \in S /\ y \in S
  BY <1>1
<1>3. <<>> \in Seq(S) /\ <<y>> \in Seq(S)
  BY <1>2
<1> DEFINE a == Append(<<>>, x)
           b == Append(<<y>>, x)
<1>4. a \in Seq(S) /\ Len(a) = 1 /\ a[1] = x /\ b \in Seq(S) /\ Len(b) = 2 /\ b[1] = y /\ b[2] = x
  BY <1>2, <1>3, AppendProperties
<1> HIDE DEF a, b
<1>5. a = <<x>> /\ b = <<y, x>>
  BY <1>4
<1> QED
  BY <1>5 DEF a, b

LEMMA RulesOfPathFit ==
  ASSUME NEW ing, NEW r, IsSeq(r.path)
  PROVE  IsSeq(RulesOfPath(ing, r)) /\ \A rule \in ToSet(RulesOfPath(ing, r)) : IsRule(rule)
<1>1. PathOf(r) # <<>>
  BY RootNotEmpty DEF PathOf
<1>2. IsSeq(PathOf(r))
  BY RootNotEmpty DEF PathOf
<1>3. PICK type, path :
        /\ type \in {"Exact", "PathPrefix", "RegularExpression"} /\ path # <<>>
        /\ RulesOfPath(ing, r) = Append(SlashRedirects(r), BackendRule(ing, type, path, r.svc))
  <2>1. Lowered(r, IsForced(ing, r.host)) \in {"Exact", "PathPrefix", "RegularExpression"}
    BY DEF Lowered
  <2>2. PreserveRegexPath(PathOf(r)) # <<>>
    BY <1>2, PathsNotEmpty
  <2> QED
    BY <1>1, <2>1, <2>2, Zenon DEF RulesOfPath
<1> DEFINE b == BackendRule(ing, type, path, r.svc)
           s == Rule("Exact", Front(r.path), "slash", <<>>)
<1>4. IsRule(b)
  BY <1>3, NewRule, RuleFields DEF BackendRule
<1>5. SlashRedirects(r) = <<>> \/ (SlashRedirects(r) = <<s>> /\ IsRule(s))
  BY PathsNotEmpty, NewRule DEF SlashRedirects
<1> HIDE DEF b, s
<1>6. RulesOfPath(ing, r) = <<b>> \/ (RulesOfPath(ing, r) = <<s, b>> /\ IsRule(s))
  <2>1. RulesOfPath(ing, r) = Append(SlashRedirects(r), b)
    BY <1>3 DEF b
  <2>2. Append(<<>>, b) = <<b>> /\ Append(<<s>>, b) = <<s, b>>
    BY AppendSmall
  <2> QED
    BY <1>5, <2>1, <2>2, Zenon
<1> QED
  BY <1>4, <1>6 DEF IsSeq, ToSet

LEMMA RulesOfFit ==
  ASSUME NEW ing, IsIngress(ing)
  PROVE  IsSeq(RulesOf(ing)) /\ \A rule \in ToSet(RulesOf(ing)) : IsRule(rule)
<1> DEFINE S == UNION {ToSet(RulesOfPath(ing, r)) : r \in ToSet(ing.rules)}
           ss == [i \in 1..Len(ing.rules) |-> RulesOfPath(ing, ing.rules[i])]
           red == Rule("PathPrefix", Root, ing.redirect, <<>>)
           def == BackendRule(ing, "PathPrefix", Root, ing.backend)
           R == S \cup {r \in {red, def} : IsRule(r)}
<1>1. ing.rules \in Seq(ToSet(ing.rules)) /\ Len(ing.rules) \in Nat
  BY DEF IsIngress, IsSeq
<1>2. \A r \in ToSet(ing.rules) :
        IsSeq(RulesOfPath(ing, r)) /\ \A rule \in ToSet(RulesOfPath(ing, r)) : IsRule(rule)
  BY RulesOfPathFit DEF IsIngress
<1>3. \A rule \in S : IsRule(rule)
  BY <1>2
<1>4. \A r \in ToSet(ing.rules) : RulesOfPath(ing, r) \in Seq(S)
  <2> SUFFICES ASSUME NEW r \in ToSet(ing.rules)  PROVE RulesOfPath(ing, r) \in Seq(S)
    OBVIOUS
  <2>1. RulesOfPath(ing, r) \in Seq(ToSet(RulesOfPath(ing, r)))
    BY <1>2 DEF IsSeq
  <2>2. ToSet(RulesOfPath(ing, r)) \subseteq S
    OBVIOUS
  <2> HIDE DEF S
  <2> QED
    BY <2>1, <2>2
<1>5. \A i \in 1..Len(ing.rules) : ing.rules[i] \in ToSet(ing.rules)
  BY <1>1
<1> HIDE DEF S
<1>6. ss \in Seq(Seq(S))
  BY <1>1, <1>4, <1>5
<1>7. FlattenSeq(ss) \in Seq(S)
  BY <1>6, FlattenSeqType
<1>8. IsRule(red) /\ IsRule(def)
  BY NewRule, RuleFields, RootNotEmpty DEF BackendRule
<1>9. red \in R /\ def \in R /\ S \subseteq R /\ \A r \in R : IsRule(r)
  BY <1>3, <1>8
<1>10. RulesOf(ing) =
         (IF ing.redirect = None \/ (opts.httpOnly /\ ing.redirect = "https") THEN <<>> ELSE <<red>>)
         \o (IF ing.backend = None THEN <<>> ELSE <<def>>) \o FlattenSeq(ss)
  BY DEF RulesOf
<1> HIDE DEF R, red, def, ss
<1>11. RulesOf(ing) \in Seq(R)
  <2>1. <<>> \in Seq(R) /\ <<red>> \in Seq(R) /\ <<def>> \in Seq(R) /\ FlattenSeq(ss) \in Seq(R)
    BY <1>7, <1>9
  <2> QED
    BY <1>10, <2>1
<1> QED
  BY <1>9, <1>11, SeqIsSeq
\* What a canary makes of the rules of its primary.
CanaryRules(c, rules) ==
  IF c.header THEN HeaderRules(c) \o rules ELSE [j \in 1..Len(rules) |-> Weighted(rules[j], c)]

LEMMA CanaryBackendsFit ==
  ASSUME NEW c, IsIngress(c)
  PROVE  /\ IsSeq(CanaryBackends(c)) /\ Len(CanaryBackends(c)) \in Nat
         /\ \A i \in 1..Len(CanaryBackends(c)) : CanaryBackends(c)[i].path # <<>>
<1> DEFINE rs == Kept(c.rules, {r \in ToSet(c.rules) : r.svc # None})
           bs == [i \in 1..Len(rs) |-> [svc |-> rs[i].svc, path |-> PathOf(rs[i])]]
<1>1. c.rules \in Seq(ToSet(c.rules))
  BY DEF IsIngress, IsSeq
<1>2. rs \in Seq(ToSet(c.rules) \cap {r \in ToSet(c.rules) : r.svc # None})
  BY <1>1, KeptType
<1>3. CanaryBackends(c) = bs
  BY DEF CanaryBackends
<1>4. Len(rs) \in Nat
  BY <1>2, SeqIsSeq
<1> HIDE DEF rs
<1>5. bs \in Seq({bs[i] : i \in 1..Len(rs)}) /\ Len(bs) = Len(rs)
  BY <1>4
<1>6. \A i \in 1..Len(rs) : bs[i].path # <<>>
  BY RootNotEmpty DEF PathOf
<1> HIDE DEF bs
<1> QED
  BY <1>3, <1>4, <1>5, <1>6, SeqIsSeq

LEMMA CanaryRulesFit ==
  ASSUME NEW c, IsIngress(c), NEW rules, IsSeq(rules), \A rule \in ToSet(rules) : IsRule(rule)
  PROVE  /\ IsSeq(CanaryRules(c, rules))
         /\ \A rule \in ToSet(CanaryRules(c, rules)) : IsRule(rule)
<1>1. rules \in Seq(ToSet(rules)) /\ Len(rules) \in Nat
  BY DEF IsSeq
<1>2. CASE c.header
  <2> DEFINE b == CanaryBackends(c)
             h(i) == [Rule("PathPrefix", b[i].path, None,
                           <<[svc |-> b[i].svc, weight |-> c.weight]>>) EXCEPT !.header = TRUE]
             H == {h(i) : i \in 1..Len(b)}
             hs == [i \in 1..Len(b) |-> h(i)]
  <2>1. Len(b) \in Nat /\ \A i \in 1..Len(b) : b[i].path # <<>>
    BY CanaryBackendsFit
  <2>2. HeaderRules(c) = Reverse(hs)
    BY DEF HeaderRules
  <2> HIDE DEF b
  <2>3. \A i \in 1..Len(b) : IsRule(h(i))
    BY <2>1, NewRule, RuleFields
  <2>4. \A r \in H : IsRule(r)
    BY <2>3
  <2> HIDE DEF h
  <2>5. hs \in Seq(H)
    BY <2>1
  <2> HIDE DEF H, hs
  <2>6. Reverse(hs) \in Seq(H)
    BY <2>5 DEF Reverse
  <2> DEFINE R == H \cup ToSet(rules)
  <2>7. \A r \in R : IsRule(r)
    BY <2>4
  <2>8. Reverse(hs) \o rules \in Seq(R)
    <3>1. Reverse(hs) \in Seq(R) /\ rules \in Seq(R)
      BY <1>1, <2>6
    <3> HIDE DEF R
    <3> QED
      BY <3>1
  <2> HIDE DEF R
  <2>9. CanaryRules(c, rules) \in Seq(R)
    BY <1>2, <2>2, <2>8 DEF CanaryRules
  <2> QED
    BY <2>7, <2>9, SeqIsSeq
<1>3. CASE ~c.header
  <2> DEFINE w == [j \in 1..Len(rules) |-> Weighted(rules[j], c)]
             R == {Weighted(rule, c) : rule \in ToSet(rules)}
  <2>1. ASSUME NEW rule, IsRule(rule)  PROVE IsRule(Weighted(rule, c))
    <3>1. \A v : IsRule([rule EXCEPT !.backends = v])
      BY <2>1, RuleFields
    <3>2. \E v : Weighted(rule, c) = [rule EXCEPT !.backends = v] \/ Weighted(rule, c) = rule
      BY Zenon DEF Weighted
    <3> QED
      BY <2>1, <3>1, <3>2
  <2>2. \A r \in R : IsRule(r)
    BY <2>1
  <2>3. w \in Seq(R)
    BY <1>1
  <2>4. CanaryRules(c, rules) = w
    BY <1>3 DEF CanaryRules
  <2> HIDE DEF R, w
  <2> QED
    BY <2>2, <2>3, <2>4, SeqIsSeq
<1> QED
  BY <1>2, <1>3

\* The primary is one of the Ingresses.
LEMMA PrimaryType ==
  ASSUME NEW S, NEW rest \in Seq(S), NEW cs \in Seq(S), cs # <<>>
  PROVE  Primary(rest, cs) \in S
<1> DEFINE paired == Kept(rest, {p \in ToSet(rest) : HostSet(p) \cap HostSet(cs[1]) # {}})
<1>1. Primary(rest, cs) = Head(paired \o rest \o cs)
  BY DEF Primary
<1>2. paired \in Seq(S)
  <2>1. paired \in Seq(S \cap {p \in ToSet(rest) : HostSet(p) \cap HostSet(cs[1]) # {}})
    BY KeptType
  <2> HIDE DEF paired
  <2> QED
    BY <2>1
<1> HIDE DEF paired
<1>3. paired \o rest \o cs \in Seq(S) /\ Len(paired \o rest \o cs) # 0
  BY <1>2
<1>4. Head(paired \o rest \o cs) \in S
  BY <1>3
<1> QED
  BY <1>1, <1>4

-----------------------------------------------------------------------------
(* Findings: only a dual run leaves the one that it is known by. *)

LEMMA FindingIds ==
  ASSUME NEW k, NEW ing, NEW r
  PROVE  Finding(k, ing).id = k /\ QuirkFinding(k, ing, r).id = k
<1>1. Finding(k, ing) = [id |-> k, ingress |-> ing.name, host |-> "", type |-> "", path |-> <<>>]
  BY DEF Finding
<1>2. Finding(k, ing).id = k
  BY DEF Finding
<1>3. QuirkFinding(k, ing, r).id = Finding(k, ing).id
  BY <1>1 DEF QuirkFinding
<1> QED
  BY <1>2, <1>3

LEMMA QuirkIds == \A f \in QuirkFindings(ForcedHosts) : f.id # "dual-run"
<1> DEFINE F == ForcedHosts
<1>1. \A f \in HostFindings(F) : f.id # "dual-run"
  <2> SUFFICES ASSUME NEW h \in F, NEW ing
               PROVE  [Finding("quirk.host-regex", ing) EXCEPT !.host = h].id # "dual-run"
    BY DEF HostFindings
  <2> DEFINE g == Finding("quirk.host-regex", ing)
  <2>1. g = [id |-> "quirk.host-regex", ingress |-> ing.name, host |-> "", type |-> "", path |-> <<>>]
    BY DEF Finding
  <2> HIDE DEF g
  <2>2. [g EXCEPT !.host = h].id = "quirk.host-regex"
    BY <2>1
  <2> QED
    BY <2>2 DEF g
<1> HIDE DEF F
<1>2. SUFFICES ASSUME NEW f \in QuirkFindings(F) \ HostFindings(F)  PROVE f.id # "dual-run"
  BY <1>1 DEF F
<1>3. \/ f = Finding("quirk.url-normalization", ingresses[1])
      \/ \E ing \in ToSet(ingresses) : \E r \in ToSet(ing.rules) :
           f = QuirkFinding("quirk.path-as-regex", ing, r) \/ f = QuirkFinding("quirk.trailing-slash", ing, r)
  BY DEF QuirkFindings
<1> QED
  BY <1>3, FindingIds

LEMMA RouteFindingIds ==
  ASSUME NEW ing
  PROVE  \A f \in RouteFindings(ing) \cup Regexes(ing) \cup SlashFindings(ing) : f.id # "dual-run"
<1> SUFFICES ASSUME NEW f \in RouteFindings(ing) \cup Regexes(ing) \cup SlashFindings(ing)
             PROVE  f.id # "dual-run"
  OBVIOUS
<1>1. CASE f \in RouteFindings(ing)
  <2>1. \E k \in {"spec.rules", "http-only", "untranslatable"} : f = Finding(k, ing)
    BY <1>1 DEF RouteFindings
  <2> QED
    BY <2>1, FindingIds
<1>2. CASE f \in Regexes(ing)
  <2>1. \E k \in {"quirk.preserve-regex", "path.regex", "path.implementation-specific"} :
          \E r : f = QuirkFinding(k, ing, r)
    BY <1>2 DEF Regexes
  <2> QED
    BY <2>1, FindingIds
<1>3. CASE f \in SlashFindings(ing)
  <2>1. \E r : f = QuirkFinding("quirk.trailing-slash-emit", ing, r)
    BY <1>3 DEF SlashFindings
  <2> QED
    BY <2>1, FindingIds
<1> QED
  BY <1>1, <1>2, <1>3

-----------------------------------------------------------------------------
(* Names. *)

\* What an Ingress is called by in the bundle, from what these depend on.
LEMMA NamesStay ==
  ASSUME opts' = opts, Len(built') + Len(todo') = Len(built) + Len(todo)
  PROVE  /\ \A ing : GatewayName(ing)' = GatewayName(ing)
         /\ \A ing : Listeners(ing)' = Listeners(ing)
<1>1. \A ing : GatewayName(ing)' = GatewayName(ing)
  BY DEF GatewayName
<1>3. \A ing : HasAnnotatedTLS(ing)' = HasAnnotatedTLS(ing)
  BY DEF HasAnnotatedTLS
<1>4. \A ing : Listeners(ing)' = Listeners(ing)
  BY <1>3 DEF Listeners, SecretOf
<1> QED
  BY <1>1, <1>4
\* As long as there is no dual run, everything is called after its Ingress.
LEMMA LiveNames ==
  ASSUME ~IsStaged
  PROVE  \A ing :
           /\ ParentOf(ing) = [name |-> GatewayName(ing), ns |-> ing.ns] /\ TargetOf(ing) = ing.name
           /\ GatewayOf(ing) = [name |-> GatewayName(ing), ns |-> ing.ns, listeners |-> Listeners(ing)]
           /\ \A rules : RouteOf(ing, rules) =
                [name |-> ing.name, ns |-> ing.ns, source |-> ing.name, hostnames |-> CollectHostnames(ing),
                 parent |-> [name |-> GatewayName(ing), ns |-> ing.ns], rules |-> rules]
BY DEF ParentOf, TargetOf, GatewayOf, RouteOf

LEMMA LiveNamesNext ==
  ASSUME (~IsStaged)'
  PROVE  \A ing :
           /\ ParentOf(ing)' = [name |-> GatewayName(ing)', ns |-> ing.ns] /\ TargetOf(ing)' = ing.name
           /\ GatewayOf(ing)' = [name |-> GatewayName(ing)', ns |-> ing.ns, listeners |-> Listeners(ing)']
           /\ \A rules : RouteOf(ing, rules)' =
                [name |-> ing.name, ns |-> ing.ns, source |-> ing.name, hostnames |-> CollectHostnames(ing),
                 parent |-> [name |-> GatewayName(ing)', ns |-> ing.ns], rules |-> rules]
BY DEF ParentOf, TargetOf, GatewayOf, RouteOf

\* A step that builds no route and is no dual run renames nothing.
LEMMA NothingRenamed ==
  ASSUME opts' = opts, built' = built, built = <<>> \/ Len(todo') = Len(todo), built \in Seq(ToSet(built)),
         IsStaged' <=> IsStaged
  PROVE  /\ \A ing \in ToSet(built) :
              /\ ParentOf(ing)' = ParentOf(ing) /\ TargetOf(ing)' = TargetOf(ing)
              /\ GatewayOf(ing)' = GatewayOf(ing)
              /\ \A rules : RouteOf(ing, rules)' = RouteOf(ing, rules)
         /\ GatewayCount' = GatewayCount
         /\ PoliciesOfBuilt' = PoliciesOfBuilt /\ CertificatesOfBuilt' = CertificatesOfBuilt
<1>1. GatewayCount' = GatewayCount
  BY DEF GatewayCount
<1>2. CertificatesOfBuilt' = CertificatesOfBuilt
  BY DEF CertificatesOfBuilt
<1>3. ASSUME NEW ing \in ToSet(built)
      PROVE  /\ ParentOf(ing)' = ParentOf(ing) /\ TargetOf(ing)' = TargetOf(ing)
             /\ GatewayOf(ing)' = GatewayOf(ing)
             /\ \A rules : RouteOf(ing, rules)' = RouteOf(ing, rules)
  <2>1. Len(todo') = Len(todo) /\ Len(built) # 0
    BY <1>3 DEF ToSet
  <2>2. (\A i : GatewayName(i)' = GatewayName(i)) /\ (\A i : Listeners(i)' = Listeners(i))
    BY <2>1, NamesStay
  <2>3. StagingParent' = StagingParent
    BY <2>2 DEF StagingParent
  <2>4. ParentOf(ing)' = ParentOf(ing) /\ TargetOf(ing)' = TargetOf(ing)
    BY <2>2, <2>3 DEF ParentOf, TargetOf
  <2> QED
    BY <2>2, <2>4 DEF GatewayOf, RouteOf
<1>4. PoliciesOfBuilt' = PoliciesOfBuilt
  BY <1>3 DEF PoliciesOfBuilt
<1> QED
  BY <1>1, <1>2, <1>3, <1>4

LEMMA BundleKept ==
  ASSUME BundleFits, opts' = opts, built' = built, built = <<>> \/ Len(todo') = Len(todo),
         built \in Seq(ToSet(built)), IsStaged' <=> IsStaged,
         NEW fs, bundle' = [bundle EXCEPT !.findings = fs]
  PROVE  BundleFits'
<1> DEFINE b == bundle
<1>1. bundle' = [gateways |-> b.gateways, routes |-> b.routes, policies |-> b.policies,
                 certificates |-> b.certificates, findings |-> fs]
  BY DEF BundleFits
<1>2. /\ bundle'.gateways = b.gateways /\ bundle'.routes = b.routes /\ bundle'.policies = b.policies
      /\ bundle'.certificates = b.certificates
  BY <1>1
<1>3. \A i \in 1..Len(built) : built[i] \in ToSet(built)
  OBVIOUS
<1>4. GatewaysFit'
  <2>1. \A i \in 1..GatewayCount : i \in 1..Len(built)
    BY DEF GatewayCount
  <2>2. \A i \in 1..GatewayCount : GatewayOf(built[i])' = GatewayOf(built[i])
    BY <1>3, <2>1, NothingRenamed
  <2> QED
    BY <1>2, <2>2, NothingRenamed DEF BundleFits, GatewaysFit
<1>5. RoutesFit'
  <2>1. \A i \in 1..Len(built) : \A rules : RouteOf(built[i], rules)' = RouteOf(built[i], rules)
    BY <1>3, NothingRenamed
  <2> QED
    BY <1>2, <2>1 DEF BundleFits, RoutesFit
<1>6. PoliciesFit'
  BY <1>2, NothingRenamed DEF BundleFits, PoliciesFit
<1>7. bundle' = [gateways |-> bundle'.gateways, routes |-> bundle'.routes, policies |-> bundle'.policies,
                 certificates |-> bundle'.certificates, findings |-> bundle'.findings]
  BY <1>1
<1> QED
  BY <1>4, <1>5, <1>6, <1>7 DEF BundleFits
-----------------------------------------------------------------------------
(* The inductive invariant. *)

Fits == CommandFits /\ PipelineFits /\ BundleFits

LEMMA NothingBuilt ==
  ASSUME built = <<>>, bundle = NoBundle
  PROVE  BundleFits /\ ~IsStaged
<1>1. bundle = [gateways |-> <<>>, routes |-> <<>>, policies |-> <<>>, certificates |-> <<>>, findings |-> {}]
  BY DEF NoBundle
<1>2. GatewayCount = 0 /\ Len(built) = 0
  BY DEF GatewayCount
<1>3. GatewaysFit
  BY <1>1, <1>2 DEF GatewaysFit
<1>4. RoutesFit
  BY <1>1, <1>2 DEF RoutesFit
<1>5. PoliciesFit
  BY <1>1 DEF PoliciesFit
<1>6. ~IsStaged
  BY <1>1 DEF IsStaged
<1> QED
  BY <1>1, <1>3, <1>4, <1>5, <1>6 DEF BundleFits

LEMMA NothingBuiltNext ==
  ASSUME built' = <<>>, bundle' = NoBundle
  PROVE  BundleFits' /\ ~IsStaged'
<1>1. bundle' = [gateways |-> <<>>, routes |-> <<>>, policies |-> <<>>, certificates |-> <<>>, findings |-> {}]
  BY DEF NoBundle
<1>2. GatewayCount' = 0 /\ Len(built') = 0
  BY DEF GatewayCount
<1>3. GatewaysFit'
  BY <1>1, <1>2 DEF GatewaysFit
<1>4. RoutesFit'
  BY <1>1, <1>2 DEF RoutesFit
<1>5. PoliciesFit'
  BY <1>1 DEF PoliciesFit
<1>6. ~IsStaged'
  BY <1>1 DEF IsStaged
<1> QED
  BY <1>1, <1>3, <1>4, <1>5, <1>6 DEF BundleFits

LEMMA InitFits == EmissionInit => Fits
<1> SUFFICES ASSUME EmissionInit  PROVE Fits
  OBVIOUS
<1>1. BundleFits /\ ~IsStaged
  BY NothingBuilt DEF EmissionInit
<1>2. session # <<>> /\ IsSeq(session) /\ \A c \in ToSet(session) : IsCommand(c)
  BY EmissionAssumption DEF EmissionInit
<1>3. IsCommand(Head(session))
  BY <1>2 DEF IsSeq, ToSet
<1>4. CommandFits
  <2>1. IsOptions(opts)
    BY <1>3, EffectiveOptions DEF EmissionInit
  <2> QED
    BY <1>1, <1>2, <2>1 DEF EmissionInit, CommandFits
<1>5. PipelineFits
  BY <1>1 DEF EmissionInit, PipelineFits
<1> QED
  BY <1>1, <1>4, <1>5 DEF Fits

\* Between start and build, nothing is in the bundle that could change.
LEMMA CommandKept ==
  ASSUME CommandFits, UNCHANGED <<session, ingresses, opts>>, session # <<>>, stage' # "end", stage' # "done",
         documents' = <<>>, manifests' = <<>>, IsStaged' => IsDualRun
  PROVE  CommandFits'
BY DEF CommandFits, IsDualRun, Command

LEMMA BundleUntouched ==
  ASSUME BundleFits, opts' = opts, built' = built, built = <<>> \/ Len(todo') = Len(todo),
         built \in Seq(ToSet(built)), bundle' = bundle
  PROVE  BundleFits' /\ (IsStaged' <=> IsStaged)
<1>1. IsStaged' <=> IsStaged
  BY DEF IsStaged
<1>2. bundle' = [bundle EXCEPT !.findings = bundle.findings]
  BY DEF BundleFits
<1> QED
  BY <1>1, <1>2, BundleKept

LEMMA FromIngressKeeps == Fits /\ FromIngress /\ UNCHANGED sessionVars => Fits'
<1> SUFFICES ASSUME Fits, FromIngress, UNCHANGED sessionVars  PROVE Fits'
  OBVIOUS
<1> USE DEF Fits
<1>1. /\ stage = "start" /\ stage' = "build" /\ todo' = ingresses /\ built = <<>> /\ canaries = <<>> /\ ~IsStaged
      /\ UNCHANGED <<ingresses, opts, hostRegex, quirks, built, canaries, bundle, manifests>>
      /\ UNCHANGED <<session, documents, validated, cluster>>
  BY DEF FromIngress, sessionVars, PipelineFits
<1>2. ~IsStaged'
  BY <1>1 DEF IsStaged
<1>3. session # <<>> /\ documents = <<>> /\ manifests = <<>>
  BY <1>1 DEF CommandFits
<1>4. ingresses \in Seq(ToSet(ingresses)) /\ ingresses # <<>>
  BY <1>3, RunningCommand
<1>5. CommandFits'
  BY <1>1, <1>2, <1>3, CommandKept
<1>6. PipelineFits'
  BY <1>1, <1>2, <1>4 DEF PipelineFits
<1>7. BundleFits'
  <2>1. built \in Seq(ToSet(built))
    BY <1>1
  <2> QED
    BY <1>1, <2>1, BundleUntouched
<1> QED
  BY <1>5, <1>6, <1>7

LEMMA AnalyzeKeeps == Fits /\ Analyze /\ UNCHANGED sessionVars => Fits'
<1> SUFFICES ASSUME Fits, Analyze, UNCHANGED sessionVars  PROVE Fits'
  OBVIOUS
<1> USE DEF Fits
<1>1. /\ stage = "start" /\ stage' = "split" /\ opts.entry = "FromIngresses" /\ built = <<>> /\ ~IsStaged
      /\ quirks' = QuirkFindings(ForcedHosts)
      /\ UNCHANGED <<ingresses, opts, built, todo, canaries, bundle, manifests>>
      /\ UNCHANGED <<session, documents, validated, cluster>>
  BY DEF Analyze, sessionVars, PipelineFits
<1>2. ~IsStaged'
  BY <1>1 DEF IsStaged
<1>3. session # <<>> /\ documents = <<>> /\ manifests = <<>>
  BY <1>1 DEF CommandFits
<1>4. CommandFits'
  BY <1>1, <1>2, <1>3, CommandKept
<1>5. \A f \in quirks' : f.id # "dual-run"
  BY <1>1, QuirkIds
<1>6. PipelineFits'
  BY <1>1, <1>2, <1>5 DEF PipelineFits
<1>7. BundleFits'
  <2>1. built \in Seq(ToSet(built))
    BY <1>1
  <2> QED
    BY <1>1, <2>1, BundleUntouched
<1> QED
  BY <1>4, <1>6, <1>7

LEMMA SplitCanariesKeeps == Fits /\ SplitCanaries /\ UNCHANGED sessionVars => Fits'
<1> SUFFICES ASSUME Fits, SplitCanaries, UNCHANGED sessionVars  PROVE Fits'
  OBVIOUS
<1> USE DEF Fits
<1> DEFINE cs   == Kept(ingresses, {i \in ToSet(ingresses) : i.canary})
           rest == Kept(ingresses, {i \in ToSet(ingresses) : ~i.canary})
           I    == ToSet(ingresses)
<1>1. /\ stage = "split" /\ stage' = "build" /\ built = <<>> /\ ~IsStaged
      /\ UNCHANGED <<ingresses, opts, hostRegex, quirks, built, bundle, manifests>>
      /\ UNCHANGED <<session, documents, validated, cluster>>
  BY DEF SplitCanaries, sessionVars, PipelineFits
<1>2. IF cs = <<>> THEN todo' = ingresses /\ canaries' = <<>>
      ELSE todo' = <<Primary(rest, cs)>> /\ canaries' = IF rest = <<>> THEN Tail(cs) ELSE cs
  BY DEF SplitCanaries
<1>3. ~IsStaged'
  BY <1>1 DEF IsStaged
<1>4. session # <<>> /\ documents = <<>> /\ manifests = <<>>
  BY <1>1 DEF CommandFits
<1>5. ingresses \in Seq(I) /\ ingresses # <<>>
  BY <1>4, RunningCommand
<1>6. cs \in Seq(I) /\ rest \in Seq(I)
  <2>1. /\ cs \in Seq(I \cap {i \in ToSet(ingresses) : i.canary})
        /\ rest \in Seq(I \cap {i \in ToSet(ingresses) : ~i.canary})
    BY <1>5, KeptType
  <2> HIDE DEF cs, rest, I
  <2> QED
    BY <2>1
<1> HIDE DEF cs, rest, I
<1>7. todo' \in Seq(I) /\ todo' # <<>> /\ canaries' \in Seq(I)
  <2>1. cs # <<>> => Primary(rest, cs) \in I /\ Tail(cs) \in Seq(I)
    BY <1>6, PrimaryType
  <2>2. CASE cs = <<>>
    BY <1>2, <1>5, <2>2
  <2>3. CASE cs # <<>>
    <3>1. todo' = <<Primary(rest, cs)>> /\ canaries' \in {cs, Tail(cs)}
      BY <1>2, <2>3
    <3>2. <<Primary(rest, cs)>> \in Seq(I) /\ <<Primary(rest, cs)>> # <<>>
      BY <2>1, <2>3
    <3> QED
      BY <1>6, <2>1, <2>3, <3>1, <3>2
  <2> QED
    BY <2>2, <2>3
<1>8. CommandFits'
  BY <1>1, <1>3, <1>4, CommandKept
<1>9. PipelineFits'
  BY <1>1, <1>3, <1>7 DEF PipelineFits, I
<1>10. BundleFits'
  <2>1. built \in Seq(ToSet(built))
    BY <1>1
  <2> QED
    BY <1>1, <2>1, BundleUntouched
<1> QED
  BY <1>8, <1>9, <1>10
\* The first Ingress to do; the lists without it and with it.
LEMMA NextIngress ==
  ASSUME Fits, stage = "build", built' = Append(built, Head(todo)), todo' = Tail(todo)
  PROVE  /\ Head(todo) \in ToSet(ingresses) /\ IsIngress(Head(todo)) /\ IsOptions(opts)
         /\ built' \in Seq(ToSet(ingresses)) /\ todo' \in Seq(ToSet(ingresses))
         /\ Len(built') = Len(built) + 1 /\ Len(todo') = Len(todo) - 1 /\ Len(built) \in Nat
         /\ (todo' = <<>>) <=> (Len(todo) = 1)
         /\ built'[Len(built) + 1] = Head(todo)
         /\ \A i \in 1..Len(built) : built'[i] = built[i] /\ built[i] \in ToSet(built)
         /\ ToSet(built') = ToSet(built) \cup {Head(todo)}
<1> DEFINE I == ToSet(ingresses)
<1>1. built \in Seq(I) /\ todo \in Seq(I) /\ todo # <<>>
  BY DEF Fits, PipelineFits
<1>2. session # <<>>
  BY DEF Fits, CommandFits
<1>3. \A ing \in I : IsIngress(ing)
  BY <1>2, RunningCommand DEF Fits
<1> HIDE DEF I
<1>4. Head(todo) \in I /\ todo' \in Seq(I) /\ Len(todo') = Len(todo) - 1
  BY <1>1
<1>5. /\ built' \in Seq(I) /\ Len(built') = Len(built) + 1 /\ Len(built) \in Nat
      /\ built'[Len(built) + 1] = Head(todo) /\ \A i \in 1..Len(built) : built'[i] = built[i]
  BY <1>1, <1>4
<1>6. \A i \in 1..Len(built) : built[i] \in ToSet(built)
  BY <1>1 DEF ToSet
<1>7. ToSet(built') = ToSet(built) \cup {Head(todo)}
  <2>1. DOMAIN built' = DOMAIN built \cup {Len(built) + 1} /\ DOMAIN built = 1..Len(built)
    BY <1>1, <1>5
  <2> QED
    BY <1>5, <2>1 DEF ToSet
<1>8. (todo' = <<>>) <=> (Len(todo) = 1)
  BY <1>1, <1>4
<1>9. IsOptions(opts)
  BY DEF Fits, CommandFits
<1> QED
  BY <1>3, <1>4, <1>5, <1>6, <1>7, <1>8, <1>9 DEF I

LEMMA BuildRouteKeeps == Fits /\ BuildRoute /\ UNCHANGED sessionVars => Fits'
<1> SUFFICES ASSUME Fits, BuildRoute, UNCHANGED sessionVars  PROVE Fits'
  OBVIOUS
<1> DEFINE ing == Head(todo)
           gw  == [name |-> GatewayName(ing), ns |-> ing.ns]
           gws == IF EmitsGateway(ing)
                  THEN Append(bundle.gateways,
                         [name |-> gw.name, ns |-> gw.ns, listeners |-> Listeners(ing)])
                  ELSE bundle.gateways
           rs  == Append(bundle.routes,
                    [name |-> ing.name, ns |-> ing.ns, source |-> ing.name,
                     hostnames |-> CollectHostnames(ing), parent |-> gw, rules |-> RulesOf(ing)])
           ps  == bundle.policies \o PoliciesOf(ing, opts.provider)
           cs  == bundle.certificates \o (IF opts.httpOnly THEN <<>> ELSE CertificatesOf(ing))
           fs  == bundle.findings \cup RouteFindings(ing) \cup Regexes(ing) \cup SlashFindings(ing)
<1>1. /\ stage = "build" /\ todo # <<>>
      /\ bundle' = [gateways |-> gws, routes |-> rs, policies |-> ps, certificates |-> cs, findings |-> fs]
      /\ built' = Append(built, ing) /\ todo' = Tail(todo)
      /\ stage' = IF Len(todo) = 1 THEN "merge" ELSE "build"
      /\ UNCHANGED <<ingresses, opts, hostRegex, quirks, canaries, manifests>>
      /\ UNCHANGED <<session, documents, validated, cluster>>
  BY DEF BuildRoute, sessionVars
<1>2. ~IsStaged /\ \A f \in bundle.findings : f.id # "dual-run"
  BY <1>1 DEF Fits, PipelineFits, IsStaged
<1> HIDE DEF gws, rs, ps, cs, fs
<1>3. /\ bundle'.gateways = gws /\ bundle'.routes = rs /\ bundle'.policies = ps
      /\ bundle'.certificates = cs /\ bundle'.findings = fs
  BY <1>1
<1>4. ~IsStaged' /\ (~IsStaged)'
  BY <1>2, <1>3, RouteFindingIds DEF IsStaged, fs
<1>5. /\ ing \in ToSet(ingresses) /\ IsIngress(ing) /\ IsOptions(opts)
      /\ built' \in Seq(ToSet(ingresses)) /\ todo' \in Seq(ToSet(ingresses))
      /\ Len(built') = Len(built) + 1 /\ Len(todo') = Len(todo) - 1 /\ Len(built) \in Nat
      /\ (todo' = <<>>) <=> (Len(todo) = 1)
      /\ built'[Len(built) + 1] = ing
      /\ \A i \in 1..Len(built) : built'[i] = built[i] /\ built[i] \in ToSet(built)
      /\ ToSet(built') = ToSet(built) \cup {ing}
  BY <1>1, NextIngress
<1>6. Len(todo) \in Nat
  BY DEF Fits, PipelineFits
<1>7. (\A i : GatewayName(i)' = GatewayName(i)) /\ (\A i : Listeners(i)' = Listeners(i))
  BY <1>1, <1>5, <1>6, NamesStay
<1>8. CommandFits'
  <2>1. session # <<>> /\ documents = <<>> /\ manifests = <<>>
    BY <1>1 DEF Fits, CommandFits
  <2> QED
    BY <1>1, <1>4, <2>1, CommandKept DEF Fits
<1>9. PipelineFits'
  <2>1. built' # <<>>
    BY <1>5
  <2> QED
    BY <1>1, <1>4, <1>5, <2>1 DEF Fits, PipelineFits
<1> HIDE DEF ing
<1>10. /\ \A i : GatewayOf(i) = [name |-> GatewayName(i), ns |-> i.ns, listeners |-> Listeners(i)]
       /\ \A i : GatewayOf(i)' = GatewayOf(i) /\ TargetOf(i)' = i.name
       /\ \A i, rules : RouteOf(i, rules)' = RouteOf(i, rules)
       /\ \A i, rules : RouteOf(i, rules) =
             [name |-> i.name, ns |-> i.ns, source |-> i.name, hostnames |-> CollectHostnames(i),
              parent |-> [name |-> GatewayName(i), ns |-> i.ns], rules |-> rules]
  <2>1. \A i :
          /\ GatewayOf(i) = [name |-> GatewayName(i), ns |-> i.ns, listeners |-> Listeners(i)]
          /\ \A rules : RouteOf(i, rules) =
               [name |-> i.name, ns |-> i.ns, source |-> i.name, hostnames |-> CollectHostnames(i),
                parent |-> [name |-> GatewayName(i), ns |-> i.ns], rules |-> rules]
    BY <1>2, LiveNames
  <2>2. \A i :
          /\ GatewayOf(i)' = [name |-> GatewayName(i), ns |-> i.ns, listeners |-> Listeners(i)]
          /\ TargetOf(i)' = i.name
          /\ \A rules : RouteOf(i, rules)' =
               [name |-> i.name, ns |-> i.ns, source |-> i.name, hostnames |-> CollectHostnames(i),
                parent |-> [name |-> GatewayName(i), ns |-> i.ns], rules |-> rules]
    BY <1>4, <1>7, LiveNamesNext
  <2> QED
    BY <2>1, <2>2
<1>11. GatewaysFit'
  <2>1. bundle.gateways = [i \in 1..GatewayCount |-> GatewayOf(built[i])]
    BY DEF Fits, BundleFits, GatewaysFit
  <2>2. CASE EmitsGateway(ing)
    <3>1. GatewayCount' = GatewayCount + 1 /\ GatewayCount = Len(built)
      BY <1>1, <1>5, <2>2 DEF GatewayCount, EmitsGateway, IsOptions
    <3>2. gws = Append(bundle.gateways, GatewayOf(ing))
      BY <1>10, <2>2 DEF gws
    <3>3. gws = [i \in 1..Len(built) + 1 |-> GatewayOf(built'[i])]
      BY <1>5, <2>1, <3>1, <3>2
    <3> QED
      BY <1>3, <1>10, <3>1, <3>3 DEF GatewaysFit
  <2>3. CASE ~EmitsGateway(ing)
    <3>1. GatewayCount' = GatewayCount /\ GatewayCount <= Len(built) /\ GatewayCount \in Nat
      <4>1. opts' = opts /\ built' # <<>> /\ (built # <<>> => Len(built) >= 1)
        BY <1>1, <1>5 DEF Fits, PipelineFits
      <4>2. ~opts.includeGateway \/ (opts.includeGateway /\ built # <<>> /\ opts.entry = "FromIngresses")
        BY <1>5, <2>3 DEF EmitsGateway, IsOptions
      <4> QED
        BY <1>5, <4>1, <4>2 DEF GatewayCount
    <3>2. gws = [i \in 1..GatewayCount |-> GatewayOf(built'[i])]
      BY <1>5, <2>1, <2>3, <3>1 DEF gws
    <3> QED
      BY <1>3, <1>10, <3>1, <3>2 DEF GatewaysFit
  <2> QED
    BY <2>2, <2>3
<1>12. RoutesFit'
  <2>1. /\ bundle.routes = [i \in 1..Len(built) |-> RouteOf(built[i], bundle.routes[i].rules)]
        /\ \A i \in 1..Len(built) :
             /\ IsSeq(bundle.routes[i].rules)
             /\ \A rule \in ToSet(bundle.routes[i].rules) : IsRule(rule)
    BY DEF Fits, BundleFits, RoutesFit
  <2>2. rs = Append(bundle.routes, RouteOf(ing, RulesOf(ing)))
    BY <1>10 DEF rs
  <2>3. IsSeq(RulesOf(ing)) /\ \A rule \in ToSet(RulesOf(ing)) : IsRule(rule)
    BY <1>5, RulesOfFit
  <2>4. Len(bundle.routes) = Len(built) /\ DOMAIN bundle.routes = 1..Len(built)
    BY <1>5, <2>1
  <2>5. /\ rs = [i \in 1..Len(built) + 1 |-> rs[i]]
        /\ \A i \in 1..Len(built) : rs[i] = bundle.routes[i]
        /\ rs[Len(built) + 1] = RouteOf(ing, RulesOf(ing))
    BY <1>5, <2>1, <2>2, <2>4
  <2>6. RouteOf(ing, RulesOf(ing)).rules = RulesOf(ing)
    BY <1>10
  <2>7. ASSUME NEW i \in 1..Len(built) + 1
        PROVE  /\ rs[i] = RouteOf(built'[i], rs[i].rules) /\ IsSeq(rs[i].rules)
               /\ \A rule \in ToSet(rs[i].rules) : IsRule(rule)
    <3>1. CASE i = Len(built) + 1
      BY <1>5, <2>3, <2>5, <2>6, <3>1
    <3>2. CASE i # Len(built) + 1
      <4>1. i \in 1..Len(built)
        BY <1>5, <3>2
      <4>2. bundle.routes[i] = RouteOf(built[i], bundle.routes[i].rules)
        BY <2>1, <4>1
      <4> QED
        BY <1>5, <2>1, <2>5, <4>1, <4>2
    <3> QED
      BY <3>1, <3>2
  <2>8. rs = [i \in 1..Len(built) + 1 |-> RouteOf(built'[i], rs[i].rules)]
    BY <2>5, <2>7
  <2> QED
    BY <1>3, <1>5, <1>10, <2>7, <2>8 DEF RoutesFit
<1>13. PoliciesFit'
  <2>1. ps \in Seq(PoliciesOfBuilt')
    <3> DEFINE P(i) == {PolicyOf(i, k, opts.provider) : k \in ToSet(PolicyKeys) \cap i.annotations}
    <3>1. \A i, k : [PolicyOf(i, k, opts.provider) EXCEPT !.target = i.name] = PolicyOf(i, k, opts.provider)
      BY PolicyTarget
    <3> DEFINE Q(i, t) == {[PolicyOf(i, k, opts.provider) EXCEPT !.target = t] :
                             k \in ToSet(PolicyKeys) \cap i.annotations}
    <3>0. \A i : Q(i, i.name) = P(i)
      BY <3>1
    <3>2. PoliciesOfBuilt = UNION {P(i) : i \in ToSet(built)}
      <4>1. PoliciesOfBuilt = UNION {Q(i, TargetOf(i)) : i \in ToSet(built)}
        BY DEF PoliciesOfBuilt
      <4>2. \A i : TargetOf(i) = i.name
        BY <1>2, LiveNames
      <4> HIDE DEF P, Q
      <4> QED
        BY <3>0, <4>1, <4>2
    <3>3. PoliciesOfBuilt' = UNION {P(i) : i \in ToSet(built')}
      <4>1. PoliciesOfBuilt' = UNION {Q(i, TargetOf(i)') : i \in ToSet(built')}
        BY <1>1 DEF PoliciesOfBuilt
      <4> HIDE DEF P, Q
      <4> QED
        BY <1>10, <3>0, <4>1
    <3>4. PoliciesOf(ing, opts.provider) \in Seq(P(ing))
      BY PoliciesOfType
    <3> HIDE DEF P
    <3>5. PoliciesOfBuilt \subseteq PoliciesOfBuilt' /\ P(ing) \subseteq PoliciesOfBuilt'
      BY <1>5, <3>2, <3>3
    <3>6. bundle.policies \in Seq(PoliciesOfBuilt)
      BY DEF Fits, BundleFits, PoliciesFit
    <3> QED
      BY <3>4, <3>5, <3>6 DEF ps
  <2>2. cs \in Seq(CertificatesOfBuilt')
    <3>1. CertificatesOf(ing) \in Seq(ToSet(CertificatesOf(ing)))
      BY CertificatesOfType
    <3>2. CertificatesOfBuilt' = UNION {ToSet(CertificatesOf(i)) : i \in ToSet(built')}
      BY DEF CertificatesOfBuilt
    <3>3. CertificatesOfBuilt \subseteq CertificatesOfBuilt' /\ ToSet(CertificatesOf(ing)) \subseteq CertificatesOfBuilt'
      BY <1>5, <3>2 DEF CertificatesOfBuilt
    <3>4. bundle.certificates \in Seq(CertificatesOfBuilt)
      BY DEF Fits, BundleFits, PoliciesFit
    <3>5. <<>> \in Seq(CertificatesOfBuilt') /\ CertificatesOf(ing) \in Seq(CertificatesOfBuilt')
      BY <3>1, <3>3
    <3> QED
      BY <3>3, <3>4, <3>5 DEF cs
  <2> QED
    BY <1>3, <2>1, <2>2 DEF PoliciesFit
<1> QED
  BY <1>1, <1>3, <1>8, <1>9, <1>11, <1>12, <1>13 DEF Fits, BundleFits
LEMMA RouteRules ==
  ASSUME NEW ing, NEW rules, NEW v
  PROVE  [RouteOf(ing, rules) EXCEPT !.rules = v] = RouteOf(ing, v) /\ RouteOf(ing, v).rules = v
<1> DEFINE n == IF IsStaged THEN ShadowRouteName(ing.name) ELSE ing.name
           r(u) == [name |-> n, ns |-> ing.ns, source |-> ing.name, hostnames |-> CollectHostnames(ing),
                    parent |-> ParentOf(ing), rules |-> u]
<1>1. \A u : RouteOf(ing, u) = r(u)
  BY DEF RouteOf
<1> HIDE DEF n
<1>2. r(v).rules = v
  OBVIOUS
<1>3. [r(rules) EXCEPT !.rules = v] = r(v)
  OBVIOUS
<1> HIDE DEF r
<1> QED
  BY <1>1, <1>2, <1>3

LEMMA ApplyCanaryKeeps == Fits /\ ApplyCanary /\ UNCHANGED sessionVars => Fits'
<1> SUFFICES ASSUME Fits, ApplyCanary, UNCHANGED sessionVars  PROVE Fits'
  OBVIOUS
<1> DEFINE c  == Head(canaries)
           b  == bundle
           v  == CanaryRules(c, b.routes[1].rules)
           rs == [b.routes EXCEPT ![1].rules = v]
           fs == b.findings \cup {Finding("canary.merge", built[1])}
<1>1. /\ stage = "merge" /\ canaries # <<>> /\ canaries' = Tail(canaries)
      /\ bundle' = [b EXCEPT !.routes = rs, !.findings = fs]
      /\ UNCHANGED <<ingresses, opts, stage, hostRegex, quirks, built, todo, manifests>>
      /\ UNCHANGED <<session, documents, validated, cluster>>
  <2>1. bundle' = [b EXCEPT !.routes[1].rules = v, !.findings = @ \cup {Finding("canary.merge", built[1])}]
    BY DEF ApplyCanary, CanaryRules
  <2>2. [b EXCEPT !.routes[1].rules = v, !.findings = @ \cup {Finding("canary.merge", built[1])}]
          = [b EXCEPT !.routes = rs, !.findings = fs]
    BY DEF Fits, BundleFits
  <2> QED
    BY <2>1, <2>2 DEF ApplyCanary, sessionVars
<1>2. b = [gateways |-> b.gateways, routes |-> b.routes, policies |-> b.policies,
           certificates |-> b.certificates, findings |-> b.findings]
  BY DEF Fits, BundleFits
<1> HIDE DEF rs, fs
<1>3. bundle' = [gateways |-> b.gateways, routes |-> rs, policies |-> b.policies,
                 certificates |-> b.certificates, findings |-> fs]
  BY <1>1, <1>2
<1>4. /\ bundle'.gateways = b.gateways /\ bundle'.routes = rs /\ bundle'.policies = b.policies
      /\ bundle'.certificates = b.certificates /\ bundle'.findings = fs
  BY <1>3
<1>5. ~IsStaged /\ ~IsStaged'
  <2>1. ~IsStaged
    BY <1>1 DEF Fits, PipelineFits
  <2>2. \A f \in fs : f.id # "dual-run"
    BY <2>1, FindingIds DEF fs, IsStaged
  <2> QED
    BY <1>4, <2>1, <2>2 DEF IsStaged
<1>6. session # <<>> /\ documents = <<>> /\ manifests = <<>>
  BY <1>1 DEF Fits, CommandFits
<1>7. canaries \in Seq(ToSet(ingresses)) /\ built \in Seq(ToSet(ingresses)) /\ built # <<>> /\ todo = <<>>
  BY <1>1 DEF Fits, PipelineFits
<1>8. c \in ToSet(ingresses) /\ Tail(canaries) \in Seq(ToSet(ingresses)) /\ IsIngress(c)
  <2> DEFINE I == ToSet(ingresses)
  <2>1. \A ing \in I : IsIngress(ing)
    BY <1>6, RunningCommand DEF Fits
  <2> HIDE DEF I
  <2>2. canaries \in Seq(I) /\ canaries # <<>>
    BY <1>1, <1>7 DEF I
  <2>3. Head(canaries) \in I /\ Tail(canaries) \in Seq(I)
    BY <2>2
  <2> QED
    BY <2>1, <2>3 DEF I
<1>9. built \in Seq(ToSet(built)) /\ Len(built) \in Nat /\ Len(built) >= 1
      /\ \A i \in 1..Len(built) : built[i] \in ToSet(built)
  BY <1>7, SeqIsSeq DEF IsSeq, ToSet
<1>10. CommandFits'
  BY <1>1, <1>5, <1>6, CommandKept DEF Fits
<1>11. PipelineFits'
  BY <1>1, <1>5, <1>7, <1>8 DEF Fits, PipelineFits
<1>12. /\ GatewayCount' = GatewayCount /\ PoliciesOfBuilt' = PoliciesOfBuilt
       /\ CertificatesOfBuilt' = CertificatesOfBuilt
       /\ \A ing \in ToSet(built) :
            GatewayOf(ing)' = GatewayOf(ing) /\ \A u : RouteOf(ing, u)' = RouteOf(ing, u)
  BY <1>1, <1>5, <1>9, NothingRenamed
<1>13. GatewaysFit'
  <2>1. \A i \in 1..GatewayCount : i \in 1..Len(built)
    BY <1>9 DEF GatewayCount
  <2> QED
    BY <1>1, <1>4, <1>9, <1>12, <2>1 DEF Fits, BundleFits, GatewaysFit
<1>14. PoliciesFit'
  BY <1>4, <1>12 DEF Fits, BundleFits, PoliciesFit
<1>15. RoutesFit'
  <2>1. /\ b.routes = [i \in 1..Len(built) |-> RouteOf(built[i], b.routes[i].rules)]
        /\ \A i \in 1..Len(built) :
             /\ IsSeq(b.routes[i].rules)
             /\ \A rule \in ToSet(b.routes[i].rules) : IsRule(rule)
    BY DEF Fits, BundleFits, RoutesFit
  <2>2. IsSeq(v) /\ \A rule \in ToSet(v) : IsRule(rule)
    BY <1>8, <1>9, <2>1, CanaryRulesFit
  <2> HIDE DEF v
  <2>3. /\ rs = [i \in 1..Len(built) |-> rs[i]]
        /\ rs[1] = [b.routes[1] EXCEPT !.rules = v]
        /\ \A i \in 1..Len(built) : i # 1 => rs[i] = b.routes[i]
    <3>1. b.routes = [i \in 1..Len(built) |-> b.routes[i]] /\ 1 \in 1..Len(built)
      BY <1>9, <2>1
    <3> HIDE DEF b
    <3> QED
      BY <3>1 DEF rs
  <2>4. rs[1] = RouteOf(built[1], v) /\ rs[1].rules = v
    <3>1. b.routes[1] = RouteOf(built[1], b.routes[1].rules)
      BY <1>9, <2>1
    <3>2. /\ [RouteOf(built[1], b.routes[1].rules) EXCEPT !.rules = v] = RouteOf(built[1], v)
          /\ RouteOf(built[1], v).rules = v
      BY RouteRules
    <3> QED
      BY <2>3, <3>1, <3>2
  <2>5. ASSUME NEW i \in 1..Len(built)
        PROVE  /\ rs[i] = RouteOf(built[i], rs[i].rules) /\ IsSeq(rs[i].rules)
               /\ \A rule \in ToSet(rs[i].rules) : IsRule(rule)
    <3>1. CASE i = 1
      BY <2>2, <2>4, <3>1
    <3>2. CASE i # 1
      <4>1. b.routes[i] = RouteOf(built[i], b.routes[i].rules)
        BY <2>1
      <4> QED
        BY <2>1, <2>3, <3>2, <4>1
    <3> QED
      BY <3>1, <3>2
  <2>6. rs = [i \in 1..Len(built) |-> RouteOf(built[i], rs[i].rules)]
    BY <2>3, <2>5
  <2> QED
    BY <1>1, <1>4, <1>9, <1>12, <2>5, <2>6 DEF RoutesFit
<1> QED
  BY <1>3, <1>4, <1>10, <1>11, <1>13, <1>14, <1>15 DEF Fits, BundleFits

LEMMA FinalizeIRKeeps == Fits /\ FinalizeIR /\ UNCHANGED sessionVars => Fits'
<1> SUFFICES ASSUME Fits, FinalizeIR, UNCHANGED sessionVars  PROVE Fits'
  OBVIOUS
<1> DEFINE fs == bundle.findings \cup quirks
<1>1. /\ stage = "merge" /\ canaries = <<>> /\ stage' = "emit"
      /\ bundle' = [bundle EXCEPT !.findings = fs]
      /\ UNCHANGED <<ingresses, opts, hostRegex, quirks, built, todo, canaries, manifests>>
      /\ UNCHANGED <<session, documents, validated, cluster>>
  BY DEF FinalizeIR, sessionVars
<1>2. bundle'.findings = fs
  BY <1>1 DEF Fits, BundleFits
<1>3. ~IsStaged /\ ~IsStaged'
  <2>1. ~IsStaged
    BY <1>1 DEF Fits, PipelineFits
  <2> QED
    BY <1>2, <2>1 DEF IsStaged, Fits, PipelineFits
<1>4. session # <<>> /\ documents = <<>> /\ manifests = <<>>
  BY <1>1 DEF Fits, CommandFits
<1>5. built \in Seq(ToSet(built))
  BY SeqIsSeq DEF Fits, PipelineFits, IsSeq
<1>6. CommandFits'
  BY <1>1, <1>3, <1>4, CommandKept DEF Fits
<1>7. PipelineFits'
  BY <1>1, <1>3 DEF Fits, PipelineFits
<1>8. BundleFits'
  BY <1>1, <1>3, <1>5, BundleKept DEF Fits
<1> QED
  BY <1>6, <1>7, <1>8 DEF Fits
LEMMA EndCommandKeeps == Fits /\ session # <<>> /\ EndCommand => Fits'
<1> SUFFICES ASSUME Fits, session # <<>>, EndCommand  PROVE Fits'
  OBVIOUS
<1> DEFINE rest == Tail(session)
<1>1. /\ session' = rest
      /\ ingresses' = IF rest = <<>> THEN <<>> ELSE Head(rest).ingresses
      /\ opts' = IF rest = <<>> THEN opts ELSE Effective(Head(rest))
      /\ stage' = IF rest = <<>> THEN "end" ELSE "start"
      /\ quirks' = {} /\ built' = <<>> /\ todo' = <<>> /\ canaries' = <<>>
      /\ bundle' = NoBundle /\ manifests' = <<>> /\ documents' = <<>>
  BY DEF EndCommand
<1>2. BundleFits' /\ ~IsStaged'
  BY <1>1, NothingBuiltNext
<1>3. rest \in Seq(ToSet(session)) /\ IsOptions(opts) /\ \A c \in ToSet(session) : IsCommand(c)
  BY RunningCommand DEF Fits, CommandFits
<1> HIDE DEF rest
<1>4. IsSeq(rest) /\ ToSet(rest) \subseteq ToSet(session)
  BY <1>3, SeqIsSeq
<1>5. rest # <<>> => Head(rest) \in ToSet(session)
  BY <1>3
<1>6. IsOptions(opts')
  BY <1>1, <1>3, <1>5, EffectiveOptions
<1>7. CommandFits'
  <2>1. /\ IsSeq(session') /\ \A c \in ToSet(session') : IsCommand(c)
        /\ session' # <<>> => ingresses' = Head(session').ingresses /\ opts' = Effective(Head(session'))
        /\ session' = <<>> => stage' = "end" /\ ingresses' = <<>>
        /\ session' # <<>> => stage' # "end"
        /\ stage' # "done" /\ documents' = <<>> /\ manifests' = <<>>
    BY <1>1, <1>3, <1>4
  <2> QED
    BY <1>2, <1>6, <2>1 DEF CommandFits
<1>8. PipelineFits'
  BY <1>1, <1>2 DEF PipelineFits
<1> QED
  BY <1>2, <1>7, <1>8 DEF Fits

LEMMA ValidateKeeps == Fits /\ Validate => Fits'
BY EndCommandKeeps DEF Validate, Fits, CommandFits

LEMMA KubectlApplyKeeps == Fits /\ KubectlApply => Fits'
BY EndCommandKeeps DEF KubectlApply, Fits, CommandFits

LEMMA EmitKeeps == Fits /\ Emit => Fits'
<1> SUFFICES ASSUME Fits, Emit  PROVE Fits'
  OBVIOUS
<1>1. /\ stage = "emit" /\ stage' = "done" /\ (IsDualRun => IsStaged)
      /\ documents' = Documents /\ manifests' = EmittedRoutes
      /\ UNCHANGED <<ingresses, opts, hostRegex, quirks, built, todo, canaries, bundle, session, cluster>>
  BY DEF Emit, EmitYAML
<1>2. Documents' = Documents /\ EmittedRoutes' = EmittedRoutes
  BY <1>1 DEF Documents, EmittedPolicies, EmittedRoutes
<1>3. built \in Seq(ToSet(built))
  BY SeqIsSeq DEF Fits, PipelineFits, IsSeq
<1>4. BundleFits' /\ (IsStaged' <=> IsStaged)
  BY <1>1, <1>3, BundleUntouched DEF Fits
<1>5. CommandFits'
  <2>1. IsDualRun' <=> IsDualRun
    BY <1>1 DEF IsDualRun, Command
  <2> QED
    BY <1>1, <1>2, <1>4, <2>1 DEF Fits, CommandFits
<1>6. PipelineFits'
  BY <1>1 DEF Fits, PipelineFits
<1> QED
  BY <1>4, <1>5, <1>6 DEF Fits

LEMMA StutterKeeps == Fits /\ UNCHANGED emissionVars => Fits'
<1> SUFFICES ASSUME Fits, UNCHANGED emissionVars  PROVE Fits'
  OBVIOUS
<1>1. /\ UNCHANGED <<ingresses, opts, stage, hostRegex, quirks, built, todo, canaries, bundle, manifests>>
      /\ UNCHANGED <<session, documents, cluster>>
  BY DEF emissionVars, vars, sessionVars
<1>2. Documents' = Documents /\ EmittedRoutes' = EmittedRoutes
  BY <1>1 DEF Documents, EmittedPolicies, EmittedRoutes
<1>3. built \in Seq(ToSet(built))
  BY SeqIsSeq DEF Fits, PipelineFits, IsSeq
<1>4. BundleFits' /\ (IsStaged' <=> IsStaged)
  BY <1>1, <1>3, BundleUntouched DEF Fits
<1>5. CommandFits'
  <2>1. IsDualRun' <=> IsDualRun
    BY <1>1 DEF IsDualRun, Command
  <2> QED
    BY <1>1, <1>2, <1>4, <2>1 DEF Fits, CommandFits
<1>6. PipelineFits'
  BY <1>1, <1>4 DEF Fits, PipelineFits
<1> QED
  BY <1>4, <1>5, <1>6 DEF Fits
\* The Gateway a dual run leaves is the one that its routes ask for.
LEMMA StagingNameOfBundle ==
  ASSUME Fits, ~IsStaged, built # <<>>, opts.entry = "FromIngresses"
  PROVE  /\ StagingName(bundle) = StagingParent
         /\ opts.includeGateway =>
              /\ bundle.gateways = [i \in 1..1 |-> GatewayOf(built[1])]
              /\ opts.gatewayName = <<>> => StagingGatewayName(GatewayOf(built[1]).name) = StagingParent
         /\ ~opts.includeGateway => bundle.gateways = <<>>
<1>1. GatewayOf(built[1]).name = GatewayName(built[1])
  BY LiveNames
<1>2. opts.includeGateway \in BOOLEAN
  BY DEF Fits, CommandFits, IsOptions
<1>3. bundle.gateways = [i \in 1..GatewayCount |-> GatewayOf(built[i])]
  BY DEF Fits, BundleFits, GatewaysFit
<1>4. CASE opts.includeGateway
  <2>1. GatewayCount = 1
    BY <1>4 DEF GatewayCount
  <2>2. bundle.gateways = [i \in 1..1 |-> GatewayOf(built[1])]
    BY <1>3, <2>1
  <2>3. bundle.gateways # <<>> /\ bundle.gateways[1].name = GatewayName(built[1])
    BY <1>1, <2>2
  <2> QED
    BY <1>1, <1>4, <2>2, <2>3 DEF StagingName, StagingParent
<1>5. CASE ~opts.includeGateway
  <2>1. GatewayCount = 0
    BY <1>5 DEF GatewayCount
  <2>2. bundle.gateways = <<>>
    BY <1>3, <2>1
  <2> QED
    BY <1>5, <2>2 DEF StagingName, StagingParent
<1> QED
  BY <1>2, <1>4, <1>5

\* After a dual run, everything is called after the staging Gateway and the shadow.
LEMMA StagedNamesNext ==
  ASSUME IsStaged', opts' = opts, built' = built, todo' = todo
  PROVE  /\ GatewayCount' = GatewayCount /\ CertificatesOfBuilt' = CertificatesOfBuilt
         /\ \A ing :
              /\ TargetOf(ing)' = Retargeted(ing.name, StagingParent)
              /\ GatewayOf(ing)' = [name |-> StagingParent, ns |-> ing.ns, listeners |-> Listeners(ing)]
              /\ \A rules : RouteOf(ing, rules)' =
                   [name |-> ShadowRouteName(ing.name), ns |-> ing.ns, source |-> ing.name,
                    hostnames |-> CollectHostnames(ing),
                    parent |-> [name |-> StagingParent, ns |-> ing.ns], rules |-> rules]
<1>1. (\A i : GatewayName(i)' = GatewayName(i)) /\ (\A i : Listeners(i)' = Listeners(i))
  BY NamesStay
<1>2. StagingParent' = StagingParent
  BY <1>1 DEF StagingParent
<1>3. GatewayCount' = GatewayCount /\ CertificatesOfBuilt' = CertificatesOfBuilt
  BY DEF GatewayCount, CertificatesOfBuilt
<1>4. \A ing : ParentOf(ing)' = [name |-> StagingParent, ns |-> ing.ns]
                /\ TargetOf(ing)' = Retargeted(ing.name, StagingParent)
  BY <1>2 DEF ParentOf, TargetOf
<1> QED
  BY <1>1, <1>3, <1>4 DEF GatewayOf, RouteOf

LEMMA StagedRouteFields ==
  ASSUME NEW name, NEW ns, NEW source, NEW hostnames, NEW gateway, NEW rules, NEW staging, NEW r,
         r = [name |-> name, ns |-> ns, source |-> source, hostnames |-> hostnames,
              parent |-> [name |-> gateway, ns |-> ns], rules |-> rules]
  PROVE  StagedRoute(r, staging) =
           [name |-> ShadowRouteName(name), ns |-> ns, source |-> source, hostnames |-> hostnames,
            parent |-> [name |-> staging, ns |-> ns], rules |-> rules]
<1> DEFINE n == ShadowRouteName(name)
           q == [r EXCEPT !.name = n]
<1>1. StagedRoute(r, staging) = [q EXCEPT !.parent.name = staging]
  BY DEF StagedRoute
<1> HIDE DEF n
<1>2. q = [name |-> n, ns |-> ns, source |-> source, hostnames |-> hostnames,
           parent |-> [name |-> gateway, ns |-> ns], rules |-> rules]
  OBVIOUS
<1> HIDE DEF q
<1>3. [q EXCEPT !.parent.name = staging] =
        [name |-> n, ns |-> ns, source |-> source, hostnames |-> hostnames,
         parent |-> [name |-> staging, ns |-> ns], rules |-> rules]
  BY <1>2
<1> QED
  BY <1>1, <1>3 DEF n

LEMMA ApplyDualRunModeKeeps == Fits /\ ApplyDualRunMode => Fits'
<1> SUFFICES ASSUME Fits, ApplyDualRunMode  PROVE Fits'
  OBVIOUS
<1> DEFINE b  == bundle
           S  == StagingName(b)
           gs == StagedGateways(b)
           rs == [i \in 1..Len(b.routes) |-> StagedRoute(b.routes[i], S)]
           ps == [i \in 1..Len(b.policies) |-> StagedPolicy(b.policies[i], S)]
           f  == [id |-> "dual-run", ingress |-> <<>>, host |-> "", type |-> "", path |-> <<>>]
           fs == b.findings \cup {f}
<1>1. b = [gateways |-> b.gateways, routes |-> b.routes, policies |-> b.policies,
           certificates |-> b.certificates, findings |-> b.findings]
  BY DEF Fits, BundleFits
<1>2. /\ stage = "emit" /\ IsDualRun /\ ~IsStaged /\ bundle' = Staged(bundle)
      /\ UNCHANGED <<ingresses, opts, stage, hostRegex, quirks, built, todo, canaries, manifests>>
      /\ UNCHANGED <<session, documents, validated, cluster>>
  BY DEF ApplyDualRunMode, sessionVars
<1>3. Staged(b) = [gateways |-> gs, routes |-> rs, policies |-> ps, certificates |-> b.certificates, findings |-> fs]
  BY DEF Staged
<1> HIDE DEF gs, rs, ps, fs, S
<1>4. /\ bundle' = [gateways |-> gs, routes |-> rs, policies |-> ps, certificates |-> b.certificates, findings |-> fs]
      /\ bundle'.gateways = gs /\ bundle'.routes = rs /\ bundle'.policies = ps
      /\ bundle'.certificates = b.certificates /\ bundle'.findings = fs
  BY <1>2, <1>3
<1>5. IsStaged'
  <2>1. f \in fs /\ f.id = "dual-run"
    BY DEF fs
  <2> HIDE DEF f
  <2>2. \E x \in bundle'.findings : x.id = "dual-run"
    BY <1>4, <2>1
  <2> QED
    BY <2>2 DEF IsStaged
<1>6. session # <<>> /\ documents = <<>> /\ manifests = <<>>
  BY <1>2 DEF Fits, CommandFits
<1>7. opts.entry = "FromIngresses" /\ built # <<>> /\ built \in Seq(ToSet(ingresses))
  BY <1>2, <1>6, RunningCommand DEF Fits, PipelineFits
<1>8. Len(built) \in Nat /\ Len(built) >= 1 /\ \A i \in 1..Len(built) : built[i] \in ToSet(built)
  BY <1>7 DEF ToSet
<1>9. /\ S = StagingParent
      /\ opts.includeGateway =>
           /\ b.gateways = [i \in 1..1 |-> GatewayOf(built[1])]
           /\ opts.gatewayName = <<>> => StagingGatewayName(GatewayOf(built[1]).name) = StagingParent
      /\ ~opts.includeGateway => b.gateways = <<>>
  BY <1>2, <1>7, StagingNameOfBundle DEF S
<1>10. /\ GatewayCount' = GatewayCount /\ CertificatesOfBuilt' = CertificatesOfBuilt
       /\ \A ing :
            /\ TargetOf(ing)' = Retargeted(ing.name, StagingParent)
            /\ GatewayOf(ing)' = [name |-> StagingParent, ns |-> ing.ns, listeners |-> Listeners(ing)]
            /\ \A rules : RouteOf(ing, rules)' =
                 [name |-> ShadowRouteName(ing.name), ns |-> ing.ns, source |-> ing.name,
                  hostnames |-> CollectHostnames(ing),
                  parent |-> [name |-> StagingParent, ns |-> ing.ns], rules |-> rules]
  BY <1>2, <1>5, StagedNamesNext
<1>11. \A ing :
          /\ GatewayOf(ing) = [name |-> GatewayName(ing), ns |-> ing.ns, listeners |-> Listeners(ing)]
          /\ TargetOf(ing) = ing.name
          /\ \A rules : RouteOf(ing, rules) =
               [name |-> ing.name, ns |-> ing.ns, source |-> ing.name, hostnames |-> CollectHostnames(ing),
                parent |-> [name |-> GatewayName(ing), ns |-> ing.ns], rules |-> rules]
  BY <1>2, LiveNames
<1>12. CommandFits'
  <2>1. IsDualRun' <=> IsDualRun
    BY <1>2 DEF IsDualRun, Command
  <2> QED
    BY <1>2, <1>6, <2>1 DEF Fits, CommandFits
<1>13. PipelineFits'
  BY <1>2 DEF Fits, PipelineFits
<1> HIDE DEF b
<1>14. GatewaysFit'
  <2> DEFINE g == GatewayOf(built[1])
             h == [name |-> StagingParent, ns |-> built[1].ns, listeners |-> Listeners(built[1])]
  <2>1. \A n : [g EXCEPT !.name = n] = [name |-> n, ns |-> built[1].ns, listeners |-> Listeners(built[1])]
    BY <1>11
  <2>2. CASE opts.includeGateway
    <3>1. GatewayCount = 1
      BY <1>7, <2>2 DEF GatewayCount
    <3>2. b.gateways = [i \in 1..1 |-> g] /\ b.gateways # <<>> /\ Len(b.gateways) = 1 /\ b.gateways[1] = g
      BY <1>9, <2>2
    <3>3. gs = [i \in 1..1 |-> h]
      <4>1. CASE opts.gatewayName = <<>>
        <5>1. gs = [i \in 1..Len(b.gateways) |-> [b.gateways[i] EXCEPT !.name = StagingGatewayName(@)]]
          BY <2>2, <4>1 DEF gs, StagedGateways
        <5>2. StagingGatewayName(g.name) = StagingParent
          BY <1>9, <2>2, <4>1
        <5> HIDE DEF g
        <5>3. [g EXCEPT !.name = StagingGatewayName(@)] = [g EXCEPT !.name = StagingParent]
          BY <5>2
        <5>4. [g EXCEPT !.name = StagingParent] = h
          BY <2>1
        <5> HIDE DEF h
        <5> QED
          BY <3>2, <5>1, <5>3, <5>4
      <4>2. CASE opts.gatewayName # <<>>
        <5>1. gs = <<[b.gateways[1] EXCEPT !.name = opts.gatewayName]>>
          BY <2>2, <3>2, <4>2 DEF gs, StagedGateways
        <5>2. opts.gatewayName = StagingParent
          BY <4>2 DEF StagingParent
        <5>3. [g EXCEPT !.name = opts.gatewayName] = h
          BY <2>1, <5>2
        <5> HIDE DEF g, h
        <5>4. gs = <<h>>
          BY <3>2, <5>1, <5>3
        <5> QED
          BY <5>4
      <4> QED
        BY <4>1, <4>2
    <3>4. GatewayOf(built[1])' = h
      BY <1>2, <1>10
    <3> HIDE DEF h
    <3>5. gs = [i \in 1..GatewayCount' |-> GatewayOf(built[i])']
      BY <1>2, <1>10, <3>1, <3>3, <3>4
    <3> QED
      BY <1>4, <3>5 DEF GatewaysFit
  <2>3. CASE ~opts.includeGateway
    <3>1. GatewayCount' = 0
      BY <1>10, <2>3 DEF GatewayCount
    <3>2. gs = <<>>
      BY <2>3 DEF gs, StagedGateways
    <3> QED
      BY <1>4, <3>1, <3>2 DEF GatewaysFit
  <2> QED
    BY <2>2, <2>3
<1>15. RoutesFit'
  <2>1. /\ b.routes = [i \in 1..Len(built) |-> RouteOf(built[i], b.routes[i].rules)]
        /\ \A i \in 1..Len(built) :
             /\ IsSeq(b.routes[i].rules)
             /\ \A rule \in ToSet(b.routes[i].rules) : IsRule(rule)
    BY DEF Fits, BundleFits, RoutesFit, b
  <2>2. Len(b.routes) = Len(built)
    BY <1>8, <2>1
  <2>3. ASSUME NEW i \in 1..Len(built)
        PROVE  /\ rs[i] = [name |-> ShadowRouteName(built[i].name), ns |-> built[i].ns, source |-> built[i].name,
                           hostnames |-> CollectHostnames(built[i]),
                           parent |-> [name |-> StagingParent, ns |-> built[i].ns], rules |-> b.routes[i].rules]
               /\ rs[i].rules = b.routes[i].rules
    <3> DEFINE ing == built[i]
               u   == b.routes[i].rules
    <3>1. b.routes[i] = [name |-> ing.name, ns |-> ing.ns, source |-> ing.name,
                         hostnames |-> CollectHostnames(ing),
                         parent |-> [name |-> GatewayName(ing), ns |-> ing.ns], rules |-> u]
      BY <1>11, <2>1
    <3>2. rs[i] = StagedRoute(b.routes[i], S)
      BY <2>2 DEF rs
    <3> HIDE DEF u, ing
    <3>3. rs[i] = [name |-> ShadowRouteName(ing.name), ns |-> ing.ns, source |-> ing.name,
                   hostnames |-> CollectHostnames(ing), parent |-> [name |-> S, ns |-> ing.ns], rules |-> u]
      <4> DEFINE r  == b.routes[i]
                 hs == CollectHostnames(ing)
                 g  == GatewayName(ing)
                 nm == ing.name
                 sp == ing.ns
      <4>1. r = [name |-> nm, ns |-> sp, source |-> nm, hostnames |-> hs,
                 parent |-> [name |-> g, ns |-> sp], rules |-> u]
        BY <3>1
      <4> HIDE DEF r, hs, g, nm, sp
      <4>2. StagedRoute(r, S) = [name |-> ShadowRouteName(nm), ns |-> sp, source |-> nm, hostnames |-> hs,
                                 parent |-> [name |-> S, ns |-> sp], rules |-> u]
        BY <4>1, StagedRouteFields
      <4> QED
        BY <3>2, <4>2 DEF r, hs, nm, sp
    <3>4. rs[i].rules = u
      BY <3>3
    <3> QED
      BY <1>9, <3>3, <3>4 DEF ing, u
  <2>4. rs = [i \in 1..Len(built) |-> rs[i]]
    BY <2>2 DEF rs
  <2>5. \A i \in 1..Len(built) : \A v : v = rs[i].rules => rs[i] = RouteOf(built[i], v)'
    BY <1>2, <1>10, <2>3
  <2>6. /\ bundle'.routes = [i \in 1..Len(built') |-> RouteOf(built[i], bundle.routes[i].rules)']
        /\ \A i \in 1..Len(built') :
             /\ IsSeq(bundle'.routes[i].rules)
             /\ \A rule \in ToSet(bundle'.routes[i].rules) : IsRule(rule)
    BY <1>2, <1>4, <2>1, <2>3, <2>4, <2>5
  <2> QED
    BY <2>6 DEF RoutesFit
<1>16. PoliciesFit'
  <2>1. b.certificates \in Seq(CertificatesOfBuilt')
    BY <1>10 DEF Fits, BundleFits, PoliciesFit, b
  <2>2. b.policies \in Seq(PoliciesOfBuilt)
    BY DEF Fits, BundleFits, PoliciesFit, b
  <2>3. ASSUME NEW p \in PoliciesOfBuilt
        PROVE  StagedPolicy(p, S) \in PoliciesOfBuilt'
    <3>0. PICK ing \in ToSet(built) : \E k \in ToSet(PolicyKeys) \cap ing.annotations :
            p = [PolicyOf(ing, k, opts.provider) EXCEPT !.target = TargetOf(ing)]
      BY DEF PoliciesOfBuilt
    <3>1. PICK k \in ToSet(PolicyKeys) \cap ing.annotations :
            p = [PolicyOf(ing, k, opts.provider) EXCEPT !.target = TargetOf(ing)]
      BY <3>0
    <3>2. p = PolicyOf(ing, k, opts.provider)
      BY <1>11, <3>1, PolicyTarget
    <3>3. p.target = ing.name
      BY <3>2 DEF PolicyOf
    <3>4. StagedPolicy(p, S) = [PolicyOf(ing, k, opts.provider) EXCEPT !.target = TargetOf(ing)']
      BY <1>9, <1>10, <3>2, <3>3 DEF StagedPolicy
    <3>5. \E i \in ToSet(built') : \E j \in ToSet(PolicyKeys) \cap i.annotations :
            StagedPolicy(p, S) = [PolicyOf(i, j, opts'.provider) EXCEPT !.target = TargetOf(i)']
      BY <1>2, <3>4
    <3> QED
      BY <3>5 DEF PoliciesOfBuilt
  <2>4. ps \in Seq(PoliciesOfBuilt')
    <3>1. \A i \in 1..Len(b.policies) : StagedPolicy(b.policies[i], S) \in PoliciesOfBuilt'
      BY <2>2, <2>3
    <3>2. Len(b.policies) \in Nat
      BY <2>2
    <3> QED
      BY <3>1, <3>2 DEF ps
  <2> QED
    BY <1>4, <2>1, <2>4 DEF PoliciesFit
<1> QED
  BY <1>4, <1>12, <1>13, <1>14, <1>15, <1>16 DEF Fits, BundleFits

LEMMA NextFits == Fits /\ [EmissionNext]_emissionVars => Fits'
BY FromIngressKeeps, AnalyzeKeeps, SplitCanariesKeeps, BuildRouteKeeps, ApplyCanaryKeeps, FinalizeIRKeeps,
   ApplyDualRunModeKeeps, EmitKeeps, ValidateKeeps, KubectlApplyKeeps, StutterKeeps
   DEF EmissionNext, Convert

-----------------------------------------------------------------------------
(* The documents of a bundle, one by one. *)

LEMMA BuiltFromIngresses ==
  ASSUME Fits
  PROVE  /\ built \in Seq(ToSet(built)) /\ Len(built) \in Nat
         /\ \A i \in 1..Len(built) : built[i] \in ToSet(built)
         /\ \A ing \in ToSet(built) : IsIngress(ing)
         /\ opts.provider \in Providers /\ opts.includeGateway \in BOOLEAN
         /\ IsSeq(opts.gatewayName) /\ opts.entry \in {"FromIngresses", "FromIngress"}
<1>1. built \in Seq(ToSet(ingresses))
  BY DEF Fits, PipelineFits
<1>2. /\ built \in Seq(ToSet(built)) /\ Len(built) \in Nat /\ ToSet(built) \subseteq ToSet(ingresses)
      /\ \A i \in 1..Len(built) : built[i] \in ToSet(built)
  BY <1>1, SeqIsSeq DEF IsSeq, ToSet
<1>3. \A ing \in ToSet(built) : IsIngress(ing)
  <2>1. CASE session # <<>>
    BY <1>2, <2>1, RunningCommand DEF Fits
  <2>2. CASE session = <<>>
    BY <1>2, <2>2 DEF Fits, CommandFits, PipelineFits, ToSet
  <2> QED
    BY <2>1, <2>2
<1>4. /\ opts.provider \in Providers /\ opts.includeGateway \in BOOLEAN
      /\ IsSeq(opts.gatewayName) /\ opts.entry \in {"FromIngresses", "FromIngress"}
  BY DEF Fits, CommandFits, IsOptions
<1> QED
  BY <1>2, <1>3, <1>4

LEMMA NodesOfBundle ==
  ASSUME Fits
  PROVE  /\ GatewayCount \in Nat /\ GatewayCount <= Len(built)
         /\ IsSeq(bundle.gateways) /\ Len(bundle.gateways) = GatewayCount
         /\ \A i \in 1..GatewayCount : bundle.gateways[i] = GatewayOf(built[i])
         /\ IsSeq(bundle.routes) /\ Len(bundle.routes) = Len(built)
         /\ \A i \in 1..Len(built) : bundle.routes[i] = RouteOf(built[i], bundle.routes[i].rules)
<1>1. Len(built) \in Nat /\ (built # <<>> => Len(built) >= 1)
  BY BuiltFromIngresses
<1>2. GatewayCount \in Nat /\ GatewayCount <= Len(built)
  BY <1>1, BuiltFromIngresses DEF GatewayCount
<1>3. /\ bundle.gateways = [i \in 1..GatewayCount |-> GatewayOf(built[i])]
      /\ bundle.routes = [i \in 1..Len(built) |-> RouteOf(built[i], bundle.routes[i].rules)]
  BY DEF Fits, BundleFits, GatewaysFit, RoutesFit
<1>4. /\ Len(bundle.gateways) = GatewayCount
      /\ \A i \in 1..GatewayCount : bundle.gateways[i] = GatewayOf(built[i])
      /\ bundle.gateways \in Seq(ToSet(bundle.gateways))
  BY <1>2, <1>3 DEF ToSet
<1>5. /\ Len(bundle.routes) = Len(built)
      /\ \A i \in 1..Len(built) : bundle.routes[i] = RouteOf(built[i], bundle.routes[i].rules)
      /\ bundle.routes \in Seq(ToSet(bundle.routes))
  <2> DEFINE rs == bundle.routes
             R(i) == RouteOf(built[i], rs[i].rules)
  <2>1. rs = [i \in 1..Len(built) |-> R(i)]
    BY <1>3
  <2> HIDE DEF R, rs
  <2>2. /\ Len(rs) = Len(built) /\ \A i \in 1..Len(built) : rs[i] = R(i)
        /\ rs \in Seq(ToSet(rs))
    BY <1>1, <2>1 DEF ToSet
  <2> QED
    BY <2>2 DEF R, rs
<1> QED
  BY <1>2, <1>4, <1>5 DEF IsSeq

\* An emitted policy: whose it is, what it is attached to, and that it says something.
LEMMA PoliciesOfBundle ==
  ASSUME Fits
  PROVE  /\ IsSeq(EmittedPolicies)
         /\ \A p \in ToSet(EmittedPolicies) :
              /\ p.crd \in PolicyKinds /\ Sanitized(p) # {}
              /\ \E ing \in ToSet(built) :
                   p.ns = ing.ns /\ p.target = TargetOf(ing) /\ IsPrefix(ing.name, p.name)
<1> DEFINE pols == IF opts.skipExtensions THEN WithoutExtensions(bundle.policies) ELSE bundle.policies
           E    == {p \in ToSet(pols) : IsEmitted(p)}
<1>1. pols \in Seq(PoliciesOfBuilt)
  BY WithoutExtensionsType DEF Fits, BundleFits, PoliciesFit
<1>2. EmittedPolicies = Kept(pols, E)
  BY DEF EmittedPolicies
<1> HIDE DEF pols, E
<1>3. EmittedPolicies \in Seq(PoliciesOfBuilt \cap E)
  BY <1>1, <1>2, KeptType
<1>4. IsSeq(EmittedPolicies) /\ ToSet(EmittedPolicies) \subseteq PoliciesOfBuilt \cap E
  BY <1>3, SeqIsSeq
<1>5. ASSUME NEW p \in ToSet(EmittedPolicies)
      PROVE  /\ p.crd \in PolicyKinds /\ Sanitized(p) # {}
             /\ \E ing \in ToSet(built) :
                  p.ns = ing.ns /\ p.target = TargetOf(ing) /\ IsPrefix(ing.name, p.name)
  <2>1. p \in PoliciesOfBuilt /\ IsEmitted(p)
    BY <1>4 DEF E
  <2>2. PICK ing \in ToSet(built) : \E k \in ToSet(PolicyKeys) \cap ing.annotations :
          p = [PolicyOf(ing, k, opts.provider) EXCEPT !.target = TargetOf(ing)]
    BY <2>1 DEF PoliciesOfBuilt
  <2>3. PICK k \in ToSet(PolicyKeys) \cap ing.annotations :
          p = [PolicyOf(ing, k, opts.provider) EXCEPT !.target = TargetOf(ing)]
    BY <2>2
  <2> DEFINE q == PolicyOf(ing, k, opts.provider)
             t == TargetOf(ing)
  <2>4. IsSeq(ing.name) /\ opts.provider \in Providers
    BY BuiltFromIngresses DEF IsIngress
  <2>5. /\ IsPrefix(ing.name, q.name) /\ q.ns = ing.ns /\ q.crd \in PolicyKinds
        /\ IsEmitted(q) => Sanitized(q) # {}
    BY <2>4, PolicyFields
  <2>6. /\ p.name = q.name /\ p.ns = q.ns /\ p.crd = q.crd /\ p.target = TargetOf(ing)
        /\ Sanitized(p) = Sanitized(q) /\ (IsEmitted(p) <=> IsEmitted(q))
    <3>1. q = [name |-> q.name, ns |-> q.ns, kind |-> q.kind, group |-> q.group, crd |-> q.crd,
               target |-> q.target, settings |-> q.settings]
      BY DEF PolicyOf
    <3> HIDE DEF t
    <3>2. p = [q EXCEPT !.target = t]
      BY <2>3 DEF t
    <3> HIDE DEF q
    <3>3. p = [name |-> q.name, ns |-> q.ns, kind |-> q.kind, group |-> q.group, crd |-> q.crd,
               target |-> t, settings |-> q.settings]
      BY <3>1, <3>2
    <3>4. /\ p.name = q.name /\ p.ns = q.ns /\ p.group = q.group /\ p.crd = q.crd /\ p.target = t
          /\ p.settings = q.settings
      BY <3>3
    <3>5. Sanitized(p) = Sanitized(q)
      BY <3>4 DEF Sanitized
    <3> QED
      BY <3>4, <3>5 DEF IsEmitted, t
  <2> QED
    BY <2>1, <2>5, <2>6
<1> QED
  BY <1>4, <1>5

LEMMA ConcatOfFour ==
  ASSUME NEW a, NEW b, NEW c, NEW d, IsSeq(a), IsSeq(b), IsSeq(c), IsSeq(d)
  PROVE  LET s == a \o b \o c \o d
         IN /\ IsSeq(s) /\ Len(s) = Len(a) + Len(b) + Len(c) + Len(d)
            /\ Len(a) \in Nat /\ Len(b) \in Nat /\ Len(c) \in Nat /\ Len(d) \in Nat
            /\ \A i \in 1..Len(a) : s[i] = a[i]
            /\ \A i \in 1..Len(b) : s[Len(a) + i] = b[i]
            /\ \A i \in 1..Len(c) : s[Len(a) + Len(b) + i] = c[i]
            /\ \A i \in 1..Len(d) : s[Len(a) + Len(b) + Len(c) + i] = d[i]
<1>0. Len(a) \in Nat /\ Len(b) \in Nat /\ Len(c) \in Nat /\ Len(d) \in Nat
  BY DEF IsSeq
<1> DEFINE ab  == a \o b
           abc == ab \o c
           s   == abc \o d
<1>1. /\ IsSeq(ab) /\ Len(ab) = Len(a) + Len(b)
      /\ \A i \in 1..Len(a) : ab[i] = a[i]
      /\ \A i \in 1..Len(b) : ab[Len(a) + i] = b[i]
  BY ConcatIsSeq
<1> HIDE DEF ab
<1>2. /\ IsSeq(abc) /\ Len(abc) = Len(ab) + Len(c)
      /\ \A i \in 1..Len(ab) : abc[i] = ab[i]
      /\ \A i \in 1..Len(c) : abc[Len(ab) + i] = c[i]
  <2>1. IsSeq(ab) /\ IsSeq(c)
    BY <1>1
  <2>2. IsSeq(abc) /\ Len(abc) = Len(ab) + Len(c)
    BY <2>1, ConcatIsSeq
  <2>3. \A i \in 1..Len(ab) : abc[i] = ab[i]
    BY <2>1, ConcatIsSeq
  <2>4. \A i \in 1..Len(c) : abc[Len(ab) + i] = c[i]
    BY <2>1, ConcatIsSeq
  <2> QED
    BY <2>2, <2>3, <2>4
<1> HIDE DEF abc
<1>4. /\ IsSeq(s) /\ Len(s) = Len(abc) + Len(d)
      /\ \A i \in 1..Len(abc) : s[i] = abc[i]
      /\ \A i \in 1..Len(d) : s[Len(abc) + i] = d[i]
  BY <1>2, ConcatIsSeq
<1> HIDE DEF s
<1>5. \A i \in 1..Len(a) : s[i] = a[i]
  BY <1>0, <1>1, <1>2, <1>4
<1>6. \A i \in 1..Len(b) : s[Len(a) + i] = b[i]
  BY <1>0, <1>1, <1>2, <1>4
<1>7. \A i \in 1..Len(c) : s[Len(a) + Len(b) + i] = c[i]
  BY <1>0, <1>1, <1>2, <1>4
<1>8. \A i \in 1..Len(d) : s[Len(a) + Len(b) + Len(c) + i] = d[i]
  BY <1>0, <1>1, <1>2, <1>4
<1>9. s = a \o b \o c \o d
  BY DEF s, abc, ab
<1>10. Len(s) = Len(a) + Len(b) + Len(c) + Len(d)
  BY <1>0, <1>1, <1>2, <1>4
<1> QED
  BY <1>0, <1>4, <1>5, <1>6, <1>7, <1>8, <1>9, <1>10

\* The documents in their order, and where each kind begins.
LEMMA DocumentsInOrder ==
  ASSUME Fits
  PROVE  LET g == Len(bundle.gateways)
             r == Len(bundle.routes)
             p == Len(EmittedPolicies)
             c == Len(bundle.certificates)
         IN /\ IsSeq(Documents) /\ Len(Documents) = g + r + p + c
            /\ g \in Nat /\ r \in Nat /\ p \in Nat /\ c \in Nat
            /\ \A i \in 1..g : Documents[i] = GatewayDocument(bundle.gateways[i])
            /\ \A i \in 1..r : Documents[g + i] = RouteDocument(bundle.routes[i])
            /\ \A i \in 1..p : Documents[g + r + i] = PolicyDocument(EmittedPolicies[i])
            /\ \A i \in 1..c : Documents[g + r + p + i] = CertificateDocument(bundle.certificates[i])
<1> DEFINE g == [i \in 1..Len(bundle.gateways) |-> GatewayDocument(bundle.gateways[i])]
           r == [i \in 1..Len(bundle.routes) |-> RouteDocument(bundle.routes[i])]
           p == [i \in 1..Len(EmittedPolicies) |-> PolicyDocument(EmittedPolicies[i])]
           c == [i \in 1..Len(bundle.certificates) |-> CertificateDocument(bundle.certificates[i])]
<1>1. Documents = g \o r \o p \o c
  BY DEF Documents
<1>2. /\ Len(bundle.gateways) \in Nat /\ Len(bundle.routes) \in Nat /\ Len(EmittedPolicies) \in Nat
      /\ Len(bundle.certificates) \in Nat
  <2>1. IsSeq(bundle.certificates)
    BY SeqIsSeq DEF Fits, BundleFits, PoliciesFit
  <2> QED
    BY <2>1, NodesOfBundle, PoliciesOfBundle DEF IsSeq
<1>3. /\ IsSeq(g) /\ Len(g) = Len(bundle.gateways)
      /\ \A i \in 1..Len(bundle.gateways) : g[i] = GatewayDocument(bundle.gateways[i])
  BY <1>2 DEF IsSeq, ToSet
<1>4. /\ IsSeq(r) /\ Len(r) = Len(bundle.routes)
      /\ \A i \in 1..Len(bundle.routes) : r[i] = RouteDocument(bundle.routes[i])
  BY <1>2 DEF IsSeq, ToSet
<1>5. /\ IsSeq(p) /\ Len(p) = Len(EmittedPolicies)
      /\ \A i \in 1..Len(EmittedPolicies) : p[i] = PolicyDocument(EmittedPolicies[i])
  BY <1>2 DEF IsSeq, ToSet
<1>6. /\ IsSeq(c) /\ Len(c) = Len(bundle.certificates)
      /\ \A i \in 1..Len(bundle.certificates) : c[i] = CertificateDocument(bundle.certificates[i])
  BY <1>2 DEF IsSeq, ToSet
<1> HIDE DEF g, r, p, c
<1> DEFINE s == g \o r \o p \o c
<1>7. /\ IsSeq(s) /\ Len(s) = Len(g) + Len(r) + Len(p) + Len(c)
      /\ \A i \in 1..Len(g) : s[i] = g[i]
      /\ \A i \in 1..Len(r) : s[Len(g) + i] = r[i]
      /\ \A i \in 1..Len(p) : s[Len(g) + Len(r) + i] = p[i]
      /\ \A i \in 1..Len(c) : s[Len(g) + Len(r) + Len(p) + i] = c[i]
  <2>1. IsSeq(g) /\ IsSeq(r) /\ IsSeq(p) /\ IsSeq(c)
    BY <1>3, <1>4, <1>5, <1>6
  <2> QED
    BY <2>1, ConcatOfFour
<1>8. Documents = s
  BY <1>1
<1> HIDE DEF s
<1> QED
  BY <1>2, <1>3, <1>4, <1>5, <1>6, <1>7, <1>8

\* What a document can be.
LEMMA DocumentCases ==
  ASSUME Fits, NEW i \in 1..Len(Documents)
  PROVE  \/ i \in 1..Len(bundle.gateways) /\ Documents[i] = GatewayDocument(bundle.gateways[i])
         \/ \E n \in 1..Len(bundle.routes) : Documents[i] = RouteDocument(bundle.routes[n])
         \/ \E p \in ToSet(EmittedPolicies) : Documents[i] = PolicyDocument(p)
         \/ \E n \in 1..Len(bundle.certificates) : Documents[i] = CertificateDocument(bundle.certificates[n])
<1> DEFINE g == Len(bundle.gateways)
           r == Len(bundle.routes)
           p == Len(EmittedPolicies)
           c == Len(bundle.certificates)
           D == Documents
<1>1. /\ Len(D) = g + r + p + c
      /\ g \in Nat /\ r \in Nat /\ p \in Nat /\ c \in Nat
      /\ \A j \in 1..g : D[j] = GatewayDocument(bundle.gateways[j])
      /\ \A j \in 1..r : D[g + j] = RouteDocument(bundle.routes[j])
      /\ \A j \in 1..p : D[g + r + j] = PolicyDocument(EmittedPolicies[j])
      /\ \A j \in 1..c : D[g + r + p + j] = CertificateDocument(bundle.certificates[j])
  BY DocumentsInOrder
<1>2. \A j \in 1..p : EmittedPolicies[j] \in ToSet(EmittedPolicies)
  BY PoliciesOfBundle DEF IsSeq, ToSet
<1> HIDE DEF g, r, p, c, D
<1>3. i \in 1..Len(D)
  BY DEF D
<1>4. CASE i <= g
  BY <1>1, <1>3, <1>4 DEF g, D
<1>5. CASE i > g /\ i <= g + r
  <2>1. i - g \in 1..r /\ i = g + (i - g)
    BY <1>1, <1>3, <1>5
  <2>2. D[i] = RouteDocument(bundle.routes[i - g])
    BY <1>1, <2>1
  <2> QED
    BY <2>1, <2>2 DEF r, D
<1>6. CASE i > g + r /\ i <= g + r + p
  <2> DEFINE j == i - (g + r)
  <2>1. j \in 1..p /\ i = g + r + j
    BY <1>1, <1>3, <1>6
  <2> HIDE DEF j
  <2>2. D[i] = PolicyDocument(EmittedPolicies[j])
    BY <1>1, <2>1
  <2> QED
    BY <1>2, <2>1, <2>2 DEF D
<1>7. CASE i > g + r + p
  <2> DEFINE j == i - (g + r + p)
  <2>1. j \in 1..c /\ i = g + r + p + j
    BY <1>1, <1>3, <1>7
  <2> HIDE DEF j
  <2>2. D[i] = CertificateDocument(bundle.certificates[j])
    BY <1>1, <2>1
  <2> QED
    BY <2>1, <2>2 DEF c, D
<1>8. i \in Nat /\ g \in Nat /\ g + r \in Nat /\ g + r + p \in Nat
  BY <1>1, <1>3
<1> QED
  BY <1>4, <1>5, <1>6, <1>7, <1>8

\* The kind of a document tells what it was made of.
LEMMA DocumentKeys ==
  /\ \A g : /\ GatewayDocument(g).key = <<"Gateway", g.ns, g.name>>
            /\ GatewayDocument(g).key[1] = "Gateway"
  /\ \A r : /\ RouteDocument(r).key = <<"HTTPRoute", r.ns, r.name>>
            /\ RouteDocument(r).key[1] = "HTTPRoute" /\ RouteDocument(r).body.source = r.source
  /\ \A p : /\ PolicyDocument(p).key = <<p.crd, p.ns, p.name>> /\ PolicyDocument(p).key[1] = p.crd
            /\ PolicyDocument(p).body.target = p.target /\ PolicyDocument(p).body.settings = Sanitized(p)
  /\ \A c : /\ CertificateDocument(c).key = <<"Certificate", c.ns, c.name>>
            /\ CertificateDocument(c).key[1] = "Certificate"
BY DEF GatewayDocument, RouteDocument, PolicyDocument, CertificateDocument, Document

\* The routes among the documents are those of the bundle, the policies are emitted ones.
LEMMA DocumentsByKind ==
  ASSUME Fits, stage = "done"
  PROVE  /\ DocumentsOf({"HTTPRoute"}) =
              {RouteDocument(bundle.routes[n]) : n \in 1..Len(bundle.routes)}
         /\ \A d \in DocumentsOf(PolicyKinds) : \E p \in ToSet(EmittedPolicies) : d = PolicyDocument(p)
         /\ \A i \in 1..Len(documents) :
              documents[i].key[1] \in {"Gateway", "HTTPRoute", "Certificate"} \cup PolicyKinds
<1>1. documents = Documents
  BY DEF Fits, CommandFits
<1>2. "HTTPRoute" \notin PolicyKinds /\ "Gateway" \notin PolicyKinds /\ "Certificate" \notin PolicyKinds
  BY DEF PolicyKinds
<1>3. ASSUME NEW i \in 1..Len(documents)
      PROVE  \/ documents[i].key[1] = "Gateway" \/ documents[i].key[1] = "Certificate"
             \/ /\ documents[i].key[1] = "HTTPRoute"
                /\ \E n \in 1..Len(bundle.routes) : documents[i] = RouteDocument(bundle.routes[n])
             \/ /\ documents[i].key[1] \in PolicyKinds
                /\ \E p \in ToSet(EmittedPolicies) : documents[i] = PolicyDocument(p)
  <2> DEFINE d == documents[i]
  <2>1. CASE i \in 1..Len(bundle.gateways) /\ d = GatewayDocument(bundle.gateways[i])
    <3>1. d.key[1] = "Gateway"
      BY <2>1, DocumentKeys
    <3> QED
      BY <3>1
  <2>2. CASE \E n \in 1..Len(bundle.routes) : d = RouteDocument(bundle.routes[n])
    <3>1. d.key[1] = "HTTPRoute"
      BY <2>2, DocumentKeys
    <3> QED
      BY <2>2, <3>1
  <2>3. CASE \E p \in ToSet(EmittedPolicies) : d = PolicyDocument(p)
    <3>1. PICK p \in ToSet(EmittedPolicies) : d = PolicyDocument(p)
      BY <2>3
    <3>2. p.crd \in PolicyKinds
      BY PoliciesOfBundle
    <3>3. d.key[1] \in PolicyKinds
      BY <3>1, <3>2, DocumentKeys
    <3> QED
      BY <2>3, <3>3
  <2>4. CASE \E n \in 1..Len(bundle.certificates) : d = CertificateDocument(bundle.certificates[n])
    <3>1. d.key[1] = "Certificate"
      BY <2>4, DocumentKeys
    <3> QED
      BY <3>1
  <2> HIDE DEF d
  <2>5. \/ i \in 1..Len(bundle.gateways) /\ d = GatewayDocument(bundle.gateways[i])
        \/ \E n \in 1..Len(bundle.routes) : d = RouteDocument(bundle.routes[n])
        \/ \E p \in ToSet(EmittedPolicies) : d = PolicyDocument(p)
        \/ \E n \in 1..Len(bundle.certificates) : d = CertificateDocument(bundle.certificates[n])
    <3>1. i \in 1..Len(Documents)
      BY <1>1
    <3> QED
      BY <1>1, <3>1, DocumentCases DEF d
  <2> QED
    BY <2>1, <2>2, <2>3, <2>4, <2>5
<1>4. ASSUME NEW n \in 1..Len(bundle.routes)
      PROVE  \E i \in 1..Len(documents) : documents[i] = RouteDocument(bundle.routes[n])
                                          /\ documents[i].key[1] = "HTTPRoute"
  <2> DEFINE g == Len(bundle.gateways)
             r == Len(bundle.routes)
             p == Len(EmittedPolicies)
             c == Len(bundle.certificates)
  <2>1. /\ Len(Documents) = g + r + p + c
        /\ g \in Nat /\ r \in Nat /\ p \in Nat /\ c \in Nat
        /\ \A i \in 1..r : Documents[g + i] = RouteDocument(bundle.routes[i])
    BY DocumentsInOrder
  <2>2. n \in 1..r
    OBVIOUS
  <2> HIDE DEF g, r, p, c
  <2>3. g + n \in 1..Len(Documents) /\ Documents[g + n] = RouteDocument(bundle.routes[n])
    BY <2>1, <2>2
  <2>4. Documents[g + n].key[1] = "HTTPRoute"
    BY <2>3, DocumentKeys
  <2> QED
    BY <1>1, <2>3, <2>4
<1>5. DocumentsOf({"HTTPRoute"}) = {RouteDocument(bundle.routes[n]) : n \in 1..Len(bundle.routes)}
  BY <1>2, <1>3, <1>4 DEF DocumentsOf
<1>6. \A d \in DocumentsOf(PolicyKinds) : \E p \in ToSet(EmittedPolicies) : d = PolicyDocument(p)
  BY <1>2, <1>3 DEF DocumentsOf
<1> QED
  BY <1>3, <1>5, <1>6

LEMMA ConversionTypes == Fits => ConversionTypeOK
<1> SUFFICES ASSUME Fits  PROVE ConversionTypeOK
  OBVIOUS
<1>1. Len(bundle.routes) = Len(built) /\ Len(bundle.gateways) = GatewayCount /\ Len(built) \in Nat
  BY NodesOfBundle, BuiltFromIngresses
<1>2. opts.entry = "FromIngresses" => GatewayCount <= 1
  BY BuiltFromIngresses DEF GatewayCount
<1>3. \A i \in 1..Len(built) : \A rule \in ToSet(bundle.routes[i].rules) : IsRule(rule)
  BY DEF Fits, BundleFits, RoutesFit
<1> QED
  BY <1>1, <1>2, <1>3 DEF ConversionTypeOK, Fits, PipelineFits, IsRule

LEMMA EmissionTypes == Fits => EmissionTypeOK
<1> SUFFICES ASSUME Fits  PROVE EmissionTypeOK
  OBVIOUS
<1>1. stage # "done" => documents = <<>>
  BY DEF Fits, CommandFits
<1>2. (session = <<>>) = (stage = "end")
  BY DEF Fits, CommandFits
<1>3. CASE stage = "done"
  <2>1. documents # <<>>
    <3>1. documents = Documents /\ built # <<>>
      BY <1>3 DEF Fits, CommandFits, PipelineFits
    <3>2. Len(bundle.routes) = Len(built) /\ Len(built) >= 1 /\ Len(built) \in Nat
      BY <3>1, NodesOfBundle, BuiltFromIngresses
    <3> DEFINE g == Len(bundle.gateways)
               r == Len(bundle.routes)
               p == Len(EmittedPolicies)
               c == Len(bundle.certificates)
    <3>3. Len(Documents) = g + r + p + c /\ g \in Nat /\ p \in Nat /\ c \in Nat
      BY DocumentsInOrder
    <3>4. r \in Nat /\ r >= 1
      BY <3>2
    <3> HIDE DEF g, r, p, c
    <3>5. Len(Documents) # 0
      BY <3>3, <3>4
    <3>6. Documents # <<>>
      BY <3>5
    <3> QED
      BY <3>1, <3>6
  <2>2. Cardinality(DocumentsOf({"HTTPRoute"})) <= Len(built)
    <3> DEFINE n == Len(bundle.routes)
               f == [i \in 1..n |-> RouteDocument(bundle.routes[i])]
    <3>1. n = Len(built) /\ n \in Nat
      BY NodesOfBundle, BuiltFromIngresses
    <3>2. DocumentsOf({"HTTPRoute"}) = {f[i] : i \in 1..n}
      BY <1>3, DocumentsByKind
    <3> HIDE DEF n
    <3>3. IsFiniteSet(1..n) /\ Cardinality(1..n) = n
      <4>1. 1 \in Int /\ n \in Int
        BY <3>1
      <4>2. IsFiniteSet(1..n) /\ Cardinality(1..n) = IF 1 > n THEN 0 ELSE n - 1 + 1
        BY <4>1, FS_Interval
      <4> QED
        BY <3>1, <4>2
    <3>4. f \in Surjection(1..n, {f[i] : i \in 1..n})
      BY DEF Surjection
    <3>5. Cardinality({f[i] : i \in 1..n}) <= Cardinality(1..n)
      BY <3>3, <3>4, FS_Surjection
    <3> QED
      BY <3>1, <3>2, <3>3, <3>5
  <2>3. \A d \in DocumentsOf(PolicyKinds) : d.body.settings # {}
    BY <1>3, DocumentsByKind, PoliciesOfBundle, DocumentKeys
  <2>4. \A i \in 1..Len(documents) :
          documents[i].key[1] \in {"Gateway", "HTTPRoute", "Certificate"} \cup PolicyKinds
    BY <1>3, DocumentsByKind
  <2> QED
    BY <1>2, <1>3, <2>1, <2>2, <2>3, <2>4 DEF EmissionTypeOK
<1>4. CASE stage # "done"
  <2>1. documents = <<>> /\ \A kinds : DocumentsOf(kinds) = {}
    BY <1>1, <1>4 DEF DocumentsOf
  <2>2. Cardinality(DocumentsOf({"HTTPRoute"})) = 0
    BY <2>1, FS_EmptySet
  <2>3. Len(built) \in Nat
    BY BuiltFromIngresses
  <2> QED
    BY <1>2, <1>4, <2>1, <2>2, <2>3 DEF EmissionTypeOK
<1> QED
  BY <1>3, <1>4

\* A route is emitted as it is in the bundle but for its rules.
LEMMA EmittedRouteFields ==
  ASSUME Fits, stage = "done"
  PROVE  /\ Len(manifests) = Len(built)
         /\ \A i \in 1..Len(built) :
              manifests[i].ns = built[i].ns /\ manifests[i].parent = ParentOf(built[i])
<1>1. manifests = EmittedRoutes
  BY DEF Fits, CommandFits
<1>2. Len(bundle.routes) = Len(built) /\ Len(built) \in Nat
  BY NodesOfBundle, BuiltFromIngresses
<1>3. ASSUME NEW i \in 1..Len(built)
      PROVE  manifests[i].ns = built[i].ns /\ manifests[i].parent = ParentOf(built[i])
  <2> DEFINE r   == bundle.routes[i]
             ing == built[i]
             v   == [j \in 1..Len(r.rules) |-> Emitted(r.rules[j])]
             nm  == IF IsStaged THEN ShadowRouteName(ing.name) ELSE ing.name
             hs  == CollectHostnames(ing)
             gw  == ParentOf(ing)
             u   == r.rules
  <2>1. manifests[i] = [r EXCEPT !.rules = v]
    BY <1>1, <1>2 DEF EmittedRoutes
  <2>2. r = [name |-> nm, ns |-> ing.ns, source |-> ing.name, hostnames |-> hs, parent |-> gw, rules |-> u]
    BY NodesOfBundle DEF RouteOf
  <2> HIDE DEF r, v, nm, hs, gw, u
  <2>3. [r EXCEPT !.rules = v] =
          [name |-> nm, ns |-> ing.ns, source |-> ing.name, hostnames |-> hs, parent |-> gw, rules |-> v]
    BY <2>2
  <2> QED
    BY <2>1, <2>3 DEF gw
<1>4. Len(manifests) = Len(built)
  BY <1>1, <1>2 DEF EmittedRoutes
<1> QED
  BY <1>3, <1>4

LEMMA RoutesFindTheirGateway == Fits => RoutesHaveAGateway
<1> SUFFICES ASSUME Fits, stage = "done", opts.includeGateway, NEW i \in 1..Len(manifests),
                    manifests[i].ns = manifests[1].ns
             PROVE  \E g \in ToSet(bundle.gateways) : manifests[i].parent = [name |-> g.name, ns |-> g.ns]
  BY DEF RoutesHaveAGateway, Done
<1>1. built # <<>> /\ todo = <<>> /\ built \in Seq(ToSet(built)) /\ Len(built) \in Nat
  BY BuiltFromIngresses DEF Fits, PipelineFits
<1>2. /\ i \in 1..Len(built) /\ 1 \in 1..Len(built) /\ built[i].ns = built[1].ns
      /\ manifests[i].parent = ParentOf(built[i])
  <2>1. i \in 1..Len(built) /\ 1 \in 1..Len(built)
    BY <1>1, EmittedRouteFields
  <2> QED
    BY <2>1, EmittedRouteFields
<1>3. ASSUME NEW n \in 1..GatewayCount, ParentOf(built[i]) = ParentOf(built[n])
      PROVE  \E g \in ToSet(bundle.gateways) : manifests[i].parent = [name |-> g.name, ns |-> g.ns]
  <2> DEFINE g  == bundle.gateways[n]
             gw == ParentOf(built[n])
  <2>1. g = GatewayOf(built[n]) /\ g \in ToSet(bundle.gateways)
    BY NodesOfBundle DEF ToSet
  <2>2. g.name = gw.name /\ g.ns = built[n].ns
    BY <2>1 DEF GatewayOf
  <2>3. gw = [name |-> gw.name, ns |-> built[n].ns]
    BY DEF ParentOf
  <2> HIDE DEF g, gw
  <2>4. manifests[i].parent = [name |-> g.name, ns |-> g.ns]
    BY <1>2, <1>3, <2>2, <2>3 DEF gw
  <2> QED
    BY <2>1, <2>4
<1>4. CASE opts.entry = "FromIngress"
  <2>1. GatewayCount = Len(built)
    BY <1>1, <1>4 DEF GatewayCount
  <2> QED
    BY <1>2, <1>3, <2>1
<1>5. CASE opts.entry = "FromIngresses"
  <2>1. GatewayCount = 1
    BY <1>1, <1>5 DEF GatewayCount
  <2>2. ParentOf(built[i]) = ParentOf(built[1])
    <3>1. GatewayName(built[i]) = GatewayName(built[1])
      <4>1. CASE i = 1
        BY <4>1
      <4>2. CASE i # 1
        <5>1. Len(built) + Len(todo) > 1
          BY <1>1, <1>2, <4>2
        <5> QED
          BY <1>5, <5>1 DEF GatewayName
      <4> QED
        BY <4>1, <4>2
    <3> QED
      BY <1>2, <3>1 DEF ParentOf
  <2> QED
    BY <1>3, <2>1, <2>2
<1> QED
  BY <1>4, <1>5, BuiltFromIngresses

LEMMA OneAndMore ==
  ASSUME NEW x, NEW s, IsSeq(s)
  PROVE  LET t == <<x>> \o s
         IN Len(t) = 1 + Len(s) /\ t[1] = x /\ \A i \in 1..Len(s) : t[1 + i] = s[i]
<1> DEFINE one == <<x>>
<1>1. IsSeq(one) /\ Len(one) = 1 /\ one[1] = x
  BY DEF IsSeq, ToSet
<1> HIDE DEF one
<1>2. /\ Len(one \o s) = Len(one) + Len(s)
      /\ \A i \in 1..Len(one) : (one \o s)[i] = one[i]
      /\ \A i \in 1..Len(s) : (one \o s)[Len(one) + i] = s[i]
  <2>1. IsSeq(one)
    BY <1>1
  <2>2. Len(one \o s) = Len(one) + Len(s)
    BY <2>1, ConcatIsSeq
  <2>3. \A i \in 1..Len(one) : (one \o s)[i] = one[i]
    BY <2>1, ConcatIsSeq
  <2>4. \A i \in 1..Len(s) : (one \o s)[Len(one) + i] = s[i]
    BY <2>1, ConcatIsSeq
  <2> QED
    BY <2>2, <2>3, <2>4
<1> QED
  BY <1>1, <1>2 DEF one

\* A listener has no secret, or it is of a block: for the first of its hosts, if it
\* has any, and with the secret that SecretOf says.
LEMMA ListenerCases ==
  ASSUME NEW ing, IsIngress(ing), NEW j \in 1..Len(Listeners(ing))
  PROVE  \/ \E p, h, m : Listeners(ing)[j] = Listener(p, h, m, None)
         \/ \E i \in 1..Len(ing.tls) : \E h :
              /\ Listeners(ing)[j] =
                   Listener("HTTPS", h, IF Passthrough(ing) THEN "Passthrough" ELSE "Terminate", SecretOf(ing, i))
              /\ ing.tls[i].hosts = <<>> \/ h = ing.tls[i].hosts[1]
<1> DEFINE ls    == Listeners(ing)
           first == IF CollectHostnames(ing) = <<>> THEN "" ELSE CollectHostnames(ing)[1]
           plain == opts.httpOnly \/ (ing.tls = <<>> /\ ~HasAnnotatedTLS(ing))
           mode  == IF Passthrough(ing) THEN "Passthrough" ELSE "Terminate"
           H(i)  == IF ing.tls[i].hosts = <<>> THEN first ELSE ing.tls[i].hosts[1]
           L(i)  == Listener("HTTPS", H(i), mode, SecretOf(ing, i))
           one   == Listener("HTTP", "", None, None)
           more  == [i \in 1..Len(ing.tls) |-> L(i)]
<1>1. ls = IF plain THEN <<Listener("HTTP", first, None, None)>>
           ELSE <<one>> \o (IF ing.tls = <<>> THEN <<Listener("HTTPS", first, mode, None)>> ELSE more)
  BY DEF Listeners
<1>2. Len(ing.tls) \in Nat
  BY DEF IsIngress, IsSeq
<1>3. j \in 1..Len(ls)
  OBVIOUS
<1> HIDE DEF ls, first, plain, mode, L
<1>4. CASE plain
  <2>1. ls = <<Listener("HTTP", first, None, None)>>
    BY <1>1, <1>4
  <2>2. ls[j] = Listener("HTTP", first, None, None)
    BY <1>3, <2>1
  <2> QED
    BY <2>2 DEF ls
<1>5. CASE ~plain /\ ing.tls = <<>>
  <2> DEFINE two == Listener("HTTPS", first, mode, None)
  <2>1. ls = <<one>> \o <<two>>
    BY <1>1, <1>5
  <2> HIDE DEF one, two
  <2>2. ls[j] = one \/ ls[j] = two
    BY <1>3, <2>1
  <2> QED
    BY <2>2 DEF ls, one, two
<1>6. CASE ~plain /\ ing.tls # <<>>
  <2>1. ls = <<one>> \o more
    BY <1>1, <1>6
  <2>2. IsSeq(more) /\ Len(more) = Len(ing.tls) /\ \A i \in 1..Len(ing.tls) : more[i] = L(i)
    BY <1>2 DEF IsSeq, ToSet
  <2> HIDE DEF more, one
  <2>3. Len(ls) = 1 + Len(more) /\ ls[1] = one /\ \A i \in 1..Len(more) : ls[1 + i] = more[i]
    <3> DEFINE t == <<one>> \o more
    <3>1. Len(t) = 1 + Len(more) /\ t[1] = one /\ \A i \in 1..Len(more) : t[1 + i] = more[i]
      BY <2>2, OneAndMore
    <3>2. ls = t
      BY <2>1
    <3> HIDE DEF t
    <3> QED
      BY <3>1, <3>2
  <2>4. CASE j = 1
    BY <2>3, <2>4 DEF one, ls
  <2>5. CASE j # 1
    <3> DEFINE i == j - 1
    <3>1. i \in 1..Len(ing.tls) /\ ls[j] = L(i)
      BY <1>2, <1>3, <2>2, <2>3, <2>5
    <3> HIDE DEF i
    <3>2. ls[j] = Listener("HTTPS", H(i), mode, SecretOf(ing, i))
      BY <3>1 DEF L
    <3>3. ing.tls[i].hosts = <<>> \/ H(i) = ing.tls[i].hosts[1]
      OBVIOUS
    <3> HIDE DEF H
    <3> QED
      BY <3>1, <3>2, <3>3 DEF ls, mode
  <2> QED
    BY <2>4, <2>5
<1> QED
  BY <1>4, <1>5, <1>6

LEMMA ListenerFields ==
  \A p, h, m, s, v :
    /\ Listener(p, h, m, s).mode = m /\ Listener(p, h, m, s).secret = s
    /\ [Listener(p, h, m, s) EXCEPT !.secret = v] = Listener(p, h, m, v)
    /\ Listener(p, h, m, s).hostname = h
BY DEF Listener

LEMMA CertificatesMatch == Fits => NoForeignCertificate
<1> SUFFICES ASSUME Fits, stage = "done", NEW n \in 1..Len(bundle.gateways), ~HasIssuer(built[n]),
                    NEW l \in ToSet(documents[n].body), l.secret # None
             PROVE  \E block \in ToSet(built[n].tls) :
                      block.secret = l.secret /\ (block.hosts = <<>> \/ l.hostname \in ToSet(block.hosts))
  BY DEF NoForeignCertificate, Done
<1> DEFINE ing == built[n]
           ls  == Listeners(ing)
           g   == bundle.gateways[n]
<1>1. n \in 1..Len(built) /\ g = GatewayOf(ing)
  BY NodesOfBundle, BuiltFromIngresses
<1>2. IsIngress(ing)
  BY <1>1, BuiltFromIngresses
<1>3. documents[n] = GatewayDocument(g)
  BY DocumentsInOrder DEF Fits, CommandFits
<1>4. g.listeners = ls
  BY <1>1 DEF GatewayOf
<1> HIDE DEF g, ls
<1>5. documents[n].body =
        [j \in 1..Len(ls) |-> [ls[j] EXCEPT !.secret = IF ls[j].mode = "Terminate" THEN @ ELSE None]]
  BY <1>3, <1>4 DEF GatewayDocument, Document
<1>6. PICK j \in 1..Len(ls) : l = [ls[j] EXCEPT !.secret = IF ls[j].mode = "Terminate" THEN @ ELSE None]
  BY <1>5 DEF ToSet
<1>7. CASE \E p, h, m : ls[j] = Listener(p, h, m, None)
  <2>1. PICK p, h, m : ls[j] = Listener(p, h, m, None)
    BY <1>7
  <2>2. l = Listener(p, h, m, None)
    BY <1>6, <2>1, ListenerFields
  <2> QED
    BY <2>2, ListenerFields
<1>8. ASSUME NEW i \in 1..Len(ing.tls), NEW h,
             ls[j] = Listener("HTTPS", h, IF Passthrough(ing) THEN "Passthrough" ELSE "Terminate", SecretOf(ing, i)),
             ing.tls[i].hosts = <<>> \/ h = ing.tls[i].hosts[1]
      PROVE  \E block \in ToSet(ing.tls) :
               block.secret = l.secret /\ (block.hosts = <<>> \/ l.hostname \in ToSet(block.hosts))
  <2> DEFINE block == ing.tls[i]
             mode  == IF Passthrough(ing) THEN "Passthrough" ELSE "Terminate"
             s     == SecretOf(ing, i)
  <2>1. ing.tls \in Seq(ToSet(ing.tls)) /\ \A b \in ToSet(ing.tls) : b.hosts \in Seq(ToSet(b.hosts))
    BY <1>2 DEF IsIngress, IsSeq
  <2>2. block \in ToSet(ing.tls)
    BY <2>1 DEF ToSet
  <2>3. s = block.secret \/ Passthrough(ing)
    BY DEF SecretOf, HasAnnotatedTLS
  <2>4. Passthrough(ing) <=> mode # "Terminate"
    OBVIOUS
  <2>5. ls[j] = Listener("HTTPS", h, mode, s)
    BY <1>8
  <2> HIDE DEF s, mode
  <2>6. l = Listener("HTTPS", h, mode, IF mode = "Terminate" THEN s ELSE None)
    BY <1>6, <2>5, ListenerFields
  <2>7. mode = "Terminate" /\ l.secret = s /\ l.hostname = h
    BY <2>6, ListenerFields
  <2>8. block.hosts = <<>> \/ h = block.hosts[1]
    BY <1>8
  <2> HIDE DEF block
  <2>9. block.hosts # <<>> => block.hosts[1] \in ToSet(block.hosts)
    BY <2>1, <2>2 DEF ToSet
  <2> QED
    BY <2>2, <2>3, <2>4, <2>7, <2>8, <2>9
<1>9. \/ \E p, h, m : ls[j] = Listener(p, h, m, None)
      \/ \E i \in 1..Len(ing.tls) : \E h :
           /\ ls[j] = Listener("HTTPS", h, IF Passthrough(ing) THEN "Passthrough" ELSE "Terminate", SecretOf(ing, i))
           /\ ing.tls[i].hosts = <<>> \/ h = ing.tls[i].hosts[1]
  BY <1>2, ListenerCases DEF ls
<1> QED
  BY <1>7, <1>8, <1>9

\* Words at the end of a name.
LEMMA LastWords ==
  ASSUME NEW name, IsSeq(name)
  PROVE  /\ \A w : Last(Append(name, w)) = w /\ w \in ToSet(Append(name, w))
         /\ HasSuffix(name \o <<"gateway">>, "gateway") <=> name # <<>>
         /\ \A w : LET s == name \o <<"staging", w>>
                   IN "staging" \in ToSet(s) /\ HasSuffix(s, w) /\ IsSeq(s)
<1> DEFINE T == ToSet(name)
<1>1. name \in Seq(T) /\ Len(name) \in Nat
  BY DEF IsSeq
<1> HIDE DEF T
<1>2. ASSUME NEW w  PROVE Last(Append(name, w)) = w /\ w \in ToSet(Append(name, w))
  <2> DEFINE U == T \cup {w}
             s == Append(name, w)
  <2>1. name \in Seq(U) /\ w \in U
    BY <1>1
  <2> HIDE DEF U
  <2>2. s \in Seq(U) /\ Len(s) = Len(name) + 1 /\ s[Len(s)] = w
    BY <2>1
  <2> HIDE DEF s
  <2>3. s[Len(s)] \in ToSet(s)
    BY <1>1, <2>2 DEF ToSet
  <2> QED
    BY <2>2, <2>3 DEF Last, s
<1>3. HasSuffix(name \o <<"gateway">>, "gateway") <=> name # <<>>
  <2> DEFINE g == <<"gateway">>
             s == name \o g
  <2>1. IsSeq(g) /\ Len(g) = 1 /\ g[1] = "gateway"
    BY DEF IsSeq, ToSet
  <2> HIDE DEF g
  <2>2. Len(s) = Len(name) + Len(g)
    BY <2>1, ConcatIsSeq
  <2>3. \A i \in 1..Len(g) : s[Len(name) + i] = g[i]
    BY <2>1, ConcatIsSeq
  <2> HIDE DEF s
  <2>4. Len(s) = Len(name) + 1 /\ s[Len(s)] = "gateway"
    BY <1>1, <2>1, <2>2, <2>3
  <2>5. HasSuffix(s, "gateway") <=> Len(name) # 0
    BY <1>1, <2>4 DEF HasSuffix, Last
  <2>6. Len(name) # 0 <=> name # <<>>
    BY <1>1
  <2> QED
    BY <2>5, <2>6 DEF s, g
<1>4. ASSUME NEW w
      PROVE  LET s == name \o <<"staging", w>> IN "staging" \in ToSet(s) /\ HasSuffix(s, w) /\ IsSeq(s)
  <2> DEFINE g == <<"staging", w>>
             s == name \o g
  <2>1. IsSeq(g) /\ Len(g) = 2 /\ g[1] = "staging" /\ g[2] = w
    BY DEF IsSeq, ToSet
  <2> HIDE DEF g
  <2>2. IsSeq(s) /\ Len(s) = Len(name) + Len(g)
    BY <2>1, ConcatIsSeq
  <2>3. \A i \in 1..Len(g) : s[Len(name) + i] = g[i]
    <3>1. IsSeq(g)
      BY <2>1
    <3> QED
      BY <3>1, ConcatIsSeq
  <2> HIDE DEF s
  <2>4. Len(s) = Len(name) + 2 /\ s[Len(name) + 1] = "staging" /\ s[Len(s)] = w
    BY <1>1, <2>1, <2>2, <2>3
  <2>5. HasSuffix(s, w)
    BY <1>1, <2>4 DEF HasSuffix, Last
  <2>6. DOMAIN s = 1..Len(s) /\ Len(name) + 1 \in 1..Len(s)
    BY <1>1, <2>2, <2>4 DEF IsSeq
  <2>7. "staging" \in ToSet(s)
    BY <2>4, <2>6 DEF ToSet
  <2> QED
    BY <2>2, <2>5, <2>7 DEF s, g
<1> QED
  BY <1>2, <1>3, <1>4

LEMMA ShadowNames ==
  ASSUME NEW name, IsSeq(name)
  PROVE  "shadow" \in ToSet(ShadowRouteName(name))
<1>1. CASE HasSuffix(name, "shadow")
  <2>1. name \in Seq(ToSet(name)) /\ Len(name) > 1 /\ name[Len(name)] = "shadow"
    BY <1>1 DEF HasSuffix, Last, IsSeq
  <2>2. name[Len(name)] \in ToSet(name)
    BY <2>1 DEF ToSet
  <2> QED
    BY <1>1, <2>1, <2>2 DEF ShadowRouteName
<1>2. CASE ~HasSuffix(name, "shadow")
  BY <1>2, LastWords DEF ShadowRouteName
<1> QED
  BY <1>1, <1>2

LEMMA StagingNames ==
  ASSUME NEW name, IsSeq(name)
  PROVE  /\ "staging" \in ToSet(StagingGatewayName(name))
         /\ HasSuffix(name, "gateway") => HasSuffix(StagingGatewayName(name), "gateway")
<1>1. "staging" \in ToSet(<<"staging", "gateway">>) /\ HasSuffix(<<"staging", "gateway">>, "gateway")
  BY DEF ToSet, HasSuffix, Last
<1>2. CASE name = <<>>
  BY <1>1, <1>2 DEF StagingGatewayName
<1>3. CASE name # <<>> /\ Len(name) > 2 /\ IsSuffix(<<"staging", "gateway">>, name)
  <2>1. StagingGatewayName(name) = name
    BY <1>3 DEF StagingGatewayName
  <2>2. name \in Seq(ToSet(name)) /\ Len(name) \in Nat
    BY DEF IsSeq
  <2>3. name[Len(name) - 1] = "staging"
    BY <1>3, <2>2 DEF IsSuffix, IsPrefix, Reverse
  <2>4. "staging" \in ToSet(name)
    BY <1>3, <2>2, <2>3 DEF ToSet
  <2> QED
    BY <2>1, <2>4
<1>4. CASE HasSuffix(name, "gateway") /\ StagingGatewayName(name) = Front(name) \o <<"staging", "gateway">>
  <2>1. name \in Seq(ToSet(name)) /\ Len(name) > 1
    BY <1>4 DEF HasSuffix, IsSeq
  <2>2. IsSeq(Front(name))
    <3>1. Front(name) \in Seq(ToSet(name))
      BY <2>1 DEF Front
    <3> QED
      BY <3>1, SeqIsSeq
  <2> QED
    BY <1>4, <2>2, LastWords
<1>5. CASE ~HasSuffix(name, "gateway") /\ "staging" \in ToSet(name) /\ StagingGatewayName(name) = name
  BY <1>5
<1>6. CASE ~HasSuffix(name, "gateway") /\ StagingGatewayName(name) = Append(name, "staging")
  BY <1>6, LastWords
<1> QED
  BY <1>2, <1>3, <1>4, <1>5, <1>6 DEF StagingGatewayName

LEMMA GatewayNames ==
  ASSUME NEW ing, IsSeq(ing.name), ing.name # <<>>, opts.gatewayName = <<>>
  PROVE  IsSeq(GatewayName(ing)) /\ HasSuffix(GatewayName(ing), "gateway")
<1>1. IsSeq(<<"gateway">>) /\ IsSeq(<<"shared", "gateway">>) /\ HasSuffix(<<"shared", "gateway">>, "gateway")
  BY DEF IsSeq, ToSet, HasSuffix, Last
<1>2. IsSeq(ing.name \o <<"gateway">>) /\ HasSuffix(ing.name \o <<"gateway">>, "gateway")
  BY <1>1, ConcatIsSeq, LastWords
<1> QED
  BY <1>1, <1>2 DEF GatewayName

\* The staging Gateway's name, when no name is given: that of a Gateway for staging.
LEMMA StagingParentNames ==
  ASSUME Fits, built # <<>>, opts.gatewayName = <<>>
  PROVE  "staging" \in ToSet(StagingParent) /\ HasSuffix(StagingParent, "gateway")
<1>1. IsIngress(built[1])
  BY BuiltFromIngresses
<1>2. IsSeq(GatewayName(built[1])) /\ HasSuffix(GatewayName(built[1]), "gateway")
  BY <1>1, GatewayNames DEF IsIngress
<1>3. "staging" \in ToSet(<<"staging", "gateway">>) /\ HasSuffix(<<"staging", "gateway">>, "gateway")
  BY DEF ToSet, HasSuffix, Last
<1>4. /\ "staging" \in ToSet(StagingGatewayName(GatewayName(built[1])))
      /\ HasSuffix(StagingGatewayName(GatewayName(built[1])), "gateway")
  BY <1>2, StagingNames
<1> QED
  BY <1>3, <1>4 DEF StagingParent

LEMMA RouteNames ==
  ASSUME Fits, NEW i \in 1..Len(built)
  PROVE  /\ bundle.routes[i].ns = built[i].ns /\ bundle.routes[i].source = built[i].name
         /\ bundle.routes[i].name = IF IsStaged THEN ShadowRouteName(built[i].name) ELSE built[i].name
<1> DEFINE r   == bundle.routes[i]
           ing == built[i]
           nm  == IF IsStaged THEN ShadowRouteName(ing.name) ELSE ing.name
           hs  == CollectHostnames(ing)
           gw  == ParentOf(ing)
           u   == r.rules
<1>1. r = [name |-> nm, ns |-> ing.ns, source |-> ing.name, hostnames |-> hs, parent |-> gw, rules |-> u]
  BY NodesOfBundle DEF RouteOf
<1> HIDE DEF r, nm, hs, gw, u
<1>2. r.ns = ing.ns /\ r.source = ing.name /\ r.name = nm
  BY <1>1
<1> QED
  BY <1>2 DEF r, nm

LEMMA PoliciesFindTheirRoute == Fits => PoliciesAttach
<1> SUFFICES ASSUME Fits, stage = "done",
                    IsDualRun => \A ing \in ToSet(built) :
                                   ~HasSuffix(ing.name, "gateway") /\ ing.name # opts.gatewayName,
                    NEW d \in DocumentsOf(PolicyKinds)
             PROVE  \E r \in DocumentsOf({"HTTPRoute"}) :
                      r.key[2] = d.key[2] /\ r.key[3] = d.body.target /\ IsPrefix(r.body.source, d.key[3])
  BY DEF PoliciesAttach, Done
<1>1. PICK p \in ToSet(EmittedPolicies) : d = PolicyDocument(p)
  BY DocumentsByKind
<1>2. PICK ing \in ToSet(built) : p.ns = ing.ns /\ p.target = TargetOf(ing) /\ IsPrefix(ing.name, p.name)
  BY PoliciesOfBundle
<1>3. PICK i \in 1..Len(built) : ing = built[i]
  BY BuiltFromIngresses DEF ToSet
<1> DEFINE r == bundle.routes[i]
<1>4. /\ r.ns = ing.ns /\ r.source = ing.name
      /\ r.name = IF IsStaged THEN ShadowRouteName(ing.name) ELSE ing.name
  BY <1>3, RouteNames
<1>5. RouteDocument(r) \in DocumentsOf({"HTTPRoute"})
  BY <1>3, DocumentsByKind, NodesOfBundle
<1> HIDE DEF r
<1>6. /\ d.key[2] = p.ns /\ d.key[3] = p.name /\ d.body.target = p.target
      /\ RouteDocument(r).key[2] = r.ns /\ RouteDocument(r).key[3] = r.name
      /\ RouteDocument(r).body.source = r.source
  <2>1. d.key = <<p.crd, p.ns, p.name>> /\ RouteDocument(r).key = <<"HTTPRoute", r.ns, r.name>>
    BY <1>1, DocumentKeys
  <2>2. d.key[2] = p.ns /\ d.key[3] = p.name /\ RouteDocument(r).key[2] = r.ns /\ RouteDocument(r).key[3] = r.name
    BY <2>1
  <2>3. d.body.target = p.target /\ RouteDocument(r).body.source = r.source
    BY <1>1, DocumentKeys
  <2> QED
    BY <2>2, <2>3
<1>7. r.name = TargetOf(ing)
  <2>1. CASE ~IsStaged
    BY <1>4, <2>1 DEF TargetOf
  <2>2. CASE IsStaged
    <3>1. session # <<>> /\ built # <<>>
      BY DEF Fits, CommandFits, PipelineFits
    <3>2. IsDualRun
      BY <2>2, <3>1 DEF Fits, CommandFits
    <3>3. ~HasSuffix(ing.name, "gateway") /\ ing.name # opts.gatewayName
      BY <3>2
    <3>4. ing.name # StagingParent
      <4>1. CASE opts.gatewayName = <<>>
        BY <3>1, <3>3, <4>1, StagingParentNames
      <4>2. CASE opts.gatewayName # <<>>
        BY <3>3, <4>2 DEF StagingParent
      <4> QED
        BY <4>1, <4>2
    <3> QED
      BY <1>4, <2>2, <3>3, <3>4 DEF TargetOf, Retargeted
  <2> QED
    BY <2>1, <2>2
<1> QED
  BY <1>2, <1>4, <1>5, <1>6, <1>7

\* What a dual run emits has words in its name that no plain name has.
LEMMA StagedDocumentNames ==
  ASSUME Fits, stage = "done", IsDualRun, Head(session).opts.gatewayName = <<>>,
         NEW i \in 1..Len(documents), documents[i].key[1] \in {"Gateway", "HTTPRoute"}
  PROVE  ~PlainName(documents[i].key[3])
<1>1. /\ session # <<>> /\ built # <<>> /\ documents = Documents /\ IsStaged
      /\ opts = Effective(Head(session))
  BY DEF Fits, CommandFits, PipelineFits
<1>2. IsCommand(Head(session))
  BY <1>1, RunningCommand DEF Fits
<1>3. "HTTPRoute" \notin PolicyKinds /\ "Gateway" \notin PolicyKinds
  BY DEF PolicyKinds
<1> DEFINE d == documents[i]
<1>4. CASE d.key[1] = "HTTPRoute"
  <2>1. d \in DocumentsOf({"HTTPRoute"})
    BY <1>4 DEF DocumentsOf
  <2>2. PICK n \in 1..Len(bundle.routes) : d = RouteDocument(bundle.routes[n])
    BY <2>1, DocumentsByKind
  <2> DEFINE r == bundle.routes[n]
  <2>3. n \in 1..Len(built) /\ r.name = ShadowRouteName(built[n].name)
    <3>1. n \in 1..Len(built)
      BY NodesOfBundle
    <3> QED
      BY <1>1, <3>1, RouteNames
  <2>4. "shadow" \in ToSet(r.name)
    BY <2>3, ShadowNames, BuiltFromIngresses DEF IsIngress
  <2> HIDE DEF r, d
  <2>5. d.key[3] = r.name
    <3>1. d.key = <<"HTTPRoute", r.ns, r.name>>
      BY <2>2, DocumentKeys DEF r
    <3> QED
      BY <3>1
  <2>6. ~PlainName(d.key[3])
    BY <2>4, <2>5 DEF PlainName
  <2> QED
    BY <2>6 DEF d
<1>5. CASE d.key[1] = "Gateway"
  <2>1. i \in 1..Len(bundle.gateways) /\ d = GatewayDocument(bundle.gateways[i])
    <3>1. i \in 1..Len(Documents)
      BY <1>1
    <3>2. ASSUME NEW n, d = RouteDocument(bundle.routes[n])  PROVE FALSE
      BY <1>5, <3>2, DocumentKeys
    <3>3. ASSUME NEW n, d = CertificateDocument(bundle.certificates[n])  PROVE FALSE
      BY <1>5, <3>3, DocumentKeys
    <3>4. ASSUME NEW p \in ToSet(EmittedPolicies), d = PolicyDocument(p)  PROVE FALSE
      BY <1>3, <1>5, <3>4, DocumentKeys, PoliciesOfBundle
    <3> QED
      BY <1>1, <3>1, <3>2, <3>3, <3>4, DocumentCases
  <2> DEFINE g == bundle.gateways[i]
  <2>2. g.name = StagingParent /\ GatewayCount # 0
    <3>1. i \in 1..GatewayCount /\ g = GatewayOf(built[i]) /\ GatewayCount \in Nat
      BY <2>1, NodesOfBundle
    <3> QED
      BY <1>1, <3>1 DEF GatewayOf, ParentOf
  <2>3. opts.includeGateway
    BY <2>2, BuiltFromIngresses DEF GatewayCount
  <2>4. "staging" \in ToSet(StagingParent)
    <3>1. CASE opts.gatewayName = <<>>
      BY <1>1, <3>1, StagingParentNames
    <3>2. CASE opts.gatewayName # <<>>
      <4> DEFINE c == Head(session)
                 n == IF Len(c.ingresses) = 1 THEN c.ingresses[1].name ELSE <<"shared">>
      <4>1. StagingParent = opts.gatewayName
        BY <3>2 DEF StagingParent
      <4>2. opts.gatewayName = n \o <<"staging", "gateway">>
        <5>1. opts # c.opts
          BY <3>2
        <5>2. opts = [c.opts EXCEPT !.gatewayName = n \o <<"staging", "gateway">>]
          BY <1>1, <5>1 DEF Effective
        <5>3. "gatewayName" \in DOMAIN c.opts
          BY <1>2 DEF IsCommand, IsOptions
        <5> HIDE DEF n, c
        <5> QED
          BY <5>2, <5>3
      <4>3. IsSeq(n)
        <5>1. IsSeq(<<"shared">>)
          BY DEF IsSeq, ToSet
        <5>2. c.ingresses \in Seq(ToSet(c.ingresses)) /\ \A ing \in ToSet(c.ingresses) : IsSeq(ing.name)
          BY <1>2 DEF IsCommand, IsIngress, IsSeq
        <5>3. Len(c.ingresses) = 1 => c.ingresses[1] \in ToSet(c.ingresses)
          BY <5>2 DEF ToSet
        <5> QED
          BY <5>1, <5>2, <5>3
      <4> HIDE DEF n, c
      <4> QED
        BY <4>1, <4>2, <4>3, LastWords
    <3> QED
      BY <3>1, <3>2
  <2> HIDE DEF g, d
  <2>5. d.key[3] = g.name
    <3>1. d.key = <<"Gateway", g.ns, g.name>>
      BY <2>1, DocumentKeys DEF g
    <3> QED
      BY <3>1
  <2>6. ~PlainName(d.key[3])
    BY <2>2, <2>4, <2>5 DEF PlainName
  <2> QED
    BY <2>6 DEF d
<1> QED
  BY <1>4, <1>5

LEMMA DualRunStep == Fits /\ [EmissionNext]_emissionVars => DualRunLeaves({"Gateway", "HTTPRoute"})
<1> SUFFICES ASSUME Fits, [EmissionNext]_emissionVars, stage = "done", IsDualRun,
                    Head(session).opts.gatewayName = <<>>,
                    \A k \in DOMAIN cluster : k[1] \in {"Gateway", "HTTPRoute"} => PlainName(k[3]),
                    NEW k \in DOMAIN cluster, k[1] \in {"Gateway", "HTTPRoute"}
             PROVE  cluster'[k] = cluster[k]
  BY DEF DualRunLeaves, Applies, IsDualRun
<1>1. CASE UNCHANGED emissionVars
  BY <1>1 DEF emissionVars, sessionVars
<1>2. CASE EmissionNext
  <2>1. KubectlApply
    BY <1>2 DEF EmissionNext, Convert, FromIngress, Analyze, SplitCanaries, BuildRoute, ApplyCanary, FinalizeIR,
                ApplyDualRunMode, Emit, Validate
  <2>2. cluster' = [j \in DOMAIN Applied(documents) \cup DOMAIN cluster |->
                      IF j \in DOMAIN Applied(documents) THEN Applied(documents)[j] ELSE cluster[j]]
    BY <2>1 DEF KubectlApply
  <2>3. DOMAIN Applied(documents) = {documents[i].key : i \in 1..Len(documents)}
    BY DEF Applied
  <2>4. k \notin {documents[i].key : i \in 1..Len(documents)}
    <3>1. ASSUME NEW i \in 1..Len(documents), documents[i].key = k  PROVE FALSE
      BY <3>1, StagedDocumentNames
    <3> QED
      BY <3>1
  <2> QED
    BY <2>2, <2>3, <2>4
<1> QED
  BY <1>1, <1>2

-----------------------------------------------------------------------------
(* Theorems. *)

LEMMA FitsAlways == EmissionSpec => []Fits
<1>1. EmissionInit => Fits
  BY InitFits
<1>2. Fits /\ [EmissionNext]_emissionVars => Fits'
  BY NextFits
<1> QED
  BY <1>1, <1>2, PTL DEF EmissionSpec

\* The invariant: at every stage of every command the bundle is what its Ingresses
\* give, one route each, and the documents are those of the bundle.
THEOREM EmissionInvariant == EmissionSpec => []EmissionInv
<1>1. Fits => EmissionInv
  BY ConversionTypes, EmissionTypes DEF Fits, EmissionInv
<1> QED
  BY <1>1, FitsAlways, PTL

\* Every route of the first Ingress' namespace is attached to an emitted Gateway,
\* also after a dual run has renamed both.
THEOREM RoutesFindGateway == EmissionSpec => []RoutesHaveAGateway
BY FitsAlways, RoutesFindTheirGateway, PTL

\* A listener that terminates TLS for a host uses the secret of a block that names
\* the host, unless an issuer asks for another.
THEOREM NoListenerHasForeignCertificate == EmissionSpec => []NoForeignCertificate
BY FitsAlways, CertificatesMatch, PTL

\* Every policy is attached to the route that is emitted for its Ingress, in its
\* namespace, under dual-run as well.
THEOREM PoliciesFindRoute == EmissionSpec => []PoliciesAttach
BY FitsAlways, PoliciesFindTheirRoute, PTL

\* Applying a dual run changes no Gateway and no route that is in the cluster under
\* a plain name.
THEOREM LiveRoutesStay == EmissionSpec => DualRunLeavesLiveRoutes
BY FitsAlways, DualRunStep, PTL DEF EmissionSpec, DualRunLeavesLiveRoutes
=============================================================================
