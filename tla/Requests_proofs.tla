--------------------------- MODULE Requests_proofs ---------------------------
(***************************************************************************)
(* Which rule answers a request: every rule has its origin in the Ingress   *)
(* of its route, and every path of the Ingress has its rule.                 *)
(***************************************************************************)
EXTENDS Routes_proofs

-----------------------------------------------------------------------------
(* Sequences. *)

LEMMA ConcatFirst ==
  ASSUME NEW s, NEW t, IsSeq(s), IsSeq(t), s # <<>>
  PROVE  /\ IsSeq(s \o t) /\ ToSet(s \o t) = ToSet(s) \cup ToSet(t)
         /\ (s \o t)[1] = s[1] /\ s \o t # <<>>
<1>1. IsSeq(s \o t) /\ ToSet(s \o t) = ToSet(s) \cup ToSet(t)
  BY ConcatIsSeq, ConcatMembers
<1>2. Len(s) \in Nat /\ Len(t) \in Nat /\ Len(s) # 0
  BY SeqMembers
<1>3. 1 \in 1..Len(s)
  BY <1>2
<1>4. (s \o t)[1] = s[1]
  BY <1>3, ConcatIsSeq
<1>5. Len(s \o t) # 0
  <2>1. Len(s \o t) = Len(s) + Len(t)
    BY ConcatIsSeq
  <2> QED
    BY <1>2, <2>1
<1> QED
  BY <1>1, <1>4, <1>5

-----------------------------------------------------------------------------
(* The rules of a new route. *)

LEMMA PathRule ==
  ASSUME NEW ing, NEW r, NEW type, NEW path
  PROVE  LET b == BackendRule(ing, type, path, r.svc)
         IN /\ b.type = type /\ b.path = path /\ b.redirect = None
            /\ PrimaryService(b) = r.svc /\ IsBacked(b)
<1> DEFINE b == BackendRule(ing, type, path, r.svc)
<1>1. b.type = type /\ b.path = path /\ b.redirect = None /\ b.backends = BackendRefs(r.svc)
  BY DEF BackendRule, Rule
<1>2. IsBacked(b)
  BY NewRuleIsWeighted DEF IsWeighted
<1> HIDE DEF b
<1>3. PrimaryService(b) = r.svc
  BY <1>1 DEF PrimaryService, BackendRefs
<1> QED
  BY <1>1, <1>2, <1>3 DEF b

LEMMA PathRules ==
  ASSUME NEW ing, NEW r
  PROVE  LET rules == ToSet(RulesOfPath(ing, r))
         IN /\ \A rule \in rules : IsBacked(rule) /\ (IsOfPath(rule, ing, r) \/ IsSlashOf(rule, r))
            /\ \E rule \in rules : IsOfPath(rule, ing, r)
            /\ SlashRedirects(r) # <<>> => \E rule \in rules : IsSlashOf(rule, r)
<1> DEFINE forced == IsForced(ing, r.host)
           preserved == opts.preserve /\ forced
           type == IF preserved THEN "RegularExpression" ELSE Lowered(r, forced)
           path == IF preserved THEN PreserveRegexPath(PathOf(r)) ELSE PathOf(r)
           b == BackendRule(ing, type, path, r.svc)
           s == Rule("Exact", Front(r.path), "slash", <<>>)
<1>1. RulesOfPath(ing, r) = Append(SlashRedirects(r), b)
  BY Zenon DEF RulesOfPath
<1>2. SlashRedirects(r) = <<>> \/ (SlashRedirects(r) = <<s>> /\ SlashRedirects(r) # <<>>)
  BY DEF SlashRedirects
<1>3. IsBacked(b) /\ IsOfPath(b, ing, r)
  <2>1. b.type = type /\ b.path = path /\ PrimaryService(b) = r.svc /\ IsBacked(b)
    BY PathRule
  <2> HIDE DEF b
  <2> QED
    BY <2>1 DEF IsOfPath
<1>4. IsBacked(s) /\ (SlashRedirects(r) # <<>> => IsSlashOf(s, r))
  <2>1. s.type = "Exact" /\ s.path = Front(r.path) /\ s.redirect = "slash"
    BY DEF Rule
  <2>2. IsBacked(s)
    BY NewRuleIsWeighted DEF IsWeighted
  <2> HIDE DEF s
  <2> QED
    BY <2>1, <2>2 DEF IsSlashOf
<1> HIDE DEF b, s
<1>5. /\ SlashRedirects(r) = <<>> => RulesOfPath(ing, r) = <<b>>
      /\ SlashRedirects(r) # <<>> => RulesOfPath(ing, r) = <<s, b>>
  BY <1>1, <1>2, AppendSmall, Zenon
<1>6. ToSet(<<b>>) = {b} /\ ToSet(<<s, b>>) = {s, b}
  BY DEF ToSet
<1> QED
  BY <1>3, <1>4, <1>5, <1>6

LEMMA OriginsOfNewRules ==
  ASSUME NEW ing, IsIngress(ing)
  PROVE  LET rules == ToSet(RulesOf(ing))
         IN /\ \A rule \in rules : IsBacked(rule) /\ HasOrigin(rule, ing)
            /\ \A r \in ToSet(ing.rules) :
                 /\ \E rule \in rules : IsOfPath(rule, ing, r)
                 /\ SlashRedirects(r) # <<>> => \E rule \in rules : IsSlashOf(rule, r)
<1> DEFINE red == Rule("PathPrefix", Root, ing.redirect, <<>>)
           def == BackendRule(ing, "PathPrefix", Root, ing.backend)
<1>1. IsBacked(red) /\ red.type = "PathPrefix" /\ IsBacked(def) /\ def.type = "PathPrefix"
  <2>1. IsBacked(red) /\ IsBacked(def)
    BY NewRuleIsWeighted DEF IsWeighted
  <2> QED
    BY <2>1 DEF Rule, BackendRule
<1>2. \A rule \in ToSet(RulesOf(ing)) :
        \/ rule = red /\ ing.redirect # None
        \/ rule = def /\ ing.backend # None
        \/ \E r \in ToSet(ing.rules) : rule \in ToSet(RulesOfPath(ing, r))
  BY RulesOfMembers
<1> HIDE DEF red, def
<1>3. ASSUME NEW rule \in ToSet(RulesOf(ing))  PROVE IsBacked(rule) /\ HasOrigin(rule, ing)
  BY <1>1, <1>2, PathRules DEF HasOrigin, IsWhole
<1>4. ASSUME NEW r \in ToSet(ing.rules)
      PROVE  /\ \E rule \in ToSet(RulesOf(ing)) : IsOfPath(rule, ing, r)
             /\ SlashRedirects(r) # <<>> => \E rule \in ToSet(RulesOf(ing)) : IsSlashOf(rule, r)
  BY RulesOfMembers, PathRules
<1> QED
  BY <1>3, <1>4

-----------------------------------------------------------------------------
(* Canaries. *)

\* A canary joins a rule behind its first backend.
LEMMA CanaryJoins ==
  ASSUME NEW rule, IsRule(rule), IsBacked(rule), NEW c, IsIngress(c)
  PROVE  LET w == Weighted(rule, c)
         IN /\ IsBacked(w) /\ PrimaryService(w) = PrimaryService(rule)
            /\ w.type = rule.type /\ w.path = rule.path /\ w.redirect = rule.redirect
<1> DEFINE bs == CanaryBackends(c)
           compatible == Kept(bs, {b \in ToSet(bs) : PathCompatible(rule.path, b.path)})
           first == rule.backends[1]
           x == IF first.weight = None THEN [first EXCEPT !.weight = PrimaryWeight(c)] ELSE first
           t == Tail(rule.backends)
           ws == [i \in 1..Len(compatible) |-> [svc |-> compatible[i].svc, weight |-> c.weight]]
           v == <<x>> \o t \o ws
           w == [rule EXCEPT !.backends = v]
<1>1. Weighted(rule, c) = IF rule.backends = <<>> \/ compatible = <<>> THEN rule ELSE w
  BY Zenon DEF Weighted
<1>2. SUFFICES ASSUME rule.backends # <<>>
               PROVE  /\ IsBacked(w) /\ PrimaryService(w) = PrimaryService(rule)
                      /\ w.type = rule.type /\ w.path = rule.path /\ w.redirect = rule.redirect
  BY <1>1
<1>3. w.backends = v /\ w.type = rule.type /\ w.path = rule.path /\ w.redirect = rule.redirect
  <2> HIDE DEF v
  <2>1. rule = [type |-> rule.type, path |-> rule.path, header |-> rule.header, filters |-> rule.filters,
                redirect |-> rule.redirect, backends |-> rule.backends]
    BY DEF IsRule
  <2>2. w = [type |-> rule.type, path |-> rule.path, header |-> rule.header, filters |-> rule.filters,
             redirect |-> rule.redirect, backends |-> v]
    BY <2>1
  <2> HIDE DEF w
  <2> QED
    BY <2>2
<1> HIDE DEF w
<1>4. IsSeq(compatible)
  BY CanaryBackendsFit, KeptMembers
<1> HIDE DEF compatible
<1>5. /\ IsSeq(ws)
      /\ \A b \in ToSet(ws) : b = [svc |-> b.svc, weight |-> b.weight]
  <2>1. Len(compatible) \in Nat /\ ws = [i \in 1..Len(compatible) |-> ws[i]]
    BY <1>4, SeqMembers
  <2>2. \A i \in 1..Len(compatible) : ws[i] = [svc |-> ws[i].svc, weight |-> ws[i].weight]
    OBVIOUS
  <2> HIDE DEF ws
  <2>3. IsSeq(ws) /\ ToSet(ws) = {ws[i] : i \in 1..Len(compatible)}
    BY <2>1, FunctionIsSeq
  <2> QED
    BY <2>2, <2>3
<1>6. IsSeq(rule.backends) /\ \A b \in ToSet(rule.backends) : b = [svc |-> b.svc, weight |-> b.weight]
  <2>1. IsSeq(rule.backends) /\ ToSet(rule.backends) = {rule.backends[i] : i \in 1..Len(rule.backends)}
    BY SeqMembers DEF IsBacked
  <2> QED
    BY <2>1 DEF IsBacked
<1>7. /\ IsSeq(t) /\ ToSet(t) \subseteq ToSet(rule.backends)
      /\ Len(rule.backends) \in Nat /\ Len(rule.backends) >= 1 /\ first \in ToSet(rule.backends)
  <2>1. /\ Len(rule.backends) \in Nat /\ Len(rule.backends) >= 1 /\ IsSeq(t) /\ Len(t) = Len(rule.backends) - 1
        /\ \A i \in 1..Len(rule.backends) - 1 : t[i] = rule.backends[i + 1]
    BY <1>2, <1>6, TailIsSeq
  <2>2. ToSet(t) = {t[i] : i \in 1..Len(t)} /\ ToSet(rule.backends) = {rule.backends[i] : i \in 1..Len(rule.backends)}
    BY <1>6, <2>1, SeqMembers
  <2>3. \A i \in 1..Len(rule.backends) - 1 : i + 1 \in 1..Len(rule.backends)
    BY <2>1
  <2> HIDE DEF t
  <2> QED
    BY <2>1, <2>2, <2>3
<1>8. x = [svc |-> x.svc, weight |-> x.weight] /\ x.svc = first.svc
  <2>1. first = [svc |-> first.svc, weight |-> first.weight]
    BY <1>6, <1>7
  <2> HIDE DEF first
  <2> QED
    BY <2>1
<1> HIDE DEF x, t, ws
<1> DEFINE l == <<x>> \o t
<1>9. IsSeq(l) /\ ToSet(l) = {x} \cup ToSet(t) /\ l[1] = x /\ l # <<>>
  <2>1. IsSeq(<<x>>) /\ ToSet(<<x>>) = {x} /\ <<x>> # <<>> /\ <<x>>[1] = x
    BY ShortSeqs
  <2> DEFINE xs == <<x>>
  <2> HIDE DEF xs
  <2>2. IsSeq(xs) /\ ToSet(xs) = {x} /\ xs # <<>> /\ xs[1] = x /\ l = xs \o t
    BY <2>1 DEF xs
  <2> HIDE DEF l
  <2> QED
    BY <1>7, <2>2, ConcatFirst
<1>10. IsSeq(v) /\ ToSet(v) = ToSet(l) \cup ToSet(ws) /\ v[1] = l[1] /\ v # <<>>
  <2>1. v = l \o ws
    BY DEF l
  <2> HIDE DEF v, l
  <2> QED
    BY <1>5, <1>9, <2>1, ConcatFirst
<1> HIDE DEF v, l
<1>11. \A b \in ToSet(v) : b = [svc |-> b.svc, weight |-> b.weight]
  BY <1>5, <1>6, <1>7, <1>8, <1>9, <1>10
<1>12. IsBacked(w)
  <2>1. \A i \in 1..Len(v) : v[i] \in ToSet(v)
    BY <1>10, SeqMembers
  <2> QED
    BY <1>3, <1>10, <1>11, <2>1 DEF IsBacked
<1>13. PrimaryService(w) = PrimaryService(rule)
  BY <1>2, <1>3, <1>8, <1>9, <1>10 DEF PrimaryService, first
<1> QED
  BY <1>3, <1>12, <1>13

\* A rule made for a header goes to the canary's service; it matches by prefix.
LEMMA NewHeaderRules ==
  ASSUME NEW c, IsIngress(c)
  PROVE  /\ IsSeq(HeaderRules(c))
         /\ \A rule \in ToSet(HeaderRules(c)) : IsBacked(rule) /\ rule.type = "PathPrefix"
<1> DEFINE b == CanaryBackends(c)
           refs(i) == <<[svc |-> b[i].svc, weight |-> c.weight]>>
           h(i) == [Rule("PathPrefix", b[i].path, None, refs(i)) EXCEPT !.header = TRUE]
           H == {h(i) : i \in 1..Len(b)}
           hs == [i \in 1..Len(b) |-> h(i)]
<1>1. Len(b) \in Nat /\ HeaderRules(c) = Reverse(hs)
  BY CanaryBackendsFit DEF HeaderRules
<1>2. ASSUME NEW i \in 1..Len(b)  PROVE IsBacked(h(i)) /\ h(i).type = "PathPrefix"
  <2> DEFINE ref == [svc |-> b[i].svc, weight |-> c.weight]
             p   == b[i].path
             r   == <<ref>>
             yes == TRUE
  <2>1. ref = [svc |-> ref.svc, weight |-> ref.weight]
    OBVIOUS
  <2>2. IsSeq(r) /\ Len(r) = 1 /\ r[1] = ref
    <3> HIDE DEF ref
    <3> QED
      BY ShortSeqs
  <2>3. h(i) = [Rule("PathPrefix", p, None, r) EXCEPT !.header = yes]
    OBVIOUS
  <2> HIDE DEF h, p, yes
  <2>4. h(i).backends = r /\ h(i).type = "PathPrefix"
    <3> HIDE DEF r
    <3> QED
      BY <2>3 DEF Rule
  <2> HIDE DEF r, ref
  <2>5. \A k \in 1..Len(r) : r[k] = [svc |-> r[k].svc, weight |-> r[k].weight]
    BY <2>1, <2>2
  <2> QED
    BY <2>2, <2>4, <2>5 DEF IsBacked
<1>3. \A rule \in H : IsBacked(rule) /\ rule.type = "PathPrefix"
  BY <1>2
<1> HIDE DEF h, b
<1>4. hs \in Seq(H)
  BY <1>1
<1> HIDE DEF H, hs
<1>5. Reverse(hs) \in Seq(H)
  BY <1>4 DEF Reverse
<1> QED
  BY <1>1, <1>3, <1>5, SeqIsSeq

\* A canary joins the rules that are there, or puts rules in front that match by prefix.
LEMMA CanaryKeepsOrigins ==
  ASSUME NEW c \in ToSet(ingresses), IsIngress(c), c.canary, NEW ing, NEW rules, IsSeq(rules),
         \A rule \in ToSet(rules) : IsRule(rule) /\ IsBacked(rule) /\ HasOrigin(rule, ing)
  PROVE  LET new == ToSet(CanaryRules(c, rules))
         IN /\ \A rule \in new : IsBacked(rule) /\ HasOrigin(rule, ing)
            /\ \A r : \A rule \in ToSet(rules) :
                 /\ IsOfPath(rule, ing, r) => \E other \in new : IsOfPath(other, ing, r)
                 /\ IsSlashOf(rule, r) => \E other \in new : IsSlashOf(other, r)
<1> DEFINE new == ToSet(CanaryRules(c, rules))
<1>1. CASE c.header
  <2>1. CanaryRules(c, rules) = HeaderRules(c) \o rules
    BY <1>1 DEF CanaryRules
  <2>2. /\ IsSeq(HeaderRules(c))
        /\ \A rule \in ToSet(HeaderRules(c)) : IsBacked(rule) /\ rule.type = "PathPrefix"
    BY NewHeaderRules
  <2>3. new = ToSet(HeaderRules(c)) \cup ToSet(rules)
    BY <2>1, <2>2, ConcatMembers
  <2>4. \A rule \in ToSet(HeaderRules(c)) : HasOrigin(rule, ing)
    BY <1>1, <2>2 DEF HasOrigin, IsWhole
  <2> HIDE DEF new
  <2> QED
    BY <2>2, <2>3, <2>4 DEF new
<1>2. CASE ~c.header
  <2> DEFINE w == [j \in 1..Len(rules) |-> Weighted(rules[j], c)]
  <2>1. CanaryRules(c, rules) = w /\ w = [j \in 1..Len(rules) |-> w[j]]
    BY <1>2 DEF CanaryRules
  <2>2. Len(rules) \in Nat /\ ToSet(rules) = {rules[j] : j \in 1..Len(rules)}
    BY SeqMembers
  <2>3. \A j \in 1..Len(rules) : w[j] = Weighted(rules[j], c)
    OBVIOUS
  <2> HIDE DEF w
  <2>4. ToSet(w) = {w[j] : j \in 1..Len(rules)}
    BY <2>1, <2>2, FunctionIsSeq
  <2>5. new = {Weighted(rule, c) : rule \in ToSet(rules)}
    BY <2>1, <2>2, <2>3, <2>4
  <2> HIDE DEF new
  <2>6. ASSUME NEW rule \in ToSet(rules)
        PROVE  LET x == Weighted(rule, c)
               IN /\ IsBacked(x) /\ PrimaryService(x) = PrimaryService(rule)
                  /\ x.type = rule.type /\ x.path = rule.path /\ x.redirect = rule.redirect
    BY CanaryJoins
  <2>7. ASSUME NEW rule \in ToSet(rules)
        PROVE  /\ \A r : IsOfPath(rule, ing, r) => IsOfPath(Weighted(rule, c), ing, r)
               /\ \A r : IsSlashOf(rule, r) => IsSlashOf(Weighted(rule, c), r)
               /\ IsWhole(rule, ing) => IsWhole(Weighted(rule, c), ing)
    BY <2>6 DEF IsOfPath, IsSlashOf, IsWhole
  <2>8. ASSUME NEW rule \in ToSet(rules)  PROVE HasOrigin(Weighted(rule, c), ing)
    BY <2>7 DEF HasOrigin
  <2> QED
    BY <2>5, <2>6, <2>7, <2>8 DEF new
<1> QED
  BY <1>1, <1>2

-----------------------------------------------------------------------------
(* The invariant: origins. *)

\* The rules of a route have their origins in its Ingress, and leave none of its paths out.
Covers(ing, rules) ==
  /\ \A rule \in rules : IsBacked(rule) /\ HasOrigin(rule, ing)
  /\ \A r \in ToSet(ing.rules) :
       /\ \E rule \in rules : IsOfPath(rule, ing, r)
       /\ SlashRedirects(r) # <<>> => \E rule \in rules : IsSlashOf(rule, r)

LEMMA OriginsMeanTheSame ==
  ASSUME ingresses' = ingresses, opts' = opts, hostRegex' = hostRegex
  PROVE  \A ing, rules : Covers(ing, rules)' = Covers(ing, rules)
<1>1. \A ing, host : IsForced(ing, host)' = IsForced(ing, host)
  BY DEF IsForced
<1>2. \A rule, ing, r : IsOfPath(rule, ing, r)' = IsOfPath(rule, ing, r)
  BY <1>1 DEF IsOfPath
<1>3. \A r : (SlashRedirects(r) # <<>>)' = (SlashRedirects(r) # <<>>)
  BY DEF SlashRedirects
<1>4. \A rule, r : IsSlashOf(rule, r)' = IsSlashOf(rule, r)
  BY <1>3 DEF IsSlashOf
<1>5. \A rule, ing : IsWhole(rule, ing)' = IsWhole(rule, ing)
  BY DEF IsWhole
<1>6. \A rule, ing : HasOrigin(rule, ing)' = HasOrigin(rule, ing)
  BY <1>2, <1>4, <1>5 DEF HasOrigin
<1> QED
  BY <1>2, <1>3, <1>4, <1>6 DEF Covers

LEMMA OriginsByRoute ==
  OriginsFit = \A i \in 1..Len(built) : Covers(built[i], ToSet(bundle.routes[i].rules))
BY DEF OriginsFit, Covers

LEMMA OriginsUntouched ==
  ASSUME OriginsFit, UNCHANGED <<ingresses, opts, hostRegex, built>>,
         \A i \in 1..Len(built) : bundle'.routes[i].rules = bundle.routes[i].rules
  PROVE  OriginsFit'
<1>1. \A i \in 1..Len(built) : Covers(built[i], ToSet(bundle'.routes[i].rules))
  BY OriginsByRoute
<1>2. \A i \in 1..Len(built') : Covers(built[i], ToSet(bundle.routes[i].rules))'
  BY <1>1, OriginsMeanTheSame
<1> QED
  BY <1>2 DEF OriginsFit, Covers

LEMMA NoOriginsYet ==
  ASSUME built' = <<>>
  PROVE  OriginsFit'
<1>1. Len(built') = 0
  OBVIOUS
<1> QED
  BY <1>1 DEF OriginsFit

LEMMA BuildRouteKeepsOrigins == Fits /\ OriginsFit /\ BuildRoute => OriginsFit'
<1> SUFFICES ASSUME Fits, OriginsFit, BuildRoute  PROVE OriginsFit'
  OBVIOUS
<1> DEFINE ing == Head(todo)
           n   == Len(built) + 1
<1>1. /\ IsIngress(ing) /\ Len(built') = n /\ Len(built) \in Nat /\ built'[n] = ing
      /\ UNCHANGED <<ingresses, opts, hostRegex>>
      /\ \A i \in 1..Len(built) : built'[i] = built[i]
      /\ bundle'.routes[n].rules = RulesOf(ing)
      /\ \A i \in 1..Len(built) : bundle'.routes[i].rules = bundle.routes[i].rules
  BY NextRoute
<1>2. Covers(ing, ToSet(RulesOf(ing)))
  BY <1>1, OriginsOfNewRules DEF Covers
<1>3. \A i \in 1..Len(built) : Covers(built[i], ToSet(bundle.routes[i].rules))
  BY DEF Covers, OriginsFit
<1> HIDE DEF ing
<1>4. ASSUME NEW i \in 1..Len(built')  PROVE Covers(built'[i], ToSet(bundle'.routes[i].rules))
  <2>1. i = n \/ i \in 1..Len(built)
    BY <1>1
  <2> HIDE DEF n
  <2> QED
    BY <1>1, <1>2, <1>3, <2>1
<1>5. \A i \in 1..Len(built') : Covers(built[i], ToSet(bundle.routes[i].rules))'
  BY <1>1, <1>4, OriginsMeanTheSame
<1> QED
  BY <1>5 DEF OriginsFit, Covers

LEMMA ApplyCanaryKeepsOrigins == Fits /\ RulesInv /\ OriginsFit /\ ApplyCanary => OriginsFit'
<1> SUFFICES ASSUME Fits, RulesInv, OriginsFit, ApplyCanary  PROVE OriginsFit'
  OBVIOUS
<1> DEFINE c     == Head(canaries)
           rules == bundle.routes[1].rules
           C     == {ing \in ToSet(ingresses) : ing.canary}
<1>1. stage = "merge" /\ canaries # <<>> /\ UNCHANGED <<ingresses, opts, hostRegex, built>>
  BY DEF ApplyCanary
<1>2. /\ bundle'.routes[1].rules = CanaryRules(c, rules)
      /\ \A i \in 1..Len(built) : i # 1 => bundle'.routes[i].rules = bundle.routes[i].rules
      /\ IsSeq(rules) /\ \A rule \in ToSet(rules) : IsRule(rule)
  BY CanaryStep
<1>3. c \in C
  <2>1. canaries \in Seq(C)
    BY DEF RulesInv
  <2> HIDE DEF C
  <2> QED
    BY <1>1, <2>1
<1>4. c \in ToSet(ingresses) /\ c.canary /\ IsIngress(c)
  <2>1. session # <<>>
    BY <1>1 DEF Fits, CommandFits
  <2> QED
    BY <1>3, <2>1, RunningCommand DEF Fits
<1>5. 1 \in 1..Len(built)
  BY <1>1 DEF Fits, PipelineFits
<1>6. \A i \in 1..Len(built) : Covers(built[i], ToSet(bundle.routes[i].rules))
  BY DEF Covers, OriginsFit
<1> HIDE DEF c, rules
<1>7. Covers(built[1], ToSet(CanaryRules(c, rules)))
  <2>1. Covers(built[1], ToSet(rules))
    BY <1>5, <1>6 DEF rules
  <2>2. LET new == ToSet(CanaryRules(c, rules))
        IN /\ \A rule \in new : IsBacked(rule) /\ HasOrigin(rule, built[1])
           /\ \A r : \A rule \in ToSet(rules) :
                /\ IsOfPath(rule, built[1], r) => \E other \in new : IsOfPath(other, built[1], r)
                /\ IsSlashOf(rule, r) => \E other \in new : IsSlashOf(other, r)
    BY <1>2, <1>4, <2>1, CanaryKeepsOrigins DEF Covers
  <2> QED
    BY <2>1, <2>2 DEF Covers
<1>8. \A i \in 1..Len(built) : Covers(built[i], ToSet(bundle'.routes[i].rules))
  BY <1>2, <1>6, <1>7
<1>9. \A i \in 1..Len(built') : Covers(built[i], ToSet(bundle.routes[i].rules))'
  BY <1>1, <1>8, OriginsMeanTheSame
<1> QED
  BY <1>9 DEF OriginsFit, Covers

LEMMA FinalizeIRRules ==
  ASSUME Fits, FinalizeIR
  PROVE  /\ bundle'.routes = bundle.routes /\ bundle'.policies = bundle.policies
         /\ bundle'.certificates = bundle.certificates
<1> DEFINE b  == bundle
           fs == b.findings \cup quirks
<1>1. bundle' = [b EXCEPT !.findings = fs]
  BY DEF FinalizeIR
<1>2. b = [gateways |-> b.gateways, routes |-> b.routes, policies |-> b.policies,
           certificates |-> b.certificates, findings |-> b.findings]
  BY DEF Fits, BundleFits
<1> HIDE DEF b, fs
<1>3. bundle'.routes = b.routes /\ bundle'.policies = b.policies /\ bundle'.certificates = b.certificates
  BY <1>1, <1>2
<1> QED
  BY <1>3 DEF b

LEMMA NextOrigins ==
  ASSUME Fits, RulesInv, OriginsFit, hostRegex \subseteq ForcedHosts, [EmissionNext]_emissionVars
  PROVE  OriginsFit' /\ hostRegex' \subseteq ForcedHosts'
<1>1. ASSUME EndCommand  PROVE OriginsFit' /\ hostRegex' \subseteq ForcedHosts'
  <2>1. built' = <<>> /\ hostRegex' = {}
    BY <1>1 DEF EndCommand
  <2> QED
    BY <2>1, NoOriginsYet
<1>2. ingresses' = ingresses => ForcedHosts' = ForcedHosts
  BY QuirksStay
<1>3. CASE FromIngress \/ SplitCanaries
  <2>1. built' = <<>> /\ UNCHANGED <<ingresses, hostRegex>>
    BY <1>3 DEF FromIngress, SplitCanaries, Fits, PipelineFits
  <2> QED
    BY <1>2, <2>1, NoOriginsYet
<1>4. CASE Analyze
  <2>1. built' = <<>> /\ ingresses' = ingresses /\ hostRegex' = ForcedHosts
    BY <1>4 DEF Analyze, Fits, PipelineFits
  <2> QED
    BY <1>2, <2>1, NoOriginsYet
<1>5. CASE BuildRoute
  <2>1. UNCHANGED <<ingresses, hostRegex>>
    BY <1>5 DEF BuildRoute
  <2> QED
    BY <1>2, <1>5, <2>1, BuildRouteKeepsOrigins
<1>6. CASE ApplyCanary
  <2>1. UNCHANGED <<ingresses, hostRegex>>
    BY <1>6 DEF ApplyCanary
  <2> QED
    BY <1>2, <1>6, <2>1, ApplyCanaryKeepsOrigins
<1>7. CASE FinalizeIR
  <2>1. UNCHANGED <<ingresses, opts, hostRegex, built>>
    BY <1>7 DEF FinalizeIR
  <2> QED
    BY <1>2, <1>7, <2>1, FinalizeIRRules, OriginsUntouched
<1>8. CASE ApplyDualRunMode
  BY <1>2, <1>8, DualRunRules, OriginsUntouched
<1>9. CASE Emit
  <2>1. UNCHANGED <<ingresses, opts, hostRegex, built, bundle>>
    BY <1>9 DEF Emit, EmitYAML
  <2> QED
    BY <1>2, <2>1, OriginsUntouched
<1>10. CASE Validate \/ KubectlApply
  BY <1>1, <1>10 DEF Validate, KubectlApply
<1>11. CASE UNCHANGED emissionVars
  <2>1. UNCHANGED <<ingresses, opts, hostRegex, built, bundle>>
    BY <1>11 DEF emissionVars, vars
  <2> QED
    BY <1>2, <2>1, OriginsUntouched
<1> QED
  BY <1>3, <1>4, <1>5, <1>6, <1>7, <1>8, <1>9, <1>10, <1>11 DEF EmissionNext, Convert

-----------------------------------------------------------------------------
(* The invariant: what validate has passed. *)

\* validate takes no flag, and looks at every Ingress.
LEMMA ValidateOptions ==
  ASSUME Fits, session # <<>>, Command = "validate"
  PROVE  opts.entry = "FromIngress" /\ ~opts.preserve
<1>1. IsCommand(Head(session)) /\ opts = Effective(Head(session))
  BY RunningCommand DEF Fits
<1>2. opts = Head(session).opts
  BY <1>1 DEF Effective, Command
<1> QED
  BY <1>1, <1>2 DEF IsCommand, Command

LEMMA PassedNeeds ==
  ASSUME Fits, OriginsFit, ChecksFit, stage = "emit", Command = "validate",
         ValidateBundle(bundle, opts.provider), NEW ing \in ToSet(ingresses)
  PROVE  Needs(ing) \subseteq Supported(opts.provider) \cup Noted(opts.provider)
<1> DEFINE F == DetectFeatures(bundle.routes, bundle.policies)
<1>1. F \subseteq Supported(opts.provider) \cup Noted(opts.provider)
  BY DEF ValidateBundle
<1>2. session # <<>> /\ todo = <<>>
  BY DEF Fits, CommandFits, PipelineFits
<1>3. opts.entry = "FromIngress" /\ ~opts.preserve
  BY <1>2, ValidateOptions
<1>4. ing \in ToSet(built)
  <2>1. ToSet(<<>>) = {}
    BY ShortSeqs
  <2> QED
    BY <1>2, <1>3, <2>1 DEF ChecksFit
<1>5. PICK i \in 1..Len(built) : built[i] = ing
  <2>1. IsSeq(built)
    BY BuiltFromIngresses DEF IsSeq
  <2> QED
    BY <1>4, <2>1, SeqMembers
<1>6. ASSUME ing.regex, NEW r \in ToSet(ing.rules), r.type \notin {"Exact", "Prefix"}
      PROVE  "RegexPath" \in F
  <2>1. PICK rule \in ToSet(bundle.routes[i].rules) : IsOfPath(rule, ing, r)
    BY <1>5, <1>6 DEF OriginsFit
  <2>2. rule.type = "RegularExpression"
    BY <1>3, <1>6, <2>1 DEF IsOfPath, IsForced, Lowered
  <2>3. "RegexPath" \in FeaturesOfRule(rule)
    BY <2>2 DEF FeaturesOfRule
  <2>4. bundle.routes[i] \in ToSet(bundle.routes)
    BY <1>5, NodesOfBundle, SeqMembers
  <2> QED
    BY <2>1, <2>3, <2>4 DEF DetectFeatures
<1>7. ASSUME "affinity" \in ing.annotations  PROVE "SessionPersistence" \in F
  <2>1. \E p \in ToSet(bundle.policies) : p.kind = "SessionAffinity"
    BY <1>4, <1>7 DEF ChecksFit
  <2> QED
    BY <2>1 DEF DetectFeatures
<1> HIDE DEF F
<1> QED
  BY <1>1, <1>6, <1>7 DEF Needs

LEMMA CanaryPolicies ==
  ASSUME Fits, ApplyCanary
  PROVE  bundle'.policies = bundle.policies /\ bundle'.certificates = bundle.certificates
<1> DEFINE b  == bundle
           rs == [b.routes EXCEPT ![1].rules = CanaryRules(Head(canaries), b.routes[1].rules)]
           fs == b.findings \cup {Finding("canary.merge", built[1])}
<1>1. bundle' = [b EXCEPT !.routes = rs, !.findings = fs]
  BY DEF ApplyCanary, CanaryRules
<1>2. b = [gateways |-> b.gateways, routes |-> b.routes, policies |-> b.policies,
           certificates |-> b.certificates, findings |-> b.findings]
  BY DEF Fits, BundleFits
<1> HIDE DEF b, rs, fs
<1>3. bundle'.policies = b.policies /\ bundle'.certificates = b.certificates
  BY <1>1, <1>2
<1> QED
  BY <1>3 DEF b

\* A dual run changes the target of a policy and nothing else.
LEMMA StagedPolicyFields ==
  ASSUME NEW p \in PoliciesOfBuilt, NEW staging
  PROVE  LET q == StagedPolicy(p, staging)
         IN q.kind = p.kind /\ q.name = p.name /\ q.ns = p.ns /\ q.crd = p.crd
<1>1. PICK ing \in ToSet(built) : \E k \in ToSet(PolicyKeys) \cap ing.annotations :
        p = [PolicyOf(ing, k, opts.provider) EXCEPT !.target = TargetOf(ing)]
  BY DEF PoliciesOfBuilt
<1>2. PICK k : p = [PolicyOf(ing, k, opts.provider) EXCEPT !.target = TargetOf(ing)]
  BY <1>1
<1> DEFINE o == PolicyOf(ing, k, opts.provider)
           t == TargetOf(ing)
           u == Retargeted(p.target, staging)
<1>3. o = [name |-> o.name, ns |-> o.ns, kind |-> o.kind, group |-> o.group, crd |-> o.crd,
           target |-> o.target, settings |-> o.settings]
  BY DEF PolicyOf
<1>4. p = [o EXCEPT !.target = t] /\ StagedPolicy(p, staging) = [p EXCEPT !.target = u]
  BY <1>2 DEF StagedPolicy
<1> HIDE DEF o, t, u
<1>5. p = [name |-> o.name, ns |-> o.ns, kind |-> o.kind, group |-> o.group, crd |-> o.crd,
           target |-> t, settings |-> o.settings]
  BY <1>3, <1>4
<1> DEFINE q == StagedPolicy(p, staging)
<1> HIDE DEF q
<1>6. q = [name |-> o.name, ns |-> o.ns, kind |-> o.kind, group |-> o.group, crd |-> o.crd,
           target |-> u, settings |-> o.settings]
  <2>1. q = [p EXCEPT !.target = u]
    BY <1>4 DEF q
  <2> QED
    BY <1>5, <2>1
<1>7. q.kind = p.kind /\ q.name = p.name /\ q.ns = p.ns /\ q.crd = p.crd
  BY <1>5, <1>6
<1> QED
  BY <1>7 DEF q

\* What is there of ChecksFit as long as the command goes on.
LEMMA ChecksUntouched ==
  ASSUME ChecksFit, UNCHANGED <<ingresses, opts, validated, built, todo>>,
         stage \in {"build", "merge", "emit", "done"} \/ stage' = stage,
         (\E p \in ToSet(bundle.policies) : p.kind = "SessionAffinity")
           => \E p \in ToSet(bundle'.policies) : p.kind = "SessionAffinity"
  PROVE  ChecksFit'
<1>1. \A ing : Needs(ing)' = Needs(ing)
  BY DEF Needs
<1> QED
  BY <1>1 DEF ChecksFit

LEMMA NothingToCheck ==
  ASSUME ChecksFit, built' = <<>>, validated' = validated,
         opts'.entry = "FromIngress" /\ stage' \in {"build", "merge", "emit", "done"}
           => todo' = ingresses'
  PROVE  ChecksFit'
<1>1. ToSet(built') = {}
  BY ShortSeqs
<1>2. \A ing : Needs(ing)' = Needs(ing)
  BY DEF Needs
<1> QED
  BY <1>1, <1>2 DEF ChecksFit

LEMMA BuildRouteKeepsChecks == Fits /\ ChecksFit /\ BuildRoute /\ UNCHANGED sessionVars => ChecksFit'
<1> SUFFICES ASSUME Fits, ChecksFit, BuildRoute, UNCHANGED sessionVars  PROVE ChecksFit'
  OBVIOUS
<1> DEFINE ing == Head(todo)
           qs  == bundle.policies
           new == PoliciesOf(ing, opts.provider)
<1>1. /\ stage = "build" /\ todo # <<>> /\ todo' = Tail(todo) /\ ToSet(built') = ToSet(built) \cup {ing}
      /\ UNCHANGED <<ingresses, opts>>
  BY NextRoute
<1>2. validated' = validated
  BY DEF sessionVars
<1>3. ToSet(todo) = {ing} \cup ToSet(Tail(todo))
  BY <1>1, HeadAndTail, SeqIsSeq DEF Fits, PipelineFits
<1>4. bundle'.policies = qs \o new
  BY DEF BuildRoute
<1>5. ToSet(qs \o new) = ToSet(qs) \cup ToSet(new)
  <2>1. IsSeq(qs)
    BY SeqIsSeq DEF Fits, BundleFits, PoliciesFit
  <2>2. IsSeq(new)
    <3>1. \E S : new \in Seq(S)
      BY PoliciesOfType
    <3> HIDE DEF new
    <3> QED
      BY <3>1, SeqIsSeq
  <2> HIDE DEF qs, new
  <2> QED
    BY <2>1, <2>2, ConcatMembers
<1>6. ASSUME NEW i \in ToSet(built'), "affinity" \in i.annotations
      PROVE  \E p \in ToSet(bundle'.policies) : p.kind = "SessionAffinity"
  <2>1. CASE i \in ToSet(built)
    BY <1>4, <1>5, <1>6, <2>1 DEF ChecksFit
  <2>2. CASE i = ing
    <3>1. \E p \in ToSet(new) : p.kind = "SessionAffinity"
      BY <1>6, <2>2, AffinityPolicies
    <3> QED
      BY <1>4, <1>5, <3>1
  <2> QED
    BY <1>1, <1>6, <2>1, <2>2
<1>7. \A i : Needs(i)' = Needs(i)
  BY DEF Needs
<1>8. opts.entry = "FromIngress" => ToSet(ingresses) \subseteq ToSet(built') \cup ToSet(todo')
  BY <1>1, <1>3 DEF ChecksFit
<1> QED
  BY <1>1, <1>2, <1>6, <1>7, <1>8 DEF ChecksFit

LEMMA ApplyDualRunModeKeepsChecks == Fits /\ ChecksFit /\ ApplyDualRunMode => ChecksFit'
<1> SUFFICES ASSUME Fits, ChecksFit, ApplyDualRunMode  PROVE ChecksFit'
  OBVIOUS
<1> DEFINE S  == StagingName(bundle)
           qs == bundle.policies
           ps == [i \in 1..Len(qs) |-> StagedPolicy(qs[i], S)]
<1>1. /\ bundle' = Staged(bundle)
      /\ UNCHANGED <<ingresses, opts, stage, built, todo, validated>>
  BY DEF ApplyDualRunMode, sessionVars
<1>2. bundle'.policies = ps
  BY <1>1 DEF Staged
<1>3. ASSUME NEW p \in ToSet(qs), p.kind = "SessionAffinity"
      PROVE  \E q \in ToSet(ps) : q.kind = "SessionAffinity"
  <2>1. qs \in Seq(PoliciesOfBuilt)
    BY DEF Fits, BundleFits, PoliciesFit
  <2>2. PICK i \in 1..Len(qs) : qs[i] = p
    BY <2>1, SeqIsSeq, SeqMembers
  <2>3. p \in PoliciesOfBuilt
    BY <2>1, SeqIsSeq
  <2>4. StagedPolicy(p, S).kind = p.kind
    BY <2>3, StagedPolicyFields
  <2>5. ps = [k \in 1..Len(qs) |-> ps[k]] /\ ps[i] = StagedPolicy(p, S) /\ Len(qs) \in Nat
    BY <2>1, <2>2, SeqIsSeq
  <2> HIDE DEF ps, qs
  <2>6. ps[i] \in ToSet(ps)
    BY <2>5, FunctionIsSeq
  <2> QED
    BY <1>3, <2>4, <2>5, <2>6
<1> QED
  BY <1>1, <1>2, <1>3, ChecksUntouched

LEMMA NextChecks ==
  ASSUME Fits, OriginsFit, ChecksFit, [EmissionNext]_emissionVars
  PROVE  ChecksFit'
<1>1. ASSUME EndCommand, validated' = validated  PROVE ChecksFit'
  <2>1. built' = <<>> /\ stage' \in {"start", "end"}
    BY <1>1 DEF EndCommand
  <2> QED
    BY <1>1, <2>1, NothingToCheck
<1>2. CASE (FromIngress \/ Analyze \/ SplitCanaries) /\ UNCHANGED sessionVars
  <2>1. /\ built' = <<>> /\ UNCHANGED <<ingresses, opts, validated>>
        /\ opts.entry = "FromIngress" /\ stage' \in {"build", "merge", "emit", "done"} => todo' = ingresses
    BY <1>2 DEF FromIngress, Analyze, SplitCanaries, Fits, PipelineFits, sessionVars
  <2> QED
    BY <2>1, NothingToCheck
<1>3. CASE BuildRoute /\ UNCHANGED sessionVars
  BY <1>3, BuildRouteKeepsChecks
<1>4. CASE ApplyCanary /\ UNCHANGED sessionVars
  <2>1. UNCHANGED <<ingresses, opts, validated, built, todo, stage>>
    BY <1>4 DEF ApplyCanary, sessionVars
  <2>2. bundle'.policies = bundle.policies
    BY <1>4, CanaryPolicies
  <2> QED
    BY <2>1, <2>2, ChecksUntouched
<1>5. CASE FinalizeIR /\ UNCHANGED sessionVars
  <2>1. UNCHANGED <<ingresses, opts, validated, built, todo>> /\ stage = "merge"
    BY <1>5 DEF FinalizeIR, sessionVars
  <2> QED
    BY <1>5, <2>1, FinalizeIRRules, ChecksUntouched
<1>6. CASE ApplyDualRunMode
  BY <1>6, ApplyDualRunModeKeepsChecks
<1>7. CASE Emit
  <2>1. UNCHANGED <<ingresses, opts, validated, built, todo, bundle>> /\ stage = "emit"
    BY <1>7 DEF Emit, EmitYAML
  <2> QED
    BY <2>1, ChecksUntouched
<1>8. CASE Validate
  <2>1. stage = "emit" /\ Command = "validate" /\ EndCommand
    BY <1>8 DEF Validate
  <2>2. validated' = (IF ValidateBundle(bundle, opts.provider)
                      THEN validated \cup {<<ingresses, opts.provider>>} ELSE validated)
    BY <1>8 DEF Validate
  <2>3. ASSUME NEW v \in validated', NEW ing \in ToSet(v[1])
        PROVE  Needs(ing) \subseteq Supported(v[2]) \cup Noted(v[2])
    <3>1. CASE v \in validated
      BY <2>3, <3>1 DEF ChecksFit
    <3>2. CASE v = <<ingresses, opts.provider>> /\ ValidateBundle(bundle, opts.provider)
      BY <2>1, <2>3, <3>2, PassedNeeds
    <3> QED
      BY <2>2, <3>1, <3>2
  <2>4. ToSet(built') = {} /\ stage' \in {"start", "end"}
    BY <2>1, ShortSeqs DEF EndCommand
  <2>5. \A ing : Needs(ing)' = Needs(ing)
    BY DEF Needs
  <2> QED
    BY <2>3, <2>4, <2>5 DEF ChecksFit
<1>9. CASE KubectlApply
  BY <1>1, <1>9 DEF KubectlApply
<1>10. CASE UNCHANGED emissionVars
  <2>1. UNCHANGED <<ingresses, opts, validated, built, todo, bundle, stage>>
    BY <1>10 DEF emissionVars, vars, sessionVars
  <2> QED
    BY <2>1, ChecksUntouched
<1> QED
  BY <1>2, <1>3, <1>4, <1>5, <1>6, <1>7, <1>8, <1>9, <1>10 DEF EmissionNext, Convert

LEMMA InitOrigins == EmissionInit => OriginsInv
<1> SUFFICES ASSUME EmissionInit  PROVE OriginsInv
  OBVIOUS
<1>1. stage = "start" /\ built = <<>> /\ hostRegex = {} /\ validated = {}
  BY DEF EmissionInit
<1>2. Len(built) = 0 /\ ToSet(built) = {}
  BY <1>1, ShortSeqs
<1> QED
  BY <1>1, <1>2 DEF OriginsInv, OriginsFit, ChecksFit

LEMMA OriginsAlways == EmissionSpec => [](Fits /\ RulesInv /\ OriginsInv)
<1>1. EmissionInit => Fits /\ RulesInv /\ OriginsInv
  BY InitFits, InitRules, InitOrigins
<1>2. Fits /\ RulesInv /\ OriginsInv /\ [EmissionNext]_emissionVars => Fits' /\ RulesInv' /\ OriginsInv'
  BY NextFits, NextRules, NextOrigins, NextChecks DEF OriginsInv
<1> QED
  BY <1>1, <1>2, PTL DEF EmissionSpec

-----------------------------------------------------------------------------
(* What validate has passed. *)

LEMMA RouteDocumentRules ==
  ASSUME Fits, NEW i \in 1..Len(built), NEW rule \in ToSet(RouteDocument(bundle.routes[i]).body.rules)
  PROVE  \E r \in ToSet(bundle.routes[i].rules) : IsRule(r) /\ rule = Emitted(r)
<1> DEFINE u == bundle.routes[i].rules
           v == [j \in 1..Len(u) |-> Emitted(u[j])]
<1>1. RouteDocument(bundle.routes[i]).body.rules = v
  <2> DEFINE q == bundle.routes[i]
             a == q.source
             b == q.parent
             h == q.hostnames
  <2> HIDE DEF v
  <2>1. RouteDocument(q) = Document("HTTPRoute", q, [source |-> a, parent |-> b, hostnames |-> h, rules |-> v])
    BY DEF RouteDocument, v
  <2> HIDE DEF q, a, b, h
  <2>2. RouteDocument(q).body.rules = v
    BY <2>1 DEF Document
  <2> QED
    BY <2>2 DEF q
<1>2. IsSeq(u) /\ \A r \in ToSet(u) : IsRule(r)
  BY DEF Fits, BundleFits, RoutesFit
<1>3. Len(u) \in Nat /\ ToSet(u) = {u[j] : j \in 1..Len(u)}
  BY <1>2, SeqMembers
<1>4. v = [j \in 1..Len(u) |-> v[j]] /\ \A j \in 1..Len(u) : v[j] = Emitted(u[j])
  OBVIOUS
<1> HIDE DEF v
<1>5. ToSet(v) = {v[j] : j \in 1..Len(u)}
  BY <1>3, <1>4, FunctionIsSeq
<1>6. rule \in ToSet(v)
  BY <1>1
<1>7. PICK j \in 1..Len(u) : rule = v[j]
  BY <1>5, <1>6
<1>8. u[j] \in ToSet(u)
  BY <1>3
<1>9. IsRule(u[j]) /\ rule = Emitted(u[j])
  BY <1>2, <1>4, <1>7, <1>8
<1>10. u = bundle.routes[i].rules
  OBVIOUS
<1> HIDE DEF u
<1>11. \E r \in ToSet(u) : IsRule(r) /\ rule = Emitted(r)
  BY <1>8, <1>9
<1> QED
  BY <1>10, <1>11

\* A regular expression comes from a path of an Ingress that its host puts in regex mode.
LEMMA RegexOrigin ==
  ASSUME Fits, OriginsInv, NEW i \in 1..Len(built), NEW rule \in ToSet(bundle.routes[i].rules),
         rule.type = "RegularExpression", ~opts.preserve
  PROVE  \E r \in ToSet(built[i].rules) :
           r.type \notin {"Exact", "Prefix"} /\ (built[i].regex \/ HostKey(r.host) \in ForcedHosts)
<1>1. HasOrigin(rule, built[i])
  BY DEF OriginsInv, OriginsFit
<1>2. PICK r \in ToSet(built[i].rules) : IsOfPath(rule, built[i], r)
  BY <1>1 DEF HasOrigin, IsWhole, IsSlashOf
<1>3. Lowered(r, IsForced(built[i], r.host)) = "RegularExpression"
  BY <1>2 DEF IsOfPath
<1>4. r.type \notin {"Exact", "Prefix"} /\ IsForced(built[i], r.host)
  BY <1>3 DEF Lowered
<1> QED
  BY <1>4 DEF IsForced, OriginsInv

\* A policy of a bundle is called after an Ingress and an adapter.
LEMMA PolicyOrigin ==
  ASSUME NEW p \in PoliciesOfBuilt
  PROVE  \E ing \in ToSet(built) : \E k \in ToSet(PolicyKeys) \cap ing.annotations :
           /\ p.name = ing.name \o Adapter(k).suffix /\ p.ns = ing.ns
           /\ p.settings = Settings(k, ing.annotations, opts.provider)
<1>1. PICK ing \in ToSet(built) : \E k \in ToSet(PolicyKeys) \cap ing.annotations :
        p = [PolicyOf(ing, k, opts.provider) EXCEPT !.target = TargetOf(ing)]
  BY DEF PoliciesOfBuilt
<1>2. PICK k \in ToSet(PolicyKeys) \cap ing.annotations :
        p = [PolicyOf(ing, k, opts.provider) EXCEPT !.target = TargetOf(ing)]
  BY <1>1
<1> DEFINE o == PolicyOf(ing, k, opts.provider)
           t == TargetOf(ing)
<1>3. /\ o = [name |-> o.name, ns |-> o.ns, kind |-> o.kind, group |-> o.group, crd |-> o.crd,
              target |-> o.target, settings |-> o.settings]
      /\ o.name = ing.name \o Adapter(k).suffix /\ o.ns = ing.ns
      /\ o.settings = Settings(k, ing.annotations, opts.provider)
  BY DEF PolicyOf
<1> HIDE DEF t
<1>4. p = [o EXCEPT !.target = t]
  BY <1>2 DEF t
<1> HIDE DEF o
<1>5. p = [name |-> o.name, ns |-> o.ns, kind |-> o.kind, group |-> o.group, crd |-> o.crd,
           target |-> t, settings |-> o.settings]
  BY <1>3, <1>4
<1>6. p.name = o.name /\ p.ns = o.ns /\ p.settings = o.settings
  BY <1>5
<1> QED
  BY <1>3, <1>6

LEMMA EmittedPolicyOrigin ==
  ASSUME Fits, NEW p \in ToSet(EmittedPolicies)
  PROVE  \E ing \in ToSet(built) : \E k \in ToSet(PolicyKeys) \cap ing.annotations :
           /\ p.name = ing.name \o Adapter(k).suffix /\ p.ns = ing.ns
           /\ p.settings = Settings(k, ing.annotations, opts.provider)
<1> DEFINE pols == IF opts.skipExtensions THEN WithoutExtensions(bundle.policies) ELSE bundle.policies
           E    == {q \in ToSet(pols) : IsEmitted(q)}
<1>1. pols \in Seq(PoliciesOfBuilt)
  BY WithoutExtensionsType DEF Fits, BundleFits, PoliciesFit
<1>2. EmittedPolicies = Kept(pols, E)
  BY DEF EmittedPolicies
<1> HIDE DEF pols, E
<1>3. EmittedPolicies \in Seq(PoliciesOfBuilt \cap E)
  BY <1>1, <1>2, KeptType
<1>4. p \in PoliciesOfBuilt
  BY <1>3, SeqIsSeq
<1> QED
  BY <1>4, PolicyOrigin

\* Only a policy of an Ingress with the affinity annotation asks for sticky sessions.
LEMMA AffinityOrigin ==
  ASSUME Fits, NEW p \in ToSet(EmittedPolicies), Sanitized(p) \cap {"affinity", "loadBalancer"} # {}
  PROVE  \E ing \in ToSet(built) : "affinity" \in ing.annotations
<1>1. Sanitized(p) \subseteq p.settings
  BY DEF Sanitized
<1>2. PICK ing \in ToSet(built) : \E k \in ToSet(PolicyKeys) \cap ing.annotations :
        p.settings = Settings(k, ing.annotations, opts.provider)
  BY EmittedPolicyOrigin
<1>3. opts.provider \in Providers
  BY BuiltFromIngresses
<1> QED
  BY <1>1, <1>2, <1>3, AffinitySettings

LEMMA ValidationOfDocuments == Fits /\ OriginsInv => ValidatedFeaturesAreSupported
<1> SUFFICES ASSUME Fits, OriginsInv, Done, Command = "convert", <<ingresses, opts.provider>> \in validated,
                    ~opts.preserve,
                    \A ing \in ToSet(ingresses) : HostsOf(ing) \cap ForcedHosts # {} => ing.regex,
                    NEW f \in FeaturesOfDocuments
             PROVE  f \in Supported(opts.provider) \cup Noted(opts.provider)
  BY DEF ValidatedFeaturesAreSupported
<1>1. \A ing \in ToSet(ingresses) : Needs(ing) \subseteq Supported(opts.provider) \cup Noted(opts.provider)
  BY DEF OriginsInv, ChecksFit
<1>2. ToSet(built) \subseteq ToSet(ingresses) /\ Len(bundle.routes) = Len(built)
      /\ \A i \in 1..Len(built) : built[i] \in ToSet(built)
  BY NodesOfBundle, BuiltFromIngresses, SeqIsSeq DEF Fits, PipelineFits
<1>3. Core \subseteq Supported(opts.provider)
  BY DEF Supported
<1>4. CASE \E d \in DocumentsOf({"HTTPRoute"}) : \E rule \in ToSet(d.body.rules) : f \in FeaturesOfRule(rule)
  <2>1. PICK d \in DocumentsOf({"HTTPRoute"}) : \E rule \in ToSet(d.body.rules) : f \in FeaturesOfRule(rule)
    BY <1>4
  <2>2. PICK i \in 1..Len(built) : d = RouteDocument(bundle.routes[i])
    BY <1>2, DocumentsByKind DEF Done
  <2>3. PICK rule \in ToSet(d.body.rules) : f \in FeaturesOfRule(rule)
    BY <2>1
  <2>4. PICK r \in ToSet(bundle.routes[i].rules) : IsRule(r) /\ rule = Emitted(r)
    BY <2>2, <2>3, RouteDocumentRules
  <2>5. CASE f # "RegexPath"
    <3>1. f \in Core
      BY <2>3, <2>5 DEF FeaturesOfRule, FeatureOfFilter, Core
    <3> QED
      BY <1>3, <3>1
  <2>6. CASE f = "RegexPath"
    <3>1. rule.type = "RegularExpression"
      BY <2>3, <2>6 DEF FeaturesOfRule, FeatureOfFilter
    <3>2. r.type = "RegularExpression"
      BY <2>4, <3>1, EmittedRuleFields
    <3>3. PICK s \in ToSet(built[i].rules) :
            s.type \notin {"Exact", "Prefix"} /\ (built[i].regex \/ HostKey(s.host) \in ForcedHosts)
      BY <2>4, <3>2, RegexOrigin
    <3>4. IsIngress(built[i]) /\ built[i] \in ToSet(ingresses)
      BY <1>2, BuiltFromIngresses
    <3>5. HostKey(s.host) \in HostsOf(built[i])
      <4>1. built[i].rules # <<>>
        BY <3>3, ShortSeqs
      <4> QED
        BY <4>1 DEF HostsOf
    <3>6. built[i].regex
      BY <3>3, <3>4, <3>5
    <3>7. "RegexPath" \in Needs(built[i])
      BY <3>3, <3>6 DEF Needs
    <3> QED
      BY <1>1, <2>6, <3>4, <3>7
  <2> QED
    BY <2>5, <2>6
<1>5. CASE /\ f = "SessionPersistence"
           /\ \E d \in DocumentsOf({"SessionAffinityPolicy", "BackendTrafficPolicy"}) :
                d.body.settings \cap {"affinity", "loadBalancer"} # {}
  <2>1. PICK d \in DocumentsOf({"SessionAffinityPolicy", "BackendTrafficPolicy"}) :
          d.body.settings \cap {"affinity", "loadBalancer"} # {}
    BY <1>5
  <2>2. d \in DocumentsOf(PolicyKinds)
    <3>1. {"SessionAffinityPolicy", "BackendTrafficPolicy"} \subseteq PolicyKinds
      BY DEF PolicyKinds
    <3> QED
      BY <3>1 DEF DocumentsOf
  <2>3. PICK p \in ToSet(EmittedPolicies) : d = PolicyDocument(p)
    BY <2>2, DocumentsByKind DEF Done
  <2>4. Sanitized(p) \cap {"affinity", "loadBalancer"} # {}
    BY <2>1, <2>3, DocumentKeys
  <2>5. PICK ing \in ToSet(built) : "affinity" \in ing.annotations
    BY <2>4, AffinityOrigin
  <2>6. "SessionPersistence" \in Needs(ing)
    BY <2>5 DEF Needs
  <2> QED
    BY <1>1, <1>2, <1>5, <2>6
<1> QED
  BY <1>4, <1>5 DEF FeaturesOfDocuments

-----------------------------------------------------------------------------
(* Which rule answers. *)

\* An emitted rule has the origin of the rule it was made of.
LEMMA EmittedKeepsOrigin ==
  ASSUME NEW rule, IsRule(rule), NEW ing
  PROVE  /\ HasOrigin(rule, ing) => HasOrigin(Emitted(rule), ing)
         /\ \A r : IsOfPath(rule, ing, r) => IsOfPath(Emitted(rule), ing, r)
         /\ \A r : IsSlashOf(rule, r) => IsSlashOf(Emitted(rule), r)
<1> DEFINE e == Emitted(rule)
<1>1. e.type = rule.type /\ e.path = rule.path /\ e.redirect = rule.redirect
      /\ PrimaryService(e) = PrimaryService(rule)
  BY EmittedRuleFields DEF PrimaryService
<1> HIDE DEF e
<1>2. \A r : IsOfPath(rule, ing, r) => IsOfPath(e, ing, r)
  BY <1>1 DEF IsOfPath
<1>3. \A r : IsSlashOf(rule, r) => IsSlashOf(e, r)
  BY <1>1 DEF IsSlashOf
<1>4. IsWhole(rule, ing) => IsWhole(e, ing)
  BY <1>1 DEF IsWhole
<1> QED
  BY <1>2, <1>3, <1>4 DEF HasOrigin, e

LEMMA RulesOfManifests ==
  ASSUME Fits, OriginsInv, Done, NEW i \in 1..Len(built)
  PROVE  /\ Len(manifests) = Len(built) /\ Len(manifests[i].rules) \in Nat
         /\ \A j \in 1..Len(manifests[i].rules) : HasOrigin(RuleAt(i, j), built[i])
         /\ \A r \in ToSet(built[i].rules) :
              /\ \E j \in 1..Len(manifests[i].rules) : IsOfPath(RuleAt(i, j), built[i], r)
              /\ SlashRedirects(r) # <<>> =>
                   \E j \in 1..Len(manifests[i].rules) : IsSlashOf(RuleAt(i, j), r)
<1> DEFINE R == ToSet(bundle.routes[i].rules)
           m == manifests[i].rules
<1>1. /\ Len(manifests) = Len(built) /\ IsSeq(m) /\ ToSet(m) = {Emitted(rule) : rule \in R}
      /\ \A rule \in R : IsRule(rule)
  BY EmittedRules
<1>2. /\ \A rule \in R : HasOrigin(rule, built[i])
      /\ \A r \in ToSet(built[i].rules) :
           /\ \E rule \in R : IsOfPath(rule, built[i], r)
           /\ SlashRedirects(r) # <<>> => \E rule \in R : IsSlashOf(rule, r)
  BY DEF OriginsInv, OriginsFit
<1>3. \A j : RuleAt(i, j) = m[j]
  BY DEF RuleAt
<1> HIDE DEF R, m
<1>4. Len(m) \in Nat /\ ToSet(m) = {m[j] : j \in 1..Len(m)}
  BY <1>1, SeqMembers
<1>5. ASSUME NEW rule \in R
      PROVE  \E j \in 1..Len(m) : m[j] = Emitted(rule)
  BY <1>1, <1>4
<1>6. ASSUME NEW j \in 1..Len(m)
      PROVE  HasOrigin(m[j], built[i])
  <2>1. PICK rule \in R : m[j] = Emitted(rule)
    BY <1>1, <1>4
  <2> QED
    BY <1>1, <1>2, <2>1, EmittedKeepsOrigin
<1>7. ASSUME NEW r \in ToSet(built[i].rules)
      PROVE  /\ \E j \in 1..Len(m) : IsOfPath(m[j], built[i], r)
             /\ SlashRedirects(r) # <<>> => \E j \in 1..Len(m) : IsSlashOf(m[j], r)
  <2>1. \E j \in 1..Len(m) : IsOfPath(m[j], built[i], r)
    <3>1. PICK rule \in R : IsOfPath(rule, built[i], r)
      BY <1>2
    <3> QED
      BY <1>1, <1>5, <3>1, EmittedKeepsOrigin
  <2>2. ASSUME SlashRedirects(r) # <<>>
        PROVE  \E j \in 1..Len(m) : IsSlashOf(m[j], r)
    <3>1. PICK rule \in R : IsSlashOf(rule, r)
      BY <1>2, <2>2
    <3> QED
      BY <1>1, <1>5, <3>1, EmittedKeepsOrigin
  <2> QED
    BY <2>1, <2>2
<1> QED
  BY <1>1, <1>3, <1>4, <1>6, <1>7 DEF m

\* The rules of the routes that are attached and have the host, where they match.
LEMMA CandidateRules ==
  ASSUME NEW host, NEW path
  PROVE  /\ \A i \in 1..Len(manifests) : \A j \in 1..Len(manifests[i].rules) :
              /\ Attached(i, host)
              /\ manifests[i].hostnames = <<>> \/ host \in ToSet(manifests[i].hostnames)
              /\ PathMatches(RuleAt(i, j), path)
              => <<i, j>> \in Candidates(host, path)
         /\ \A c \in Candidates(host, path) :
              /\ c[1] \in 1..Len(manifests) /\ c[2] \in 1..Len(manifests[c[1]].rules) /\ c = <<c[1], c[2]>>
              /\ manifests[c[1]].hostnames = <<>> \/ host \in ToSet(manifests[c[1]].hostnames)
              /\ PathMatches(RuleAt(c[1], c[2]), path)
<1> DEFINE U == UNION {{i} \X (1..Len(manifests[i].rules)) : i \in 1..Len(manifests)}
<1>1. \A i \in 1..Len(manifests) : \A j \in 1..Len(manifests[i].rules) : <<i, j>> \in U
  OBVIOUS
<1>2. \A c \in U : /\ c[1] \in 1..Len(manifests) /\ c[2] \in 1..Len(manifests[c[1]].rules)
                   /\ c = <<c[1], c[2]>>
  OBVIOUS
<1>3. Candidates(host, path) =
        {c \in U : /\ Attached(c[1], host)
                   /\ manifests[c[1]].hostnames = <<>> \/ host \in ToSet(manifests[c[1]].hostnames)
                   /\ PathMatches(RuleAt(c[1], c[2]), path)}
  BY DEF Candidates
<1> HIDE DEF U
<1> QED
  BY <1>1, <1>2, <1>3

\* A path with a host of its own is a candidate where the host is listened to.
LEMMA HostsOfManifests ==
  ASSUME Fits, OriginsInv, Done, NEW i \in 1..Len(built), NEW r \in ToSet(built[i].rules),
         r.host # "", ListenedTo(r.host)
  PROVE  /\ i \in 1..Len(manifests) /\ manifests[i].hostnames # <<>>
         /\ Attached(i, r.host) /\ r.host \in ToSet(manifests[i].hostnames)
<1>1. IsIngress(built[i])
  BY BuiltFromIngresses
<1>2. r.host \in HostSet(built[i])
  BY DEF HostSet
<1>3. /\ i \in 1..Len(manifests) /\ manifests[i].hostnames = CollectHostnames(built[i])
  BY EmittedRules
<1>4. r.host \in ToSet(manifests[i].hostnames)
  BY <1>1, <1>2, <1>3, Hostnames
<1> QED
  BY <1>3, <1>4, ShortSeqs DEF ListenedTo

LEMMA SlashRedirectsAnswer == Fits /\ OriginsInv => SlashRedirectsFire
<1> SUFFICES ASSUME Fits, OriginsInv, Done, opts.slashes,
                    NEW i \in 1..Len(built), NEW r \in ToSet(built[i].rules),
                    r.host # "", ListenedTo(r.host), EndsInSlash(r.path), IsPathOfNGINX(r),
                    \A ing \in ToSet(built) : \A s \in ToSet(ing.rules) :
                      PathOf(s) # Front(r.path) /\ ~IsForced(ing, s.host),
                    NEW rule \in Answers(r.host, Front(r.path))
             PROVE  rule.redirect = "slash"
  BY DEF SlashRedirectsFire
<1> DEFINE bare == Front(r.path)
           C    == Candidates(r.host, bare)
<1>1. PICK c \in C : rule = RuleAt(c[1], c[2]) /\ ~\E e \in C : Beats(e, c)
  BY DEF Answers
<1>2. /\ c[1] \in 1..Len(manifests) /\ c[2] \in 1..Len(manifests[c[1]].rules)
      /\ PathMatches(rule, bare)
  BY <1>1, CandidateRules
<1>3. SlashRedirects(r) # <<>>
  BY DEF SlashRedirects
<1>4. PICK j \in 1..Len(manifests[i].rules) : IsSlashOf(RuleAt(i, j), r)
  BY <1>3, RulesOfManifests
<1>5. RuleAt(i, j).type = "Exact" /\ RuleAt(i, j).path = bare
  BY <1>4 DEF IsSlashOf
<1>6. <<i, j>> \in C
  BY <1>5, HostsOfManifests, CandidateRules DEF PathMatches
<1>7. HasHost(<<i, j>>) /\ IsExact(<<i, j>>)
  BY <1>5, HostsOfManifests DEF HasHost, IsExact
<1>8. ~Beats(<<i, j>>, c)
  BY <1>1, <1>6
<1>9. HasHost(c) \in BOOLEAN /\ HasHost(<<i, j>>) \in BOOLEAN /\ IsExact(c) \in BOOLEAN /\ IsExact(<<i, j>>) \in BOOLEAN
  BY DEF HasHost, IsExact
<1>10. HasHost(c) /\ IsExact(c)
  BY <1>7, <1>8, <1>9 DEF Beats
<1>11. rule.type = "Exact" /\ rule.path = bare
  BY <1>1, <1>2, <1>10 DEF IsExact, PathMatches
<1>12. c[1] \in 1..Len(built) /\ built[c[1]] \in ToSet(built) /\ HasOrigin(rule, built[c[1]])
  BY <1>1, <1>2, RulesOfManifests, EmittedRules, BuiltFromIngresses
<1>13. ~IsWhole(rule, built[c[1]])
  BY <1>11 DEF IsWhole
<1>14. ASSUME NEW s \in ToSet(built[c[1]].rules), IsOfPath(rule, built[c[1]], s)  PROVE FALSE
  <2>1. ~IsForced(built[c[1]], s.host) /\ PathOf(s) # bare
    BY <1>12
  <2>2. rule.path = PathOf(s)
    BY <1>14, <2>1 DEF IsOfPath
  <2> QED
    BY <1>11, <2>1, <2>2
<1> QED
  BY <1>12, <1>13, <1>14 DEF HasOrigin, IsSlashOf

LEMMA FrontLength ==
  ASSUME NEW T, NEW p \in Seq(T), Len(p) >= 1
  PROVE  Len(Front(p)) = Len(p) - 1
<1>1. Len(p) \in Nat /\ 1 \in Int /\ Len(p) - 1 \in Int /\ \A i \in 1..Len(p) - 1 : p[i] \in T
  OBVIOUS
<1>2. Len(SubSeq(p, 1, Len(p) - 1)) = IF 1 <= Len(p) - 1 THEN (Len(p) - 1) - 1 + 1 ELSE 0
  BY ONLY <1>1, SubSeqProperties
<1> DEFINE f == Front(p)
           n == Len(p)
<1>3. Len(f) = IF 1 <= n - 1 THEN (n - 1) - 1 + 1 ELSE 0
  BY <1>2, Zenon DEF Front
<1> HIDE DEF f, n
<1>4. n \in Nat /\ n >= 1
  BY <1>1 DEF n
<1>5. Len(f) = n - 1
  BY <1>3, <1>4
<1> QED
  BY <1>5 DEF f, n

\* A prefix that matches is at most one token longer than the path.
LEMMA MatchesAreShort ==
  ASSUME NEW rule, NEW path, IsSeq(path), IsSeq(rule.path), PathMatches(rule, path)
  PROVE  Len(rule.path) \in Nat /\ Len(path) \in Nat /\ Len(rule.path) <= Len(path) + 1
<1> DEFINE p == rule.path
<1>1. p \in Seq(ToSet(p)) /\ Len(p) \in Nat /\ Len(path) \in Nat
  BY SeqMembers
<1>2. CASE p = path
  BY <1>1, <1>2
<1>3. ASSUME NEW q, q \in {p, Front(p)}, IsPrefix(q, path), Len(p) >= 1  PROVE Len(p) <= Len(path) + 1
  <2>1. Len(q) <= Len(path)
    BY <1>3 DEF IsPrefix
  <2>2. Len(q) \in Nat /\ Len(q) + 1 >= Len(p)
    <3> DEFINE T == ToSet(p)
    <3>1. p \in Seq(T)
      BY <1>1
    <3> HIDE DEF T, p
    <3>2. CASE q = p
      BY <1>1, <3>2
    <3>3. CASE q = Front(p)
      BY <1>1, <1>3, <3>1, <3>3, FrontLength
    <3> QED
      BY <1>3, <3>2, <3>3
  <2> HIDE DEF p
  <2> QED
    BY <1>1, <2>1, <2>2
<1>4. ElementPrefix(p, path) => \E q \in {p, Front(p)} : IsPrefix(q, path)
  BY DEF ElementPrefix
<1>5. p = path \/ ElementPrefix(p, path)
  BY DEF PathMatches
<1> QED
  BY <1>1, <1>2, <1>3, <1>4, <1>5

\* Of several candidates one is beaten by none: a best by host, type and length, and the
\* first of those in its route.
LEMMA SomeRuleAnswers ==
  ASSUME NEW host, NEW path, IsSeq(path),
         \A c \in Candidates(host, path) : IsSeq(RuleAt(c[1], c[2]).path),
         Candidates(host, path) # {}
  PROVE  Answers(host, path) # {}
<1> DEFINE C == Candidates(host, path)
           H == IF \E c \in C : HasHost(c) THEN {c \in C : HasHost(c)} ELSE C
           X == IF \E c \in H : IsExact(c) THEN {c \in H : IsExact(c)} ELSE H
           n == Len(path) + 1
           T == {n - PathLength(c) : c \in X}
<1>1. ASSUME NEW c \in C
      PROVE  /\ c[2] \in Nat /\ PathLength(c) \in Nat /\ n \in Nat /\ PathLength(c) <= n
             /\ HasHost(c) \in BOOLEAN /\ IsExact(c) \in BOOLEAN
  <2>1. c[2] \in 1..Len(manifests[c[1]].rules) /\ PathMatches(RuleAt(c[1], c[2]), path)
    BY CandidateRules
  <2>2. IsSeq(RuleAt(c[1], c[2]).path)
    OBVIOUS
  <2> QED
    BY <2>1, <2>2, MatchesAreShort DEF PathLength, HasHost, IsExact
<1>2. X \subseteq C /\ X # {}
  OBVIOUS
<1>3. ASSUME NEW c \in X, NEW e \in C, Beats(e, c)
      PROVE  /\ e \in X
             /\ \/ PathLength(e) > PathLength(c)
                \/ PathLength(e) = PathLength(c) /\ e[1] = c[1] /\ e[2] < c[2]
  <2> DEFINE longer == PathLength(e) > PathLength(c)
             earlier == PathLength(e) = PathLength(c) /\ e[1] = c[1] /\ e[2] < c[2]
  <2>1. \/ HasHost(e) /\ ~HasHost(c)
        \/ HasHost(e) = HasHost(c) /\ IsExact(e) /\ ~IsExact(c)
        \/ HasHost(e) = HasHost(c) /\ IsExact(e) = IsExact(c) /\ (longer \/ earlier)
    BY <1>3 DEF Beats
  <2>2. c \in C /\ c \in H
    BY <1>2
  <2> HIDE DEF C, longer, earlier
  <2>3. ~(HasHost(e) /\ ~HasHost(c))
    BY <2>2
  <2>4. HasHost(e) = HasHost(c) /\ e \in H
    BY <1>1, <2>1, <2>2, <2>3
  <2> HIDE DEF H
  <2>5. ~(IsExact(e) /\ ~IsExact(c))
    BY <2>4
  <2>6. IsExact(e) = IsExact(c) /\ (longer \/ earlier)
    BY <2>1, <2>3, <2>5
  <2>7. e \in X
    BY <1>1, <2>2, <2>4, <2>6
  <2> QED
    BY <2>6, <2>7 DEF longer, earlier
<1> HIDE DEF C, H, X, n
<1>4. T \in SUBSET Nat /\ T # {}
  BY <1>1, <1>2
<1>5. PICK m \in T : \A k \in T : m <= k
  BY <1>4, LeastNumber
<1>6. PICK b \in X : m = n - PathLength(b)
  BY <1>5
<1> DEFINE J == {c[2] : c \in {d \in X : PathLength(d) = PathLength(b) /\ d[1] = b[1]}}
<1>7. J \in SUBSET Nat /\ J # {}
  BY <1>1, <1>2
<1>8. PICK j \in J : \A k \in J : j <= k
  <2> HIDE DEF J
  <2> QED
    BY <1>7, LeastNumber
<1>9. PICK c \in X : PathLength(c) = PathLength(b) /\ c[1] = b[1] /\ c[2] = j
  BY <1>8
<1>10. ASSUME NEW e \in C, Beats(e, c)  PROVE FALSE
  <2>1. e \in X
    BY <1>3, <1>10
  <2>2. CASE PathLength(e) > PathLength(c)
    <3>1. n - PathLength(e) \in T
      BY <2>1
    <3>2. m <= n - PathLength(e)
      BY <1>5, <3>1
    <3>3. n \in Nat /\ PathLength(e) \in Nat /\ PathLength(b) \in Nat
      BY <1>1, <1>2
    <3> HIDE DEF T
    <3> QED
      BY <1>6, <1>9, <2>2, <3>2, <3>3
  <2>3. CASE PathLength(e) = PathLength(c) /\ e[1] = c[1] /\ e[2] < c[2]
    <3>1. e[2] \in J
      BY <1>9, <2>1, <2>3
    <3>2. j <= e[2] /\ e[2] \in Nat /\ c[2] \in Nat
      BY <1>1, <1>2, <1>8, <1>9, <3>1
    <3> QED
      BY <1>9, <2>3, <3>2
  <2> QED
    BY <1>3, <1>10, <2>2, <2>3
<1>11. RuleAt(c[1], c[2]) \in Answers(host, path)
  BY <1>2, <1>9, <1>10 DEF Answers, C
<1> QED
  BY <1>11

\* Where no host is in regex mode and nothing else makes rules, every candidate comes from
\* a path of its Ingress.
LEMMA CandidatesArePaths ==
  ASSUME Fits, OriginsInv, Done, NoRegex, ~opts.slashes,
         \A ing \in ToSet(built) : ing.redirect = None /\ ing.backend = None,
         \A ing \in ToSet(ingresses) : ~(ing.canary /\ ing.header)
  PROVE  /\ \A ing \in ToSet(built) : \A host : ~IsForced(ing, host)
         /\ \A i \in 1..Len(built) : \A j \in 1..Len(manifests[i].rules) :
              \E r \in ToSet(built[i].rules) : IsOfPath(RuleAt(i, j), built[i], r)
<1>1. ToSet(built) \subseteq ToSet(ingresses)
  BY SeqIsSeq DEF Fits, PipelineFits
<1>2. hostRegex = {}
  <2>1. {i \in ToSet(ingresses) : i.regex} = {}
    BY DEF NoRegex
  <2>2. ForcedHosts = {}
    BY <2>1 DEF ForcedHosts
  <2> QED
    BY <2>2 DEF OriginsInv
<1>3. ASSUME NEW ing \in ToSet(built), NEW host  PROVE ~IsForced(ing, host)
  BY <1>1, <1>2, <1>3 DEF IsForced, NoRegex
<1>4. ASSUME NEW i \in 1..Len(built), NEW j \in 1..Len(manifests[i].rules)
      PROVE  \E r \in ToSet(built[i].rules) : IsOfPath(RuleAt(i, j), built[i], r)
  <2>1. HasOrigin(RuleAt(i, j), built[i]) /\ built[i] \in ToSet(built)
    BY RulesOfManifests, BuiltFromIngresses
  <2>2. ~IsWhole(RuleAt(i, j), built[i])
    BY <2>1 DEF IsWhole
  <2>3. \A r : ~IsSlashOf(RuleAt(i, j), r)
    BY DEF IsSlashOf, SlashRedirects
  <2> QED
    BY <2>1, <2>2, <2>3 DEF HasOrigin
<1> QED
  BY <1>3, <1>4

\* The rule of a path that is not forced matches what the path is declared for.
LEMMA RuleOfPlainPath ==
  ASSUME NEW rule, NEW ing, NEW r, IsOfPath(rule, ing, r), ~IsForced(ing, r.host)
  PROVE  /\ rule.type = Lowered(r, FALSE) /\ rule.path = PathOf(r) /\ PrimaryService(rule) = r.svc
         /\ (rule.type = "Exact") = (r.type = "Exact")
         /\ \A path : PathMatches(rule, path) <=>
              PathMatches([type |-> Lowered(r, FALSE), path |-> PathOf(r)], path)
<1>1. rule.type = Lowered(r, FALSE) /\ rule.path = PathOf(r) /\ PrimaryService(rule) = r.svc
  <2> DEFINE forced == IsForced(ing, r.host)
  <2>1. forced = FALSE
    BY DEF IsForced
  <2>2. /\ rule.type = (IF opts.preserve /\ forced THEN "RegularExpression" ELSE Lowered(r, forced))
        /\ rule.path = (IF opts.preserve /\ forced THEN PreserveRegexPath(PathOf(r)) ELSE PathOf(r))
        /\ PrimaryService(rule) = r.svc
    BY DEF IsOfPath
  <2> HIDE DEF forced
  <2> QED
    BY <2>1, <2>2
<1>2. (Lowered(r, FALSE) = "Exact") = (r.type = "Exact")
  BY DEF Lowered
<1> DEFINE t == Lowered(r, FALSE)
           p == PathOf(r)
           m == [type |-> t, path |-> p]
<1>3. m.type = t /\ m.path = p
  OBVIOUS
<1> HIDE DEF t, p, m
<1>4. rule.type = m.type /\ rule.path = m.path
  BY <1>1, <1>3 DEF t, p
<1>5. \A path : PathMatches(rule, path) <=> PathMatches(m, path)
  BY <1>4 DEF PathMatches
<1> QED
  BY <1>1, <1>2, <1>5 DEF m, t, p

LEMMA PathIsSeq ==
  ASSUME NEW ing, IsIngress(ing), NEW r \in ToSet(ing.rules)
  PROVE  IsSeq(PathOf(r))
BY ShortSeqs DEF IsIngress, PathOf, Root

\* The best rule is that of the best path.
LEMMA BackendsAnswer == Fits /\ OriginsInv => RequestsKeepTheirBackend
<1> SUFFICES ASSUME Fits, OriginsInv, Done, NoRegex, ~opts.slashes,
                    \A ing \in ToSet(built) : SingleHost(ing) /\ ing.redirect = None /\ ing.backend = None,
                    \A ing \in ToSet(ingresses) : ~(ing.canary /\ ing.header),
                    NEW host \in NamedHosts \ {"*"}, ListenedTo(host),
                    NEW path \in RequestPaths, DeclaredServices(host, path) # {}
             PROVE  /\ Answers(host, path) # {}
                    /\ \A rule \in Answers(host, path) : PrimaryService(rule) \in DeclaredServices(host, path)
  BY DEF RequestsKeepTheirBackend, KeepsBackends
<1> DEFINE C == Candidates(host, path)
           D == Declared(host, path)
           Better(r, s) == \/ r.type = "Exact" /\ s.type # "Exact"
                           \/ (r.type = "Exact") = (s.type = "Exact") /\ Len(PathOf(r)) > Len(PathOf(s))
           IsFor(c, r) == /\ r \in ToSet(built[c[1]].rules)
                          /\ PrimaryService(RuleAt(c[1], c[2])) = r.svc
                          /\ IsExact(c) = (r.type = "Exact") /\ PathLength(c) = Len(PathOf(r))
<1>1. IsSeq(path) /\ host # "" /\ host # "*"
  BY RequestsAssumption DEF NamedHosts, HostSet
<1>2. /\ Len(manifests) = Len(built)
      /\ \A i \in 1..Len(built) : /\ built[i] \in ToSet(built) /\ IsIngress(built[i])
                                  /\ manifests[i].hostnames = CollectHostnames(built[i])
  BY EmittedRules, BuiltFromIngresses
<1>3. ToSet(built) = {built[i] : i \in 1..Len(built)}
  BY SeqMembers, BuiltFromIngresses DEF IsSeq
<1>4. \A ing \in ToSet(built) : \A h : ~IsForced(ing, h)
  BY CandidatesArePaths
<1>5. ASSUME NEW c \in C
      PROVE  /\ IsSeq(RuleAt(c[1], c[2]).path)
             /\ \E r : IsFor(c, r) /\ (HasHost(c) => r \in D)
  <2> DEFINE i    == c[1]
             rule == RuleAt(c[1], c[2])
  <2>1. /\ i \in 1..Len(built) /\ c[2] \in 1..Len(manifests[i].rules) /\ PathMatches(rule, path)
        /\ manifests[i].hostnames = <<>> \/ host \in ToSet(manifests[i].hostnames)
    BY <1>2, CandidateRules
  <2>2. PICK r \in ToSet(built[i].rules) : IsOfPath(rule, built[i], r)
    BY <2>1, CandidatesArePaths
  <2>3. /\ rule.path = PathOf(r) /\ PrimaryService(rule) = r.svc
        /\ (rule.type = "Exact") = (r.type = "Exact")
        /\ PathMatches([type |-> Lowered(r, FALSE), path |-> PathOf(r)], path)
    <3> DEFINE ing == built[i]
    <3>1. ~IsForced(ing, r.host) /\ IsOfPath(rule, ing, r) /\ PathMatches(rule, path)
      BY <1>2, <1>4, <2>1, <2>2
    <3> HIDE DEF rule, ing
    <3>2. /\ rule.path = PathOf(r) /\ PrimaryService(rule) = r.svc
          /\ (rule.type = "Exact") = (r.type = "Exact")
      BY <3>1, RuleOfPlainPath
    <3>3. PathMatches([type |-> Lowered(r, FALSE), path |-> PathOf(r)], path)
      BY <3>1, RuleOfPlainPath
    <3> QED
      BY <3>2, <3>3
  <2>4. IsFor(c, r) /\ IsSeq(rule.path)
    BY <1>2, <2>1, <2>2, <2>3, PathIsSeq DEF IsExact, PathLength
  <2>5. ASSUME HasHost(c)  PROVE r \in D
    <3>1. host \in ToSet(CollectHostnames(built[i]))
      BY <1>2, <2>1, <2>5 DEF HasHost
    <3>2. HostKey(r.host) \in HostsOf(built[i])
      <4>1. built[i].rules # <<>>
        BY <2>2, ShortSeqs
      <4> QED
        BY <2>2, <4>1 DEF HostsOf
    <3>3. \E x : HostsOf(built[i]) \cup ToSet(CollectHostnames(built[i])) = {x}
      <4> DEFINE S == HostsOf(built[i]) \cup ToSet(CollectHostnames(built[i]))
      <4>1. IsFiniteSet(S) /\ Cardinality(S) = 1
        BY <1>2, <2>1, HostsAreFinite DEF SingleHost
      <4> HIDE DEF S
      <4>2. \E x : S = {x}
        BY <4>1, FS_Singleton
      <4> QED
        BY <4>2 DEF S
    <3>4. HostKey(r.host) = host
      BY <3>1, <3>2, <3>3
    <3>5. r.host = host
      BY <1>1, <3>4 DEF HostKey
    <3> QED
      BY <1>2, <2>1, <2>2, <2>3, <3>5 DEF Declared
  <2> QED
    BY <2>4, <2>5
<1>6. ASSUME NEW r \in D
      PROVE  \E c \in C : IsFor(c, r) /\ HasHost(c)
  <2>1. PICK i \in 1..Len(built) :
          /\ r \in ToSet(built[i].rules) /\ r.host = host
          /\ PathMatches([type |-> Lowered(r, FALSE), path |-> PathOf(r)], path)
    BY <1>3 DEF Declared
  <2>2. PICK j \in 1..Len(manifests[i].rules) : IsOfPath(RuleAt(i, j), built[i], r)
    BY <2>1, RulesOfManifests
  <2> DEFINE rule == RuleAt(i, j)
  <2>3. /\ rule.path = PathOf(r) /\ PrimaryService(rule) = r.svc
        /\ (rule.type = "Exact") = (r.type = "Exact") /\ PathMatches(rule, path)
    BY <1>2, <1>4, <2>1, <2>2, RuleOfPlainPath
  <2>4. /\ i \in 1..Len(manifests) /\ manifests[i].hostnames # <<>>
        /\ Attached(i, host) /\ host \in ToSet(manifests[i].hostnames)
    BY <1>1, <2>1, HostsOfManifests
  <2>5. <<i, j>> \in C
    BY <2>3, <2>4, CandidateRules
  <2>6. IsFor(<<i, j>>, r) /\ HasHost(<<i, j>>)
    BY <2>1, <2>3, <2>4 DEF IsExact, PathLength, HasHost
  <2> HIDE DEF C, IsFor
  <2> QED
    BY <2>5, <2>6
<1>7. DeclaredServices(host, path) = {r.svc : r \in {d \in D : ~\E e \in D : Better(e, d)}}
  BY DEF DeclaredServices
<1>8. PICK d \in D : TRUE
  BY <1>7
<1>9. PICK b \in C : HasHost(b)
  BY <1>6, <1>8
<1>10. Answers(host, path) # {}
  BY <1>1, <1>5, <1>9, SomeRuleAnswers
<1>11. ASSUME NEW rule \in Answers(host, path)
       PROVE  PrimaryService(rule) \in DeclaredServices(host, path)
  <2>1. PICK c \in C : rule = RuleAt(c[1], c[2]) /\ ~\E e \in C : Beats(e, c)
    BY DEF Answers
  <2>2. HasHost(c)
    BY <1>9, <2>1 DEF Beats
  <2>3. PICK r \in D : IsFor(c, r)
    BY <1>5, <2>1, <2>2
  <2>4. ASSUME NEW s \in D, Better(s, r)  PROVE FALSE
    <3>1. PICK e \in C : IsFor(e, s) /\ HasHost(e)
      BY <1>6
    <3>2. HasHost(e) = HasHost(c)
      BY <2>2, <3>1 DEF HasHost
    <3>3. \/ IsExact(e) /\ ~IsExact(c)
          \/ IsExact(e) = IsExact(c) /\ PathLength(e) > PathLength(c)
      BY <2>3, <2>4, <3>1
    <3>4. Beats(e, c)
      BY <3>2, <3>3 DEF Beats
    <3> QED
      BY <2>1, <3>1, <3>4
  <2> HIDE DEF D, Better
  <2>5. r.svc \in DeclaredServices(host, path)
    BY <1>7, <2>3, <2>4
  <2> QED
    BY <2>1, <2>3, <2>5
<1> QED
  BY <1>10, <1>11

-----------------------------------------------------------------------------
(* Theorems. *)

\* The invariant of the rules' origins, and of what validate has passed.
THEOREM OriginsInvariant == EmissionSpec => []OriginsInv
BY OriginsAlways, PTL

\* What validate has passed, convert emits with features that the provider has.
THEOREM ValidationHolds == EmissionSpec => []ValidatedFeaturesAreSupported
BY OriginsAlways, ValidationOfDocuments, PTL

\* --emit-trailing-slash-redirects: a request for "/x" is redirected wherever an Ingress
\* declares "/x/" for a host that is listened to and none declares "/x" itself.
THEOREM SlashRedirectsAlwaysFire == EmissionSpec => []SlashRedirectsFire
BY OriginsAlways, SlashRedirectsAnswer, PTL

\* A request to a host that is listened to goes to the service its Ingress names for it,
\* without redirects, default backends and regex hosts, and with one host per Ingress.
THEOREM RequestsReachTheirBackend == EmissionSpec => []RequestsKeepTheirBackend
BY OriginsAlways, BackendsAnswer, PTL
=============================================================================
