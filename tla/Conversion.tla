----------------------------- MODULE Conversion -----------------------------
(***************************************************************************)
(* The conversion pipeline: Ingresses become one bundle of Gateways,       *)
(* HTTPRoutes, policies and certificates, stage by stage.  FromIngresses   *)
(* looks at all Ingresses first (which hosts NGINX puts in regex mode),    *)
(* sets the canaries aside, builds one route per remaining Ingress, merges *)
(* the canaries into the first route and emits; FromIngress builds the     *)
(* route of one Ingress and no more.  The last part says which rule of the *)
(* emitted routes answers a request, as the Gateway API defines it, and    *)
(* which backend Ingress-NGINX meant.                                      *)
(*                                                                         *)
(* A path is a sequence of tokens: <<"/", "x", "/">> is "/x/", and <<>> a   *)
(* missing path.  Ports are left out: no rule is chosen by them.            *)
(***************************************************************************)
EXTENDS Conformance

CONSTANTS
  IngressLists,  \* the inputs: sequences of Ingresses
  OptionSets,    \* the options and entry points of the callers
  RequestPaths   \* the paths of the requests the properties send

ASSUME RequestsAssumption == \A path \in RequestPaths : IsSeq(path)

VARIABLES
  ingresses,  \* the input
  opts,       \* Options, and which of the two functions is called
  stage,      \* the next stage of the pipeline
  hostRegex,  \* quirkHostRegex: the hosts NGINX puts in regex mode
  quirks,     \* the findings of Analyze, attached at the end
  built,      \* the Ingresses that have a route
  todo,       \* the Ingresses that will have one
  canaries,   \* the canaries not merged yet
  bundle,     \* MigrationBundle
  manifests   \* the HTTPRoutes as emitted

vars == <<ingresses, opts, stage, hostRegex, quirks, built, todo, canaries, bundle, manifests>>

-----------------------------------------------------------------------------
(* Ingresses.  regex: use-regex is on or rewrite-target is set.  rules has  *)
(* an entry per path.  redirect is "https" for a redirect to that scheme and   *)
(* "other" for the rest; backend is the default backend of the spec or of   *)
(* the annotation; tls has the hosts and the secret of each TLS block.      *)

Root == <<"/">>
PathTypes == {"Exact", "Prefix", "ImplementationSpecific", ""}
PathOf(rule) == IF rule.path = <<>> THEN Root ELSE rule.path
TypeOf(rule) == IF rule.type = "" THEN "Prefix" ELSE rule.type
HostKey(h) == IF h = "" THEN "*" ELSE h

HostsOf(ing) == IF ing.rules = <<>> THEN {"*"} ELSE {HostKey(r.host) : r \in ToSet(ing.rules)}

\* Hosts of the rules, then of the TLS blocks, each once.
CollectHostnames(ing) ==
  LET hosts == [i \in 1..Len(ing.rules) |-> ing.rules[i].host]
      all   == Kept(hosts, ToSet(hosts) \ {""}) \o FlattenSeq([i \in 1..Len(ing.tls) |-> ing.tls[i].hosts])
  IN FlattenSeq([i \in 1..Len(all) |->
                   IF \E j \in 1..Len(all) : j < i /\ all[j] = all[i] THEN <<>> ELSE <<all[i]>>])

EndsInSlash(path) == path \notin {<<>>, Root} /\ Last(path) = "/"
IsPathOfNGINX(rule) == TypeOf(rule) \in {"Exact", "Prefix"}

NoBundle ==
  [gateways |-> <<>>, routes |-> <<>>, policies |-> <<>>, certificates |-> <<>>, findings |-> {}]

Init ==
  /\ ingresses \in IngressLists
  /\ opts \in OptionSets
  /\ stage = "start"
  /\ hostRegex = {} /\ quirks = {}
  /\ built = <<>> /\ todo = <<>> /\ canaries = <<>>
  /\ bundle = NoBundle
  /\ manifests = <<>>

-----------------------------------------------------------------------------
(* Stage 1: host-wide quirks. *)

\* One Ingress in regex mode puts every Ingress of its hosts in regex mode.
ForcedHostsOfFirst ==  \* mutant: the Ingresses after the first are not looked at
  UNION {HostsOf(ing) : ing \in {i \in {ingresses[1]} : i.regex}}
ForcedHosts == UNION {HostsOf(ing) : ing \in {i \in ToSet(ingresses) : i.regex}}

\* Findings are told apart by Ingress name, host, path and at times type, not by
\* namespace.
Finding(id, ing) == [id |-> id, ingress |-> ing.name, host |-> "", type |-> "", path |-> <<>>]
QuirkFinding(id, ing, r) ==
  [Finding(id, ing) EXCEPT !.host = HostKey(r.host), !.path = PathOf(r),
                           !.type = IF id = "quirk.path-as-regex" THEN TypeOf(r) ELSE ""]
\* The first Ingress that forces a host is named for it.
HostFindings(forced) ==
  {[Finding("quirk.host-regex", Head(Kept(ingresses, {i \in ToSet(ingresses) : i.regex /\ h \in HostsOf(i)})))
      EXCEPT !.host = h] : h \in forced}
QuirkFindings(forced) ==
  HostFindings(forced) \cup {Finding("quirk.url-normalization", ingresses[1])} \cup
  UNION {UNION {
    {f \in {QuirkFinding("quirk.path-as-regex", ing, r)} :
       HostKey(r.host) \in forced /\ IsPathOfNGINX(r)} \cup
    {f \in {QuirkFinding("quirk.trailing-slash", ing, r)} :
       EndsInSlash(r.path) /\ IsPathOfNGINX(r)}
    : r \in ToSet(ing.rules)} : ing \in ToSet(ingresses)}

Analyze ==
  /\ stage = "start" /\ opts.entry = "FromIngresses"
  /\ hostRegex' = ForcedHosts
  /\ quirks' = QuirkFindings(ForcedHosts)
  /\ stage' = "split"
  /\ UNCHANGED <<ingresses, opts, built, todo, canaries, bundle, manifests>>

-----------------------------------------------------------------------------
(* Stage 2: canaries and their primary. *)

HostSet(ing) == {r.host : r \in ToSet(ing.rules)} \ {""}

\* The first Ingress with a host of the first canary, or the first of all.
PrimaryFirst(rest, cs) == IF rest = <<>> THEN cs[1] ELSE rest[1]  \* mutant: hosts are not compared
Primary(rest, cs) ==
  LET paired == Kept(rest, {p \in ToSet(rest) : HostSet(p) \cap HostSet(cs[1]) # {}})
  IN Head(paired \o rest \o cs)

\* With a canary around, the Ingresses that are not its primary get no route.
SplitCanaries ==
  LET cs   == Kept(ingresses, {i \in ToSet(ingresses) : i.canary})
      rest == Kept(ingresses, {i \in ToSet(ingresses) : ~i.canary})
  IN /\ stage = "split"
     /\ IF cs = <<>>
        THEN todo' = ingresses /\ canaries' = <<>>
        ELSE /\ todo' = <<Primary(rest, cs)>>
             /\ canaries' = IF rest = <<>> THEN Tail(cs) ELSE cs
     /\ stage' = "build"
     /\ UNCHANGED <<ingresses, opts, hostRegex, quirks, built, bundle, manifests>>

\* migrate, validate and the operator convert each Ingress by itself.
FromIngress ==
  /\ stage = "start" /\ opts.entry = "FromIngress"
  /\ todo' = ingresses
  /\ stage' = "build"
  /\ UNCHANGED <<ingresses, opts, hostRegex, quirks, built, canaries, bundle, manifests>>

-----------------------------------------------------------------------------
(* Stages 3 and 4: the route of one Ingress. *)

IsForcedByList(ing, host) == HostKey(host) \in hostRegex  \* mutant: its own annotations are forgotten
IsForced(ing, host) == ing.regex \/ HostKey(host) \in hostRegex

LoweredToPrefix(r, forced) ==  \* mutant: Exact is forgotten
  IF r.type # "Prefix" /\ forced THEN "RegularExpression" ELSE "PathPrefix"
Lowered(r, forced) ==
  CASE r.type = "Exact"  -> "Exact"
    [] r.type = "Prefix" -> "PathPrefix"
    [] OTHER             -> IF forced THEN "RegularExpression" ELSE "PathPrefix"

PreserveRegexPath(path) == <<"(?i)">> \o path \o <<".*">>

Rule(type, path, redirect, backends) ==
  [type |-> type, path |-> path, header |-> FALSE, filters |-> {}, redirect |-> redirect, backends |-> backends]
BackendRefs(svc) == IF svc = None THEN <<>> ELSE <<[svc |-> svc, weight |-> None]>>
BackendRule(ing, type, path, svc) ==
  [Rule(type, path, None, BackendRefs(svc)) EXCEPT !.filters = FiltersOf(ing)]

SlashRedirectsByPrefix(r) ==  \* mutant: a prefix match instead of an exact one
  IF opts.slashes /\ EndsInSlash(r.path) /\ IsPathOfNGINX(r)
  THEN <<Rule("PathPrefix", Front(r.path), "slash", <<>>)>>
  ELSE <<>>
SlashRedirects(r) ==
  IF opts.slashes /\ EndsInSlash(r.path) /\ IsPathOfNGINX(r)
  THEN <<Rule("Exact", Front(r.path), "slash", <<>>)>>
  ELSE <<>>

RulesOfPath(ing, r) ==
  LET forced    == IsForced(ing, r.host)
      preserved == opts.preserve /\ forced
  IN Append(SlashRedirects(r),
            BackendRule(ing, IF preserved THEN "RegularExpression" ELSE Lowered(r, forced),
                        IF preserved THEN PreserveRegexPath(PathOf(r)) ELSE PathOf(r), r.svc))

\* Redirect filters get a rule of their own for every path, ahead of all others,
\* then comes the default backend.
RulesOf(ing) ==
  (IF ing.redirect = None \/ (opts.httpOnly /\ ing.redirect = "https") THEN <<>>
   ELSE <<Rule("PathPrefix", Root, ing.redirect, <<>>)>>)
  \o (IF ing.backend = None THEN <<>>
      ELSE <<BackendRule(ing, "PathPrefix", Root, ing.backend)>>)
  \o FlattenSeq([i \in 1..Len(ing.rules) |-> RulesOfPath(ing, ing.rules[i])])

\* A listener without a host name takes every host.
Listener(protocol, host, mode, secret) ==
  [protocol |-> protocol, hostname |-> host, mode |-> mode, secret |-> secret]

\* The TLS settings that annotations give (an issuer, ssl-passthrough) replace those
\* of every HTTPS listener, and take the secret of the first block.
Passthrough(ing) == "ssl-passthrough" \in ing.annotations
HasAnnotatedTLS(ing) == ~opts.httpOnly /\ (HasIssuer(ing) \/ Passthrough(ing))
SecretOfFirst(ing, i) == ing.tls[1].secret  \* mutant: the other blocks' secrets are forgotten
SecretOf(ing, i) ==
  IF HasAnnotatedTLS(ing) THEN ing.tls[1].secret ELSE ing.tls[i].secret

Listeners(ing) ==
  LET hosts == CollectHostnames(ing)
      first == IF hosts = <<>> THEN "" ELSE hosts[1]
      plain == opts.httpOnly \/ (ing.tls = <<>> /\ ~HasAnnotatedTLS(ing))
      mode  == IF Passthrough(ing) THEN "Passthrough" ELSE "Terminate"
  IN IF plain THEN <<Listener("HTTP", first, None, None)>>
     ELSE <<Listener("HTTP", "", None, None)>> \o
          (IF ing.tls = <<>> THEN <<Listener("HTTPS", first, mode, None)>>
           ELSE [i \in 1..Len(ing.tls) |->
                   Listener("HTTPS", IF ing.tls[i].hosts = <<>> THEN first ELSE ing.tls[i].hosts[1],
                            mode, SecretOf(ing, i))])

\* FromIngresses has one Gateway for all: of the given name, or shared by several
\* Ingresses.
GatewayOfItsOwn(ing) ==  \* mutant: the shared name is forgotten
  IF opts.gatewayName # <<>> THEN opts.gatewayName ELSE ing.name \o <<"gateway">>
GatewayName(ing) ==
  IF opts.gatewayName # <<>> THEN opts.gatewayName
  ELSE IF opts.entry = "FromIngresses" /\ Len(built) + Len(todo) > 1 THEN <<"shared", "gateway">>
  ELSE ing.name \o <<"gateway">>

Regexes(ing) ==
  {QuirkFinding("quirk.preserve-regex", ing, r) :
     r \in {s \in ToSet(ing.rules) : opts.preserve /\ IsForced(ing, s.host)}} \cup
  {QuirkFinding("path.regex", ing, r) :
     r \in {s \in ToSet(ing.rules) : s.type = "ImplementationSpecific" /\ IsForced(ing, s.host)}} \cup
  {QuirkFinding("path.implementation-specific", ing, r) :
     r \in {s \in ToSet(ing.rules) : s.type = "ImplementationSpecific" /\ ~IsForced(ing, s.host)}}
SlashFindings(ing) ==
  {QuirkFinding("quirk.trailing-slash-emit", ing, r) :
     r \in {s \in ToSet(ing.rules) : SlashRedirects(s) # <<>>}}

RouteFindings(ing) ==
  {Finding("spec.rules", ing)} \cup {f \in {Finding("http-only", ing)} : opts.httpOnly}
  \cup {Finding(k, ing) : k \in ing.annotations \cap {"untranslatable"}}

\* FromIngresses emits the Gateway with the first Ingress only, made from it alone.
GatewayWithEach(ing) == opts.includeGateway  \* mutant: one for each Ingress
EmitsGateway(ing) == opts.includeGateway /\ (built = <<>> \/ opts.entry = "FromIngress")

BuildRoute ==
  LET ing == Head(todo)
      gw  == [name |-> GatewayName(ing), ns |-> ing.ns]
  IN /\ stage = "build" /\ todo # <<>>
     /\ bundle' =
          [gateways |-> IF EmitsGateway(ing)
                        THEN Append(bundle.gateways,
                               [name |-> gw.name, ns |-> gw.ns, listeners |-> Listeners(ing)])
                        ELSE bundle.gateways,
           routes   |-> Append(bundle.routes,
                          [name |-> ing.name, ns |-> ing.ns, source |-> ing.name,
                           hostnames |-> CollectHostnames(ing), parent |-> gw, rules |-> RulesOf(ing)]),
           policies |-> bundle.policies \o PoliciesOf(ing, opts.provider),
           certificates |-> bundle.certificates \o (IF opts.httpOnly THEN <<>> ELSE CertificatesOf(ing)),
           findings |-> bundle.findings \cup RouteFindings(ing) \cup Regexes(ing) \cup SlashFindings(ing)]
     /\ built' = Append(built, ing)
     /\ todo' = Tail(todo)
     /\ stage' = IF Len(todo) = 1 THEN "merge" ELSE "build"
     /\ UNCHANGED <<ingresses, opts, hostRegex, quirks, canaries, manifests>>

-----------------------------------------------------------------------------
(* Stage 5: one canary, merged into the route of the primary. *)

\* The canary's backends with their paths; its hosts and path types are not looked at.
CanaryBackends(c) ==
  LET rs == Kept(c.rules, {r \in ToSet(c.rules) : r.svc # None})
  IN [i \in 1..Len(rs) |-> [svc |-> rs[i].svc, path |-> PathOf(rs[i])]]

PathCompatible(a, b) == IsPrefix(a, b) \/ IsPrefix(b, a) \/ a = Root \/ b = Root

\* canary-weight reads as 0 when it is missing or no number.
PrimaryWeightUnclamped(c) == 100 + c.weight  \* mutant: a sign
PrimaryWeight(c) == IF c.weight > 100 THEN 0 ELSE 100 - c.weight

\* Redirect rules take no canary, and only the first canary of a rule sets the
\* weight of what was there.
Weighted(rule, c) ==
  LET bs == CanaryBackends(c)
      compatible == Kept(bs, {b \in ToSet(bs) : PathCompatible(rule.path, b.path)})
      first == rule.backends[1]
  IN IF rule.backends = <<>> \/ compatible = <<>> THEN rule
     ELSE [rule EXCEPT !.backends =
            <<IF first.weight = None THEN [first EXCEPT !.weight = PrimaryWeight(c)] ELSE first>>
            \o Tail(@)
            \o [i \in 1..Len(compatible) |-> [svc |-> compatible[i].svc, weight |-> c.weight]]]

\* The first backend's rule ends up last: each is put in front of the route.
HeaderRules(c) ==
  Reverse([i \in 1..Len(CanaryBackends(c)) |->
    [Rule("PathPrefix", CanaryBackends(c)[i].path, None,
          <<[svc |-> CanaryBackends(c)[i].svc, weight |-> c.weight]>>) EXCEPT !.header = TRUE]])

ApplyCanary ==
  LET c     == Head(canaries)
      rules == bundle.routes[1].rules
  IN /\ stage = "merge" /\ canaries # <<>>
     /\ bundle' = [bundle EXCEPT
          !.routes[1].rules =
            IF c.header THEN HeaderRules(c) \o rules
            ELSE [j \in 1..Len(rules) |-> Weighted(rules[j], c)],
          !.findings = @ \cup {Finding("canary.merge", built[1])}]
     /\ canaries' = Tail(canaries)
     /\ UNCHANGED <<ingresses, opts, stage, hostRegex, quirks, built, todo, manifests>>

-----------------------------------------------------------------------------
(* Stages 6 and 7, and EmitYAML. *)

FinalizeIR ==
  /\ stage = "merge" /\ canaries = <<>>
  /\ bundle' = [bundle EXCEPT !.findings = @ \cup quirks]
  /\ stage' = "emit"
  /\ UNCHANGED <<ingresses, opts, hostRegex, quirks, built, todo, canaries, manifests>>

\* An emitted match has a path and nothing else.
Emitted(rule) == [rule EXCEPT !.header = FALSE]
EmittedRoutes ==
  [i \in 1..Len(bundle.routes) |->
     [bundle.routes[i] EXCEPT !.rules = [j \in 1..Len(@) |-> Emitted(@[j])]]]
EmitYAML ==
  /\ stage = "emit"
  /\ manifests' = EmittedRoutes
  /\ stage' = "done"
  /\ UNCHANGED <<ingresses, opts, hostRegex, quirks, built, todo, canaries, bundle>>

Next ==
  FromIngress \/ Analyze \/ SplitCanaries \/ BuildRoute \/ ApplyCanary \/ FinalizeIR \/ EmitYAML

Spec == Init /\ [][Next]_vars

-----------------------------------------------------------------------------
(* Gateway API: the rules that answer a request (external).  An explicit    *)
(* host goes before none, an exact path before a prefix, a longer prefix    *)
(* before a shorter, a rule before the later ones of its route.             *)

ElementPrefix(prefix, path) ==
  LET bare == IF Last(prefix) = "/" THEN Front(prefix) ELSE prefix
  IN IsPrefix(bare, path) /\ (Len(bare) = Len(path) \/ path[Len(bare) + 1] = "/")

PathMatches(rule, path) ==
  \/ rule.type = "Exact" /\ rule.path = path
  \/ rule.type = "PathPrefix" /\ ElementPrefix(rule.path, path)

RuleAt(i, j) == manifests[i].rules[j]
\* A listener that passes TLS through takes no HTTPRoute.  A Gateway that is not
\* emitted is taken to listen to everything.
Attached(i, host) ==
  opts.includeGateway =>
    \E g \in ToSet(bundle.gateways) :
      /\ manifests[i].parent = [name |-> g.name, ns |-> g.ns]
      /\ \E l \in ToSet(g.listeners) : l.mode # "Passthrough" /\ l.hostname \in {"", host}

Candidates(host, path) ==
  {c \in UNION {{i} \X (1..Len(manifests[i].rules)) : i \in 1..Len(manifests)} :
     /\ Attached(c[1], host)
     /\ manifests[c[1]].hostnames = <<>> \/ host \in ToSet(manifests[c[1]].hostnames)
     /\ PathMatches(RuleAt(c[1], c[2]), path)}

HasHost(c)    == manifests[c[1]].hostnames # <<>>
IsExact(c)    == RuleAt(c[1], c[2]).type = "Exact"
PathLength(c) == Len(RuleAt(c[1], c[2]).path)
Beats(c, d) ==
  \/ HasHost(c) /\ ~HasHost(d)
  \/ /\ HasHost(c) = HasHost(d)
     /\ \/ IsExact(c) /\ ~IsExact(d)
        \/ /\ IsExact(c) = IsExact(d)
           /\ \/ PathLength(c) > PathLength(d)
              \/ PathLength(c) = PathLength(d) /\ c[1] = d[1] /\ c[2] < d[2]

Answers(host, path) ==
  LET cs == Candidates(host, path)
  IN {RuleAt(c[1], c[2]) : c \in {d \in cs : ~\E e \in cs : Beats(e, d)}}

-----------------------------------------------------------------------------
(* Properties. *)

Done       == stage = "done"
NamedHosts == UNION {HostSet(ing) : ing \in ToSet(ingresses)}
SingleHost(ing) == Cardinality(HostsOf(ing) \cup ToSet(CollectHostnames(ing))) = 1
NoRegex    == \A ing \in ToSet(ingresses) : ~ing.regex

\* Which services Ingress-NGINX would send the request to, of the Ingresses
\* that have been converted: the best of the paths declared for its host.
Declared(host, path) ==
  UNION {{r \in ToSet(ing.rules) :
            /\ r.host = host
            /\ PathMatches([type |-> Lowered(r, FALSE), path |-> PathOf(r)], path)}
         : ing \in ToSet(built)}
DeclaredServices(host, path) ==
  LET ds == Declared(host, path)
      BetterThan(r, s) == \/ r.type = "Exact" /\ s.type # "Exact"
                          \/ (r.type = "Exact") = (s.type = "Exact") /\ Len(PathOf(r)) > Len(PathOf(s))
  IN {r.svc : r \in {d \in ds : ~\E e \in ds : BetterThan(e, d)}}

\* A backend that is no Service is not emitted.
PrimaryService(rule) == IF rule.backends = <<>> THEN None ELSE rule.backends[1].svc
KeepsBackends(host) ==
  \A path \in RequestPaths :
    LET meant == DeclaredServices(host, path)
    IN /\ meant # {} => Answers(host, path) # {}
       /\ \A rule \in Answers(host, path) :
            meant # {} => PrimaryService(rule) \in meant

ListenedTo(host) ==
  \A i \in 1..Len(manifests) : host \in ToSet(manifests[i].hostnames) => Attached(i, host)

\* The pipeline's variables are well formed at every stage.
ConversionTypeOK ==
  /\ stage \in {"start", "split", "build", "merge", "emit", "done", "end"}
  /\ Len(bundle.routes) = Len(built)
  /\ opts.entry = "FromIngresses" => Len(bundle.gateways) <= 1
  /\ \A i \in 1..Len(bundle.routes) : \A rule \in ToSet(bundle.routes[i].rules) :
       /\ rule.type \in {"Exact", "PathPrefix", "RegularExpression"}
       /\ rule.path # <<>>
  /\ stage \in {"start", "split"} => built = <<>>
  /\ stage \in {"merge", "emit", "done"} => todo = <<>> /\ built # <<>>

\* Without redirects, default backends and regex hosts, and with one host per
\* Ingress, a request to a host that the Gateway listens to still goes to the service
\* its Ingress names for it, however many Ingresses share the host and whatever
\* canaries have been merged by weight.  No host is called *.
RequestsKeepTheirBackend ==
  Done /\ NoRegex /\ ~opts.slashes
  /\ (\A ing \in ToSet(built) : SingleHost(ing) /\ ing.redirect = None /\ ing.backend = None)
  /\ (\A ing \in ToSet(ingresses) : ~(ing.canary /\ ing.header))
    => \A host \in NamedHosts \ {"*"} : ListenedTo(host) => KeepsBackends(host)

\* A host that any Ingress puts in regex mode is in regex mode for all: each of
\* its paths is emitted as a regular expression or reported as not being one.
RegexHostsAreHonoured ==
  Done /\ opts.entry = "FromIngresses" =>
    \A i \in 1..Len(built) : \A r \in ToSet(built[i].rules) :
      (\E ing \in ToSet(ingresses) : ing.regex /\ HostKey(r.host) \in HostsOf(ing)) =>
        \/ \E rule \in ToSet(manifests[i].rules) :
             /\ rule.type = "RegularExpression"
             /\ rule.path \in {PathOf(r), PreserveRegexPath(PathOf(r))}
        \/ \E f \in bundle.findings :
             /\ f.id = "quirk.path-as-regex"
             /\ f.host = HostKey(r.host) /\ f.path = PathOf(r) /\ f.type = TypeOf(r)

\* Where one canary backend joins a rule, the two weights are parts of a hundred,
\* whichever canary of several it was and in whatever order they were merged, as long
\* as canaries ask for no more than all (applyCanary).
WeightsAddUp ==
  Done /\ (\A ing \in ToSet(ingresses) : ing.canary => ~ing.header /\ ing.weight <= 100) =>
    \A i \in 1..Len(manifests) : \A rule \in ToSet(manifests[i].rules) :
      Len(rule.backends) = 2 =>
        /\ \A k \in 1..2 : rule.backends[k].weight # None
        /\ rule.backends[1].weight + rule.backends[2].weight = 100

\* A canary takes traffic of its own host only: when every canary names the same
\* one host and an Ingress has that host, the route of that host is emitted and no
\* other host's requests reach a canary's service (splitCanaries, applyCanary).
CanariesStayOnTheirHost ==
  LET cs    == {ing \in ToSet(ingresses) : ing.canary}
      hosts == UNION {HostSet(c) : c \in cs}
      svcs  == {r.svc : r \in UNION {ToSet(c.rules) : c \in cs}}
  IN Done /\ opts.entry = "FromIngresses" /\ Cardinality(hosts) = 1
     /\ (\A c \in cs : HostSet(c) = hosts) /\ (\A ing \in ToSet(ingresses) : SingleHost(ing))
     /\ (\E ing \in ToSet(ingresses) : ~ing.canary /\ HostSet(ing) = hosts) =>
       /\ \A host \in NamedHosts \ hosts, path \in RequestPaths : \A rule \in Answers(host, path) :
            \A k \in 1..Len(rule.backends) : rule.backends[k].svc \notin svcs
       /\ \E i \in 1..Len(manifests) : hosts = ToSet(manifests[i].hostnames)

\* --emit-trailing-slash-redirects: a request for "/x" is redirected wherever an
\* Ingress declares "/x/" for a host that is listened to and none declares "/x" itself.
SlashRedirectsFire ==
  Done /\ opts.slashes =>
    \A i \in 1..Len(built) : \A r \in ToSet(built[i].rules) :
      LET bare == Front(r.path) IN
      /\ r.host # "" /\ ListenedTo(r.host) /\ EndsInSlash(r.path) /\ IsPathOfNGINX(r)
      /\ \A ing \in ToSet(built) : \A s \in ToSet(ing.rules) :
           PathOf(s) # bare /\ ~IsForced(ing, s.host)
      => \A rule \in Answers(r.host, bare) : rule.redirect = "slash"

\* Every route of the first Ingress' namespace is attached to the Gateway that is
\* emitted with it, whichever of the three ways its name was found.
RoutesHaveAGateway ==
  Done /\ opts.includeGateway =>
    \A i \in 1..Len(manifests) :
      manifests[i].ns = manifests[1].ns =>
        \E g \in ToSet(bundle.gateways) : manifests[i].parent = [name |-> g.name, ns |-> g.ns]

(* What the documentation says and the code does not do. *)

\* "Hosts / paths / backends: Yes" (README.md:49), with several hosts per Ingress.
HostsKeepTheirBackends ==
  Done /\ NoRegex /\ ~opts.slashes
  /\ (\A ing \in ToSet(ingresses) : ing.redirect = None /\ ing.backend = None /\ ~ing.canary)
    => \A host \in NamedHosts : KeepsBackends(host)

\* "HTTP listener for redirects + HTTPS listeners per TLS host" (convert.go:390):
\* a request that came by HTTPS is not sent to HTTPS again.
NoRedirectLoop ==
  Done => \A host \in NamedHosts, path \in RequestPaths :
    (\E g \in ToSet(bundle.gateways) : \E l \in ToSet(g.listeners) :
       l.protocol = "HTTPS" /\ l.hostname \in {"", host})
      => \A rule \in Answers(host, path) : rule.redirect # "https"

\* "Header-based canary: add a higher-priority rule with header match"
\* (canary.go:172): requests without the header for a host that the canary shares
\* with the primary stay with the primary.
HeaderCanaryNeedsHeader ==
  Done /\ ~built[1].canary =>
    \A c \in {ing \in ToSet(ingresses) : ing.canary /\ ing.header} :
      \A host \in HostSet(c) \cap HostSet(built[1]), path \in RequestPaths :
        \A rule \in Answers(host, path) :
          PrimaryService(rule) \notin {r.svc : r \in ToSet(c.rules)}
=============================================================================
