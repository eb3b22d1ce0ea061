------------------------------ MODULE Emission ------------------------------
(***************************************************************************)
(* The commands around the pipeline.  convert and dual-run convert a file   *)
(* as a whole, migrate and validate each Ingress by itself; dual-run then    *)
(* renames what it got for staging; all but validate emit documents, which   *)
(* the user applies to a cluster.  A session is a sequence of commands, and  *)
(* the cluster keeps what was applied: an object is replaced by the next     *)
(* document with its kind, namespace and name.                               *)
(***************************************************************************)
EXTENDS Conversion

CONSTANT Sessions  \* sequences of commands: the command, its Ingresses, its flags

VARIABLES
  session,    \* the commands still to be run, the running one first
  documents,  \* the YAML documents of the running command
  validated,  \* what validate has passed: Ingresses and provider
  cluster     \* the objects in the cluster, by kind, namespace and name

sessionVars  == <<session, documents, validated, cluster>>
emissionVars == <<vars, sessionVars>>

Command   == Head(session).command
IsDualRun == Command \in {"dual-run", "ApplyDualRunMode"}

\* The command dual-run names the Gateway before it converts; another caller of
\* ApplyDualRunMode may leave the name to it.
Effective(c) ==
  IF c.command # "dual-run" \/ c.opts.gatewayName # <<>> \/ ~c.opts.includeGateway THEN c.opts
  ELSE [c.opts EXCEPT !.gatewayName =
          (IF Len(c.ingresses) = 1 THEN c.ingresses[1].name ELSE <<"shared">>) \o <<"staging", "gateway">>]

\* What a command line can ask for: the loader gives a list that is not empty.
IsOptions(o) ==
  /\ o = [entry |-> o.entry, provider |-> o.provider, gatewayName |-> o.gatewayName,
          includeGateway |-> o.includeGateway, preserve |-> o.preserve, slashes |-> o.slashes,
          httpOnly |-> o.httpOnly, skipExtensions |-> o.skipExtensions]
  /\ o.entry \in {"FromIngresses", "FromIngress"} /\ o.provider \in Providers
  /\ IsSeq(o.gatewayName) /\ o.includeGateway \in BOOLEAN
IsIngress(ing) ==
  /\ IsSeq(ing.name) /\ ing.name # <<>>
  /\ IsSeq(ing.rules)
  /\ IsSeq(ing.tls) /\ \A block \in ToSet(ing.tls) : IsSeq(block.hosts)
  /\ \A r \in ToSet(ing.rules) : IsSeq(r.path)
  /\ ing.canary \in BOOLEAN /\ ing.weight \in Int
IsCommand(c) ==
  /\ c.command \in {"convert", "migrate", "validate", "dual-run", "ApplyDualRunMode"}
  /\ IsSeq(c.ingresses) /\ c.ingresses # <<>> /\ \A ing \in ToSet(c.ingresses) : IsIngress(ing)
  /\ IsOptions(c.opts)
  /\ (c.opts.entry = "FromIngress") = (c.command \in {"migrate", "validate"})
  /\ c.opts.entry = "FromIngress" =>  \* they have no such flags
       /\ c.opts.gatewayName = <<>> /\ c.opts.includeGateway
       /\ ~c.opts.preserve /\ ~c.opts.slashes /\ ~c.opts.httpOnly

ASSUME EmissionAssumption ==
  \A s \in Sessions : IsSeq(s) /\ s # <<>> /\ \A c \in ToSet(s) : IsCommand(c)

EmissionInit ==
  /\ session \in Sessions
  /\ ingresses = Head(session).ingresses
  /\ opts = Effective(Head(session))
  /\ stage = "start"
  /\ hostRegex = {} /\ quirks = {}
  /\ built = <<>> /\ todo = <<>> /\ canaries = <<>>
  /\ bundle = NoBundle /\ manifests = <<>>
  /\ documents = <<>> /\ validated = {} /\ cluster = <<>>

\* A command ends, and the next starts from nothing but its Ingresses and flags.
EndCommand ==
  LET rest == Tail(session)
  IN /\ session' = rest
     /\ ingresses' = IF rest = <<>> THEN <<>> ELSE Head(rest).ingresses
     /\ opts' = IF rest = <<>> THEN opts ELSE Effective(Head(rest))
     /\ stage' = IF rest = <<>> THEN "end" ELSE "start"
     /\ hostRegex' = {} /\ quirks' = {}
     /\ built' = <<>> /\ todo' = <<>> /\ canaries' = <<>>
     /\ bundle' = NoBundle /\ manifests' = <<>>
     /\ documents' = <<>>

-----------------------------------------------------------------------------
(* Dual run. *)

HasSuffix(name, word) == Len(name) > 1 /\ Last(name) = word

StagingGatewayName(name) ==
  IF name = <<>> THEN <<"staging", "gateway">>
  ELSE IF Len(name) > 2 /\ IsSuffix(<<"staging", "gateway">>, name) THEN name
  ELSE IF HasSuffix(name, "gateway") THEN Front(name) \o <<"staging", "gateway">>
  ELSE IF "staging" \in ToSet(name) THEN name
  ELSE Append(name, "staging")

ShadowOnce(name) ==  \* mutant: the branches are swapped
  IF HasSuffix(name, "shadow") THEN Append(name, "shadow") ELSE name
ShadowRouteName(name) == IF HasSuffix(name, "shadow") THEN name ELSE Append(name, "shadow")

StagingName(b) ==
  CASE opts.gatewayName # <<>> -> opts.gatewayName
    [] opts.gatewayName = <<>> /\ opts.includeGateway /\ b.gateways # <<>> ->
         StagingGatewayName(b.gateways[1].name)
    [] OTHER -> <<"staging", "gateway">>

\* A given name leaves one Gateway; otherwise each is renamed by itself.
StagedGateways(b) ==
  CASE ~opts.includeGateway -> <<>>
    [] opts.includeGateway /\ (opts.gatewayName = <<>> \/ b.gateways = <<>>) ->
         [i \in 1..Len(b.gateways) |-> [b.gateways[i] EXCEPT !.name = StagingGatewayName(@)]]
    [] OTHER -> <<[b.gateways[1] EXCEPT !.name = opts.gatewayName]>>

\* Targets are told apart by their names: what ends in -gateway is taken for a
\* Gateway.  The policies keep their own names, and so do the certificates.
TargetAsIs(name, staging) == name  \* mutant: targets stay where they were
Retargeted(name, staging) ==
  IF HasSuffix(name, "gateway") \/ name = staging THEN staging ELSE ShadowRouteName(name)

StagedRoute(r, staging)  == [r EXCEPT !.name = ShadowRouteName(@), !.parent.name = staging]
StagedPolicy(p, staging) == [p EXCEPT !.target = Retargeted(@, staging)]

Staged(b) ==
  [gateways     |-> StagedGateways(b),
   routes       |-> [i \in 1..Len(b.routes) |-> StagedRoute(b.routes[i], StagingName(b))],
   policies     |-> [i \in 1..Len(b.policies) |-> StagedPolicy(b.policies[i], StagingName(b))],
   certificates |-> b.certificates,
   findings     |-> b.findings \cup
     {[id |-> "dual-run", ingress |-> <<>>, host |-> "", type |-> "", path |-> <<>>]}]
IsStaged == \E f \in bundle.findings : f.id = "dual-run"

ApplyDualRunMode ==
  /\ stage = "emit" /\ IsDualRun /\ ~IsStaged
  /\ bundle' = Staged(bundle)
  /\ UNCHANGED <<ingresses, opts, stage, hostRegex, quirks, built, todo, canaries, manifests>>
  /\ UNCHANGED sessionVars

-----------------------------------------------------------------------------
(* Documents: gateways, routes, policies, certificates, in this order. *)

Document(kind, node, body) == [key |-> <<kind, node.ns, node.name>>, body |-> body]

\* A listener that passes TLS through refers to no secret.
GatewayDocument(g) ==
  Document("Gateway", g,
    [i \in 1..Len(g.listeners) |->
       [g.listeners[i] EXCEPT !.secret = IF g.listeners[i].mode = "Terminate" THEN @ ELSE None]])
RouteDocument(r) ==
  Document("HTTPRoute", r,
    [source |-> r.source, parent |-> r.parent, hostnames |-> r.hostnames,
     rules |-> [j \in 1..Len(r.rules) |-> Emitted(r.rules[j])]])
PolicyDocument(p) == Document(p.crd, p, [target |-> p.target, settings |-> Sanitized(p)])
CertificateDocument(c) == Document("Certificate", c, [secret |-> c.secret, issuer |-> c.issuer])

EmittedPolicies ==
  LET pols == IF opts.skipExtensions THEN WithoutExtensions(bundle.policies) ELSE bundle.policies
  IN Kept(pols, {p \in ToSet(pols) : IsEmitted(p)})
Documents ==
  [i \in 1..Len(bundle.gateways) |-> GatewayDocument(bundle.gateways[i])]
  \o [i \in 1..Len(bundle.routes) |-> RouteDocument(bundle.routes[i])]
  \o [i \in 1..Len(EmittedPolicies) |-> PolicyDocument(EmittedPolicies[i])]
  \o [i \in 1..Len(bundle.certificates) |-> CertificateDocument(bundle.certificates[i])]

Emit ==
  /\ stage = "emit" /\ Command # "validate" /\ (IsDualRun => IsStaged)
  /\ EmitYAML
  /\ documents' = Documents
  /\ UNCHANGED <<session, validated, cluster>>

\* A failure is reported and changes nothing.
Validate ==
  /\ stage = "emit" /\ Command = "validate"
  /\ validated' = IF ValidateBundle(bundle, opts.provider)
                  THEN validated \cup {<<ingresses, opts.provider>>} ELSE validated
  /\ EndCommand
  /\ UNCHANGED cluster

\* kubectl apply (external): of two documents for one object the later one stays.
Applied(docs) ==
  [k \in {docs[i].key : i \in 1..Len(docs)} |-> Last(SelectSeq(docs, LAMBDA d : d.key = k)).body]
KubectlApply ==
  /\ stage = "done"
  /\ cluster' = [k \in DOMAIN Applied(documents) \cup DOMAIN cluster |->
                    IF k \in DOMAIN Applied(documents) THEN Applied(documents)[k] ELSE cluster[k]]
  /\ EndCommand
  /\ UNCHANGED validated

Convert ==
  /\ FromIngress \/ Analyze \/ SplitCanaries \/ BuildRoute \/ ApplyCanary \/ FinalizeIR
  /\ UNCHANGED sessionVars

EmissionNext == Convert \/ ApplyDualRunMode \/ Emit \/ Validate \/ KubectlApply
EmissionSpec == EmissionInit /\ [][EmissionNext]_emissionVars

-----------------------------------------------------------------------------
(* Properties. *)

DocumentsOf(kinds) == {documents[i] : i \in {j \in 1..Len(documents) : documents[j].key[1] \in kinds}}

\* Documents exist between emission and kubectl apply, one per route; a policy that
\* is emitted says something (sanitizeEnvoyGatewayPolicySpec drops empty shells).
EmissionTypeOK ==
  /\ (documents # <<>>) = (stage = "done")
  /\ (session = <<>>) = (stage = "end")
  /\ Cardinality(DocumentsOf({"HTTPRoute"})) <= Len(built)
  /\ \A i \in 1..Len(documents) :
       documents[i].key[1] \in {"Gateway", "HTTPRoute", "Certificate"} \cup PolicyKinds
  /\ \A d \in DocumentsOf(PolicyKinds) : d.body.settings # {}

\* Every policy is attached to the route that is emitted for its Ingress, in its
\* namespace, under dual-run as well.  Under dual-run an Ingress must not be called
\* like a Gateway, nor like the staging Gateway of the command line: its policies would
\* follow the Gateway (dualrun.go:104).
PoliciesAttach ==
  Done /\ (IsDualRun => \A ing \in ToSet(built) :
                           ~HasSuffix(ing.name, "gateway") /\ ing.name # opts.gatewayName) =>
    \A p \in DocumentsOf(PolicyKinds) : \E r \in DocumentsOf({"HTTPRoute"}) :
      r.key[2] = p.key[2] /\ r.key[3] = p.body.target /\ IsPrefix(r.body.source, p.key[3])

\* One command emits no object twice: kubectl apply would keep the later one and
\* lose the other.  An Ingress with both annotations of one adapter does have two
\* (the table in Policies), a name that two Ingresses of a namespace share is used by
\* both, and under dual-run web-shadow becomes what web becomes.
AtMostOne(ing, keys) == \A k, l \in ing.annotations \cap keys : k = l
DistinctNames(nodes) ==
  \A i, j \in 1..Len(nodes) : nodes[i].ns = nodes[j].ns /\ nodes[i].name = nodes[j].name => i = j
HaveOwnNames ==
  /\ DistinctNames(built)
  /\ \A ing \in ToSet(built) :
       /\ AtMostOne(ing, DOMAIN IPFilter.fields) /\ AtMostOne(ing, DOMAIN RateLimit.fields)
       /\ AtMostOne(ing, ToSet(IssuerKeys))
NoDocumentIsOverwritten ==
  Done /\ HaveOwnNames /\ (IsDualRun => \A ing \in ToSet(built) : ~HasSuffix(ing.name, "shadow")) =>
    \A i, j \in 1..Len(documents) : documents[i].key = documents[j].key => i = j

\* What validate has passed, convert emits with features that the provider has, as
\* long as no flag and no other Ingress of the host asks for more: validate looks at
\* each Ingress alone and without flags (validate.go:38).
FeaturesOfDocuments ==
  (UNION {UNION {FeaturesOfRule(r) : r \in ToSet(d.body.rules)} : d \in DocumentsOf({"HTTPRoute"})})
  \cup {f \in {"SessionPersistence"} : \E d \in DocumentsOf({"SessionAffinityPolicy", "BackendTrafficPolicy"}) :
                                         d.body.settings \cap {"affinity", "loadBalancer"} # {}}
ValidatedFeaturesAreSupported ==
  Done /\ Command = "convert" /\ <<ingresses, opts.provider>> \in validated
  /\ ~opts.preserve /\ ~opts.slashes
  /\ (\A ing \in ToSet(ingresses) : HostsOf(ing) \cap ForcedHosts # {} => ing.regex)
    => FeaturesOfDocuments \subseteq Supported(opts.provider) \cup Noted(opts.provider)

\* A listener that terminates TLS for a host uses the secret of a block that names
\* the host.  With an issuer every listener gets the first block's (convert.go:242).
NoForeignCertificate ==
  Done /\ opts.includeGateway =>
    \A i \in 1..Len(bundle.gateways) :
      LET ing == built[i] IN
      ~HasIssuer(ing) => \A l \in ToSet(documents[i].body) : l.secret # None =>
        \E block \in ToSet(ing.tls) :
          block.secret = l.secret /\ (block.hosts = <<>> \/ l.hostname \in ToSet(block.hosts))

\* migrate goes through FromIngress and convert through FromIngresses: for a single
\* Ingress and no flags, applying the one after the other changes nothing.
Applies(commands) == stage = "done" /\ Command \in commands
MigrateAppliesTheSame ==
  [][Applies({"migrate"}) /\ Len(ingresses) = 1
     /\ <<"HTTPRoute", ingresses[1].ns, ingresses[1].name>> \in DOMAIN cluster
       => cluster' = cluster]_emissionVars

\* dual-run leaves the Gateways and routes alone that a convert has put into the
\* cluster, when no Ingress is itself called after a shadow or a staging area.
PlainName(name) == ToSet(name) \cap {"shadow", "staging"} = {}
DualRunLeaves(kinds) ==
  Applies({"dual-run", "ApplyDualRunMode"}) /\ Head(session).opts.gatewayName = <<>>
  /\ (\A ing \in ToSet(ingresses) : PlainName(ing.name))
  /\ (\A k \in DOMAIN cluster : k[1] \in {"Gateway", "HTTPRoute"} => PlainName(k[3]))
    => \A k \in DOMAIN cluster : k[1] \in kinds => cluster'[k] = cluster[k]
DualRunLeavesLiveRoutes == [][DualRunLeaves({"Gateway", "HTTPRoute"})]_emissionVars

-----------------------------------------------------------------------------
(* The inductive invariant: what there is of a bundle, Ingress by Ingress. *)

\* Names before a dual run, and after it.
StagingParent ==
  CASE opts.gatewayName # <<>> -> opts.gatewayName
    [] opts.gatewayName = <<>> /\ opts.includeGateway -> StagingGatewayName(GatewayName(built[1]))
    [] OTHER -> <<"staging", "gateway">>
ParentOf(ing) == [name |-> IF IsStaged THEN StagingParent ELSE GatewayName(ing), ns |-> ing.ns]
TargetOf(ing) == IF IsStaged THEN Retargeted(ing.name, StagingParent) ELSE ing.name

GatewayCount ==
  CASE ~opts.includeGateway \/ built = <<>> -> 0
    [] opts.includeGateway /\ built # <<>> /\ opts.entry = "FromIngresses" -> 1
    [] OTHER -> Len(built)
GatewayOf(ing) == [name |-> ParentOf(ing).name, ns |-> ing.ns, listeners |-> Listeners(ing)]
RouteOf(ing, rules) ==
  [name |-> IF IsStaged THEN ShadowRouteName(ing.name) ELSE ing.name, ns |-> ing.ns,
   source |-> ing.name, hostnames |-> CollectHostnames(ing), parent |-> ParentOf(ing), rules |-> rules]
PoliciesOfBuilt ==
  UNION {{[PolicyOf(ing, k, opts.provider) EXCEPT !.target = TargetOf(ing)] :
            k \in ToSet(PolicyKeys) \cap ing.annotations} : ing \in ToSet(built)}
CertificatesOfBuilt == UNION {ToSet(CertificatesOf(ing)) : ing \in ToSet(built)}

IsRule(rule) ==
  /\ rule = [type |-> rule.type, path |-> rule.path, header |-> rule.header, filters |-> rule.filters,
             redirect |-> rule.redirect, backends |-> rule.backends]
  /\ rule.type \in {"Exact", "PathPrefix", "RegularExpression"}
  /\ rule.path # <<>>

GatewaysFit == bundle.gateways = [i \in 1..GatewayCount |-> GatewayOf(built[i])]
RoutesFit ==
  /\ bundle.routes = [i \in 1..Len(built) |-> RouteOf(built[i], bundle.routes[i].rules)]
  /\ \A i \in 1..Len(built) :
       /\ IsSeq(bundle.routes[i].rules)
       /\ \A rule \in ToSet(bundle.routes[i].rules) : IsRule(rule)
PoliciesFit ==
  /\ bundle.policies \in Seq(PoliciesOfBuilt)
  /\ bundle.certificates \in Seq(CertificatesOfBuilt)
BundleFits ==
  /\ bundle = [gateways |-> bundle.gateways, routes |-> bundle.routes, policies |-> bundle.policies,
               certificates |-> bundle.certificates, findings |-> bundle.findings]
  /\ GatewaysFit /\ RoutesFit /\ PoliciesFit

PipelineFits ==
  /\ stage \in {"start", "split", "build", "merge", "emit", "done", "end"}
  /\ stage \in {"start", "split", "end"} => built = <<>> /\ todo = <<>> /\ canaries = <<>>
  /\ stage = "build" => todo # <<>>
  /\ stage \in {"merge", "emit", "done"} => todo = <<>> /\ built # <<>>
  /\ stage = "split" => opts.entry = "FromIngresses"
  /\ \A s \in {built, todo, canaries} : s \in Seq(ToSet(ingresses))
  /\ \A f \in quirks : f.id # "dual-run"
  /\ stage \notin {"emit", "done"} => ~IsStaged

CommandFits ==
  /\ IsSeq(session) /\ \A c \in ToSet(session) : IsCommand(c)
  /\ IsOptions(opts)
  /\ session # <<>> => ingresses = Head(session).ingresses /\ opts = Effective(Head(session))
  /\ session = <<>> => stage = "end" /\ ingresses = <<>>
  /\ session # <<>> => stage # "end"
  /\ session # <<>> /\ IsStaged => IsDualRun
  /\ documents = IF stage = "done" THEN Documents ELSE <<>>
  /\ manifests = IF stage = "done" THEN EmittedRoutes ELSE <<>>
  /\ stage = "done" => (IsDualRun => IsStaged)

EmissionInv ==
  /\ CommandFits /\ PipelineFits /\ BundleFits
  /\ ConversionTypeOK /\ EmissionTypeOK

(* What the rules of a route still owe to their Ingress; the premises are those of *)
(* the properties about them.                                                *)

\* The weights of a rule: none, or parts of a hundred once one canary has joined.
IsBacked(rule) ==
  /\ IsSeq(rule.backends)
  /\ \A i \in 1..Len(rule.backends) :
       rule.backends[i] = [svc |-> rule.backends[i].svc, weight |-> rule.backends[i].weight]
IsWeighted(rule) ==
  /\ IsBacked(rule)
  /\ Len(rule.backends) = 1 => rule.backends[1].weight = None
  /\ Len(rule.backends) = 2 =>
       /\ rule.backends[1].weight \in Int /\ rule.backends[2].weight \in Int
       /\ rule.backends[1].weight + rule.backends[2].weight = 100
WeightsFit ==
  (\A ing \in ToSet(ingresses) : ing.canary => ~ing.header /\ ing.weight <= 100) =>
    \A i \in 1..Len(built) : \A rule \in ToSet(bundle.routes[i].rules) : IsWeighted(rule)

\* Once the hosts in regex mode are known, what was found about them is reported.
QuirksFit ==
  /\ opts.entry = "FromIngresses" /\ stage \notin {"start", "end"} =>
       hostRegex = ForcedHosts /\ quirks = QuirkFindings(ForcedHosts)
  /\ stage \in {"emit", "done"} => quirks \subseteq bundle.findings

\* A path that is none of NGINX's own is a regular expression on a host in regex mode.
IsRegexOf(rule, r) ==
  rule.type = "RegularExpression" /\ rule.path \in {PathOf(r), PreserveRegexPath(PathOf(r))}
RegexesFit ==
  \A i \in 1..Len(built) : \A r \in ToSet(built[i].rules) :
    IsForced(built[i], r.host) /\ ~IsPathOfNGINX(r) =>
      \E rule \in ToSet(bundle.routes[i].rules) : IsRegexOf(rule, r)

\* Where an Ingress shares a host with the first canary, such a one gets the only route.
PrimaryFits ==
  LET cs     == Kept(ingresses, {i \in ToSet(ingresses) : i.canary})
      paired == {i \in ToSet(ingresses) : ~i.canary /\ HostSet(i) \cap HostSet(cs[1]) # {}}
  IN opts.entry = "FromIngresses" /\ stage \in {"build", "merge", "emit", "done"}
     /\ cs # <<>> /\ paired # {} =>
       Len(built) + Len(todo) = 1 /\ ToSet(built) \cup ToSet(todo) \subseteq paired

RulesInv ==
  /\ canaries \in Seq({ing \in ToSet(ingresses) : ing.canary})
  /\ WeightsFit /\ QuirksFit /\ RegexesFit /\ PrimaryFits

\* Where the rules of a route come from: the paths of its Ingress, which all have one,
\* their slash redirects, and rules that match by prefix.
IsOfPath(rule, ing, r) ==
  LET forced == IsForced(ing, r.host)
  IN /\ rule.type = IF opts.preserve /\ forced THEN "RegularExpression" ELSE Lowered(r, forced)
     /\ rule.path = IF opts.preserve /\ forced THEN PreserveRegexPath(PathOf(r)) ELSE PathOf(r)
     /\ PrimaryService(rule) = r.svc
IsSlashOf(rule, r) ==
  /\ SlashRedirects(r) # <<>>
  /\ rule.type = "Exact" /\ rule.path = Front(r.path) /\ rule.redirect = "slash"
IsWhole(rule, ing) ==
  /\ rule.type = "PathPrefix"
  /\ ing.redirect # None \/ ing.backend # None \/ \E c \in ToSet(ingresses) : c.canary /\ c.header
HasOrigin(rule, ing) ==
  IsWhole(rule, ing) \/ \E r \in ToSet(ing.rules) : IsOfPath(rule, ing, r) \/ IsSlashOf(rule, r)
OriginsFit ==
  \A i \in 1..Len(built) :
    LET rules == ToSet(bundle.routes[i].rules)
    IN /\ \A rule \in rules : IsBacked(rule) /\ HasOrigin(rule, built[i])
       /\ \A r \in ToSet(built[i].rules) :
            /\ \E rule \in rules : IsOfPath(rule, built[i], r)
            /\ SlashRedirects(r) # <<>> => \E rule \in rules : IsSlashOf(rule, r)

\* What validate has passed needs nothing that the provider may lack.
Needs(ing) ==
  {f \in {"RegexPath"} : ing.regex /\ \E r \in ToSet(ing.rules) : r.type \notin {"Exact", "Prefix"}}
  \cup {f \in {"SessionPersistence"} : "affinity" \in ing.annotations}
ChecksFit ==
  /\ opts.entry = "FromIngress" /\ stage \in {"build", "merge", "emit", "done"} =>
       ToSet(ingresses) \subseteq ToSet(built) \cup ToSet(todo)
  /\ \A ing \in ToSet(built) : "affinity" \in ing.annotations =>
       \E p \in ToSet(bundle.policies) : p.kind = "SessionAffinity"
  /\ \A v \in validated : \A ing \in ToSet(v[1]) :
       Needs(ing) \subseteq Supported(v[2]) \cup Noted(v[2])

OriginsInv == hostRegex \subseteq ForcedHosts /\ OriginsFit /\ ChecksFit

\* Policies and certificates have names of their own, as long as the Ingresses have.
NamesFit == HaveOwnNames => DistinctNames(bundle.policies) /\ DistinctNames(bundle.certificates)

\* All that the properties of the documents and the requests need of a bundle.
BundleInv == RulesInv /\ OriginsInv /\ NamesFit

(* What the documentation says and the code does not do. *)

\* "emitted resources are staging/shadow" (dualrun.go:27): nothing that a convert
\* has put into the cluster is changed by applying a dual run.
DualRunLeavesLiveObjects ==
  [][DualRunLeaves({"Gateway", "HTTPRoute", "Certificate"} \cup PolicyKinds)]_emissionVars
=============================================================================
