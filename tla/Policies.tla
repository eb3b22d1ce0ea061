------------------------------ MODULE Policies ------------------------------
(***************************************************************************)
(* The policy and certificate nodes an Ingress gives, and what is left of   *)
(* each when it is emitted.  An Ingress carries a set of annotation keys;    *)
(* the registry visits them in sorted order, and the first key of a family   *)
(* that merges does the work for all of it.  What a policy says is the set   *)
(* of the top-level fields of its spec; their values are left out.           *)
(*                                                                         *)
(* A name is a sequence of words, joined by dashes in the code: <<"web",    *)
(* "shadow">> is web-shadow.  So a test for a suffix "-shadow" asks for the *)
(* last of several words.                                                   *)
(***************************************************************************)
EXTENDS Integers, FiniteSets, SequencesExt

IsSeq(s) == s \in Seq(ToSet(s))

\* The members of s that are in S, in their order.
Kept(s, S) == FlattenSeq([i \in 1..Len(s) |-> IF s[i] \in S THEN <<s[i]>> ELSE <<>>])

EnvoyGateway == "gateway.envoyproxy.io"
Providers    == {"standard", "envoy-gateway", "cilium", "istio", "kong"}

(* The adapters: how their policy is called after the Ingress, the kind of  *)
(* the node, the resource for each provider, and the fields that Envoy      *)
(* Gateway's resource gets, by annotation.                                  *)

\* What Envoy Gateway has, and what the others have.
EnvoyOr(crd, other) == [p \in Providers |-> IF p = "envoy-gateway" THEN crd ELSE other]

Affinity ==
  [suffix |-> <<"affinity">>, kind |-> "SessionAffinity",
   crd    |-> EnvoyOr("BackendTrafficPolicy", "SessionAffinityPolicy"),
   fields |-> [k \in {"affinity"} |-> "loadBalancer"]]
IPFilter ==
  [suffix |-> <<"ipfilter">>, kind |-> "IPFilter",
   crd    |-> EnvoyOr("SecurityPolicy", "IPFilterPolicy"),
   fields |-> [k \in {"denylist-source-range", "whitelist-source-range"} |-> "authorization"]]
BasicAuth ==
  [suffix |-> <<"basicauth">>, kind |-> "BasicAuth",
   crd    |-> EnvoyOr("SecurityPolicy", "BasicAuthPolicy"),
   fields |-> [k \in {"auth-type"} |-> "basicAuth"]]
RateLimit ==
  [suffix |-> <<"ratelimit">>, kind |-> "RateLimit",
   crd    |-> [p \in Providers |->
                 CASE p = "envoy-gateway" -> "BackendTrafficPolicy"
                   [] p = "cilium"        -> "CiliumEnvoyConfig"
                   [] p = "istio"         -> "AuthorizationPolicy"
                   [] p = "kong"          -> "KongPlugin"
                   [] p = "standard"      -> "RateLimitPolicy"],
   fields |-> [k \in {"limit-connections", "limit-rpm", "limit-rps"} |-> "rateLimit"]]
TimeoutBody ==
  [suffix |-> <<"backend">>, kind |-> "BackendTuning",
   crd    |-> [p \in Providers |-> "BackendTrafficPolicy"],
   fields |-> [k \in {"proxy-body-size", "proxy-read-timeout"} |->
                 IF k = "proxy-body-size" THEN "connection" ELSE "timeout"]]
BackendTLS ==
  [suffix |-> <<"backend", "tls">>, kind |-> "BackendTuning",
   crd    |-> [p \in Providers |-> "BackendTLSPolicy"],
   fields |-> [k \in {"proxy-ssl-secret"} |-> "secretName"]]

\* The kinds of the resources.
PolicyKinds ==
  {"BackendTrafficPolicy", "SecurityPolicy", "BackendTLSPolicy", "SessionAffinityPolicy", "IPFilterPolicy",
   "BasicAuthPolicy", "RateLimitPolicy", "CiliumEnvoyConfig", "AuthorizationPolicy", "KongPlugin"}

\* The annotations that make a policy, in the order of their keys.
PolicyKeys ==
  <<"affinity", "auth-type", "denylist-source-range", "limit-connections", "limit-rpm", "limit-rps",
    "proxy-body-size", "proxy-buffering", "proxy-read-timeout", "proxy-ssl-secret",
    "whitelist-source-range">>
TuningKeys == {"proxy-body-size", "proxy-buffering", "proxy-read-timeout"}
Adapter(key) ==
  IF key \in TuningKeys THEN TimeoutBody
  ELSE CHOOSE a \in {Affinity, IPFilter, BasicAuth, RateLimit, BackendTLS} : key \in DOMAIN a.fields

\* BackendTLSPolicy belongs to the Gateway API; three providers have a rate limit
\* of their own; where there is nothing better the group is GateShift's.
Group(key, provider) ==
  CASE Adapter(key) = BackendTLS -> "gateway.networking.k8s.io"
    [] Adapter(key) # BackendTLS /\ provider = "envoy-gateway" -> EnvoyGateway
    [] Adapter(key) = RateLimit /\ provider \in {"cilium", "istio", "kong"} -> provider
    [] OTHER -> "gateshift.io"

\* Only one policy is made of all tuning annotations.  Envoy Gateway has a field for
\* some of them, the other resources take each.
Merged(key, keys) == IF key \in TuningKeys THEN keys \cap TuningKeys ELSE {key}
Settings(key, keys, provider) ==
  IF Group(key, provider) \in {"gateshift.io", "cilium", "istio", "kong"} THEN Merged(key, keys)
  ELSE {Adapter(key).fields[k] : k \in Merged(key, keys) \cap DOMAIN Adapter(key).fields}

PolicyOf(ing, key, provider) ==
  [name |-> ing.name \o Adapter(key).suffix, ns |-> ing.ns, kind |-> Adapter(key).kind,
   group |-> Group(key, provider), crd |-> Adapter(key).crd[provider],
   target |-> ing.name, settings |-> Settings(key, ing.annotations, provider)]

\* A tuning key does nothing once an earlier one has claimed the family.
ClaimedByNone(key, keys) == FALSE  \* mutant: each key makes a policy
Claimed(key, keys) ==
  key \in TuningKeys /\ \E i, j \in 1..Len(PolicyKeys) :
    i < j /\ PolicyKeys[j] = key /\ PolicyKeys[i] \in keys \cap TuningKeys
PoliciesOf(ing, provider) ==
  LET keys == Kept(PolicyKeys, {k \in ing.annotations : ~Claimed(k, ing.annotations)})
  IN [i \in 1..Len(keys) |-> PolicyOf(ing, keys[i], provider)]

\* A certificate for each of the two issuer annotations, of one name.
IssuerKeys == <<"cluster-issuer", "issuer">>
HasIssuer(ing) == ing.annotations \cap ToSet(IssuerKeys) # {}
CertificatesOf(ing) ==
  LET keys == Kept(IssuerKeys, ing.annotations)
  IN [i \in 1..Len(keys) |-> [name |-> ing.name \o <<"cert">>, ns |-> ing.ns,
                              secret |-> ing.name \o <<"tls">>, issuer |-> keys[i]]]

\* Filters for the rules that have backends; redirects are not among them.
FilterOf ==
  "rewrite-target" :> "URLRewrite" @@ "enable-cors" :> "ResponseHeaderModifier"
  @@ "x-forwarded-prefix" :> "RequestHeaderModifier"
FiltersOf(ing) == {FilterOf[k] : k \in ing.annotations \cap DOMAIN FilterOf}

-----------------------------------------------------------------------------
(* Emission of a policy. *)

EnvoyFields ==
  [BackendTrafficPolicy |->
     {"loadBalancer", "retry", "proxyProtocol", "tcpKeepalive", "healthCheck", "circuitBreaker", "timeout",
      "connection", "dns", "http2", "rateLimit", "faultInjection", "useClientProtocol", "responseOverride"},
   SecurityPolicy |-> {"cors", "basicAuth", "jwt", "oidc", "extAuth", "authorization"}]

\* What is left of a policy: of Envoy Gateway's, the fields its kind is known to have.
Sanitized(pol) ==
  IF pol.group # EnvoyGateway THEN pol.settings
  ELSE IF pol.crd \in DOMAIN EnvoyFields THEN pol.settings \cap EnvoyFields[pol.crd]
  ELSE {}

\* A policy of Envoy Gateway that says nothing is not emitted.
OfKnownKind(pol) ==  \* mutant: an empty policy is emitted
  pol.group = EnvoyGateway => pol.crd \in DOMAIN EnvoyFields
IsEmitted(pol) == pol.group = EnvoyGateway => Sanitized(pol) # {}

\* StripExtensionPolicies: for clusters without the resources of Envoy Gateway.
WithoutExtensions(pols) ==
  Kept(pols, {p \in ToSet(pols) :
                ~(p.group = EnvoyGateway
                  /\ p.crd \in {"BackendTrafficPolicy", "SecurityPolicy", "ClientTrafficPolicy"})})
=============================================================================
