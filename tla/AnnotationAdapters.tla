------------------------- MODULE AnnotationAdapters -------------------------
(***************************************************************************)
(* The annotation translation engine: Registry.Translate walks the         *)
(* annotations of one Ingress in sorted order and hands each to the plug-in *)
(* that CanHandle it.  Adapters of a family of annotations work once for    *)
(* all of them: they read their siblings' values and claim their keys, and  *)
(* Translate skips a claimed key.  What each leaves in the shared Context   *)
(* (filters, policies, certificates, findings, claims) is modelled; what a  *)
(* filter says is reduced to its kind and to the annotations it carries.    *)
(*                                                                         *)
(* Keys lose their prefix: "issuer" and "cluster-issuer" are cert-manager.io *)
(* keys, "app" stands for a key of no migration tool and "rewrites" for an  *)
(* nginx.org key; all others are nginx.ingress.kubernetes.io keys.          *)
(***************************************************************************)
EXTENDS Naturals, SequencesExt

CONSTANTS
  AnnotationMaps,  \* the annotations an Ingress may have: functions from keys to values
  Providers        \* the target providers

VARIABLES
  annotations,  \* the Ingress' annotations
  provider,     \* the target provider
  todo,         \* the keys Translate has not looked at
  ctx           \* adapters.Context

vars == <<annotations, provider, todo, ctx>>

-----------------------------------------------------------------------------
(* Annotation families, and the order of sort.Strings. *)

SSLRedirectKeys == {"ssl-redirect", "force-ssl-redirect"}
ExternalRedirectKeys == {"permanent-redirect", "temporal-redirect"}
CORSKeys == {"enable-cors", "cors-allow-origin", "cors-allow-methods", "cors-allow-headers",
             "cors-expose-headers", "cors-allow-credentials"}
RateLimitKeys == {"limit-rps", "limit-rpm", "limit-connections"}
CertManagerKeys == {"cluster-issuer", "issuer"}
AffinityKeys == {"affinity", "session-cookie-name", "session-cookie-expires",
                 "session-cookie-max-age", "session-cookie-secure", "session-cookie-samesite",
                 "session-cookie-conditional-samesite-none", "session-cookie-path",
                 "session-cookie-change-on-failure", "session-cookie-hash"}
IPAllowKeys == {"whitelist-source-range", "denylist-source-range"}
ProxyTuningKeys == {"proxy-body-size", "proxy-read-timeout", "proxy-send-timeout",
                    "backend-protocol", "proxy-connect-timeout", "proxy-buffering",
                    "client-body-buffer-size", "proxy-next-upstream"}
CanaryKeys == {"canary", "canary-weight", "canary-by-header"}
RegexKeys == {"use-regex", "upstream-hash-by"}
BackendTLSKeys == {"proxy-ssl-secret", "proxy-ssl-verify"}
MirrorKeys == {"mirror", "mirror-target"}
BasicAuthKeys == {"auth-type", "auth-secret"}
SnippetKeys == {"configuration-snippet", "server-snippet", "modsecurity-snippet"}
AuthKeys == {"auth-url", "auth-signin", "auth-tls-secret"}
SingleKeys == {"rewrite-target", "from-to-www-redirect", "app-root", "x-forwarded-prefix",
               "enable-access-log", "custom-http-errors", "default-backend", "ssl-passthrough"}

Families ==
  {SSLRedirectKeys, ExternalRedirectKeys, CORSKeys, RateLimitKeys, CertManagerKeys, AffinityKeys,
   IPAllowKeys, ProxyTuningKeys, CanaryKeys, RegexKeys, BackendTLSKeys, MirrorKeys, BasicAuthKeys,
   SnippetKeys, AuthKeys} \cup {{k} : k \in SingleKeys}
HandledKeys == UNION Families
ForeignKeys == {"app"}
UnknownKeys == {"canary-by-header-value", "rewrites"}
Keys        == HandledKeys \cup UnknownKeys \cup ForeignKeys
AnyKey(k) == k \in Keys  \* mutant: the prefix is not looked at
IsMigrationAnnotation(k) == k \notin ForeignKeys

SortedKeys ==
  <<"app", "cluster-issuer", "issuer", "affinity", "app-root", "auth-secret", "auth-signin",
    "auth-tls-secret", "auth-type", "auth-url", "backend-protocol", "canary",
    "canary-by-header", "canary-by-header-value", "canary-weight", "client-body-buffer-size",
    "configuration-snippet", "cors-allow-credentials", "cors-allow-headers",
    "cors-allow-methods", "cors-allow-origin", "cors-expose-headers", "custom-http-errors",
    "default-backend", "denylist-source-range", "enable-access-log", "enable-cors",
    "force-ssl-redirect", "from-to-www-redirect", "limit-connections", "limit-rpm",
    "limit-rps", "mirror", "mirror-target", "modsecurity-snippet", "permanent-redirect",
    "proxy-body-size", "proxy-buffering", "proxy-connect-timeout", "proxy-next-upstream",
    "proxy-read-timeout", "proxy-send-timeout", "proxy-ssl-secret", "proxy-ssl-verify",
    "rewrite-target", "server-snippet", "session-cookie-change-on-failure",
    "session-cookie-conditional-samesite-none", "session-cookie-expires",
    "session-cookie-hash", "session-cookie-max-age", "session-cookie-name",
    "session-cookie-path", "session-cookie-samesite", "session-cookie-secure",
    "ssl-passthrough", "ssl-redirect", "temporal-redirect", "upstream-hash-by", "use-regex",
    "whitelist-source-range", "x-forwarded-prefix", "rewrites">>

(* Values are classes: "blank" is white space only, "https" a URL with that *)
(* scheme, "7" a positive integer, the Snippets what a snippet is made of.  *)
Snippets == {"headers", "headers and more", "deny agent", "return 301", "rewrite", "lua"}
Values   == Snippets \cup {"", "blank", "true", "false", "7", "https", "text"}

Trim(v)     == IF v = "blank" THEN "" ELSE v
IsTruthy(v) == v = "true"

Position == [k \in Keys |-> CHOOSE i \in 1..Len(SortedKeys) : SortedKeys[i] = k]

ASSUME AdapterAssumption ==
  /\ \A a \in AnnotationMaps : DOMAIN a \subseteq Keys /\ \A k \in DOMAIN a : a[k] \in Values
  /\ Providers \subseteq {"standard", "envoy-gateway", "cilium", "istio", "kong"}
  /\ \A F, G \in Families : F = G \/ F \cap G = {}
  /\ SortedKeys \in Seq(Keys) /\ ToSet(SortedKeys) = Keys

-----------------------------------------------------------------------------
(* The Context. *)

Statuses    == {"direct", "requires_policy", "untranslatable"}
FilterKinds == {"URLRewrite", "RequestRedirect", "RequestHeaderModifier", "ResponseHeaderModifier",
                "ExtensionRef"}
Filters     == [kind : FilterKinds, scheme : {"", "https"}, from : SUBSET Keys]
ObjectSuffixes == {"-affinity", "-backend", "-backend-tls", "-basicauth", "-ratelimit", "-ipfilter",
                "-accesslog", "-custom-errors", "-ua-deny", "-cert"}
Objects     == [name : ObjectSuffixes, from : SUBSET Keys]
Contexts ==
  [filters : Seq(Filters), policies : Seq(Objects), certificates : Seq(Objects),
   findings : [Keys -> Seq(Statuses)],
   tls : [mode : {"", "Terminate", "Passthrough"}, issuers : SUBSET CertManagerKeys],
   claimed : SUBSET (HandledKeys \cup UnknownKeys),
   defaultBackend : Values, sslPassthrough : BOOLEAN]

NoTLS == [mode |-> "", issuers |-> {}]
\* Findings are kept by the annotation they name: their order is only layout.
NewContext ==
  [filters |-> <<>>, policies |-> <<>>, certificates |-> <<>>, findings |-> [k \in Keys |-> <<>>],
   tls |-> NoTLS, claimed |-> {}, defaultBackend |-> "", sslPassthrough |-> FALSE]

ClaimNothing(c, keys) == c  \* mutant: claims are not kept
Claim(c, keys) == [c EXCEPT !.claimed = @ \cup keys]

\* A finding claims the key it is about.
Reported(findings, keys, status) ==
  [k \in Keys |-> IF k \in keys THEN Append(findings[k], status) ELSE findings[k]]
AddFindings(c, keys, status) == [Claim(c, keys) EXCEPT !.findings = Reported(@, keys, status)]
AddFinding(c, key, status)   == AddFindings(c, {key}, status)

\* from: the annotation that the filter or policy is made for, or, where a family has
\* one for all of its annotations, those whose values it carries.
AddFilter(c, kind, scheme, from) ==
  [c EXCEPT !.filters = Append(@, [kind |-> kind, scheme |-> scheme, from |-> from])]
AddPolicy(c, suffix, from) ==
  [c EXCEPT !.policies = Append(@, [name |-> suffix, from |-> from])]

-----------------------------------------------------------------------------
(* Translate: the loop around the adapters. *)

Init ==
  /\ annotations \in AnnotationMaps
  /\ provider \in Providers
  /\ todo = DOMAIN annotations
  /\ ctx = NewContext

Key   == CHOOSE k \in todo : \A j \in todo : Position[k] <= Position[j]
Value == annotations[Key]
Present(keys) == keys \cap DOMAIN annotations
\* A missing annotation reads as the empty string, and white space is nothing where the
\* adapter trims the value before it asks.
TrimmedKeys == {"session-cookie-expires", "session-cookie-max-age", "session-cookie-samesite",
                "session-cookie-path", "session-cookie-hash", "auth-type", "auth-secret",
                "cluster-issuer", "issuer"}
Lookup(k) == IF k \in DOMAIN annotations THEN annotations[k] ELSE ""
IsGiven(k) == (IF k \in TrimmedKeys THEN Trim(Lookup(k)) ELSE Lookup(k)) # ""
NonEmpty(keys) == {k \in keys : IsGiven(k)}
ForEnvoyGateway == provider = "envoy-gateway"

IsDueUnconditionally == todo # {}  \* mutant: claimed keys are visited again
IsDue == todo # {} /\ Key \notin ctx.claimed

\* The turn of a key that an adapter of these keys handles, leaving the context c.
Transform(keys, c) ==
  /\ IsDue
  /\ Key \in keys
  /\ ctx' = Claim(c, {Key})
  /\ todo' = todo \ {Key}
  /\ UNCHANGED <<annotations, provider>>

SkipClaimed ==
  /\ todo # {}
  /\ ~IsDue
  /\ todo' = todo \ {Key}
  /\ UNCHANGED <<annotations, provider, ctx>>

NoAdapter ==
  Transform({k \in Keys \ HandledKeys : IsMigrationAnnotation(k)},
            AddFinding(ctx, Key, "requires_policy"))

IgnoreForeign ==
  /\ IsDue
  /\ Key \notin HandledKeys
  /\ ~IsMigrationAnnotation(Key)
  /\ todo' = todo \ {Key}
  /\ UNCHANGED <<annotations, provider, ctx>>

-----------------------------------------------------------------------------
(* Level 1 adapters. *)

RewriteAdapter ==
  Transform({"rewrite-target"},
            AddFinding(AddFilter(ctx, "URLRewrite", "", {Key}), Key, "direct"))

\* An HTTPS redirect of either key, of an external redirect or of a snippet is enough.
HTTPSRedirects(c) ==
  {i \in 1..Len(c.filters) : c.filters[i].kind = "RequestRedirect" /\ c.filters[i].scheme = "https"}
RedirectToHTTPSAnew(c) == AddFilter(c, "RequestRedirect", "https", {Key})  \* mutant: always one more
RedirectToHTTPS(c) ==
  IF HTTPSRedirects(c) # {} THEN c ELSE AddFilter(c, "RequestRedirect", "https", {Key})
SSLRedirectAdapter ==
  Transform(SSLRedirectKeys,
            AddFinding(IF IsTruthy(Value) THEN RedirectToHTTPS(ctx) ELSE ctx, Key, "direct"))

ExternalRedirectAdapter ==
  Transform(ExternalRedirectKeys,
            IF Trim(Value) = ""
            THEN AddFinding(ctx, Key, "untranslatable")
            ELSE AddFinding(AddFilter(ctx, "RequestRedirect",
                                      IF Value = "https" THEN "https" ELSE "", {Key}),
                            Key, "direct"))

SiblingPresent(keys) == Present(keys \ {Key}) # {}  \* mutant: a sibling that is merely there
SiblingClaimed(keys) == (keys \ {Key}) \cap ctx.claimed # {}

\* One header filter for the family, reported under cors-allow-origin; without
\* enable-cors an origin is enough to turn it on.
CORSAdapter ==
  LET off    == ~IsTruthy(Lookup("enable-cors")) /\ Lookup("cors-allow-origin") = ""
      values == NonEmpty(CORSKeys \ {"enable-cors", "cors-allow-credentials"})
                  \cup {k \in {"cors-allow-credentials"} : IsTruthy(Lookup(k))}
  IN Transform(CORSKeys,
       IF SiblingClaimed(CORSKeys) THEN ctx
       ELSE Claim(IF off THEN AddFinding(ctx, Key, "direct")
                  ELSE AddFinding(AddFilter(ctx, "ResponseHeaderModifier", "", values),
                                  "cors-allow-origin", "direct"),
                  CORSKeys))

WWWRedirectAdapter ==
  Transform({"from-to-www-redirect"},
            AddFinding(IF IsTruthy(Value) THEN AddFilter(ctx, "RequestRedirect", "", {Key}) ELSE ctx,
                       Key, "direct"))

AppRootAdapter ==
  Transform({"app-root"}, AddFinding(AddFilter(ctx, "RequestRedirect", "", {Key}), Key, "direct"))

XForwardedPrefixAdapter ==
  Transform({"x-forwarded-prefix"},
            AddFinding(AddFilter(ctx, "RequestHeaderModifier", "", {Key}), Key, "direct"))

DefaultBackendAdapter ==
  Transform({"default-backend"},
            IF Trim(Value) = ""
            THEN AddFinding(ctx, Key, "untranslatable")
            ELSE AddFinding([ctx EXCEPT !.defaultBackend = Value], Key, "direct"))

-----------------------------------------------------------------------------
(* Level 2 adapters. *)

RateLimitPolicyFirst(c) ==  \* mutant: the policy is added before its value is checked
  AddFinding(AddPolicy(c, "-ratelimit", {Key}), Key,
             IF Value = "7" THEN "requires_policy" ELSE "untranslatable")
RateLimit(c) ==
  IF Value = "7"
  THEN AddFinding(AddPolicy(c, "-ratelimit", {Key}), Key, "requires_policy")
  ELSE AddFinding(c, Key, "untranslatable")
RateLimitAdapter == Transform(RateLimitKeys, RateLimit(ctx))

\* Each issuer key makes a certificate, though it may name no issuer; the TLS block
\* keeps a mode it already has.
CertManagerAdapter ==
  Transform(CertManagerKeys,
    AddFinding([ctx EXCEPT !.tls = [mode |-> IF @.mode = "" THEN "Terminate" ELSE @.mode,
                                    issuers |-> @.issuers \cup NonEmpty({Key})],
                           !.certificates = Append(@, [name |-> "-cert", from |-> {Key}])],
               Key, "requires_policy"))

\* One finding for each of the keys.
ReportAll(c, keys) == AddFindings(c, keys, "requires_policy")

\* Envoy Gateway's consistent hash takes the cookie's name, one TTL and three attributes.
AffinityFields ==
  IF ForEnvoyGateway
  THEN NonEmpty({"session-cookie-name", "session-cookie-samesite", "session-cookie-secure",
                 "session-cookie-path", "session-cookie-max-age"})
         \cup {k \in NonEmpty({"session-cookie-expires"}) : ~IsGiven("session-cookie-max-age")}
  ELSE NonEmpty(AffinityKeys)
AffinityAdapter ==
  Transform(AffinityKeys,
    IF SiblingClaimed(AffinityKeys) THEN ctx
    ELSE Claim(ReportAll(AddPolicy(ctx, "-affinity", AffinityFields),
                         {"affinity"} \cup Present(AffinityKeys)),
               AffinityKeys))

IPAllowAdapter ==
  Transform(IPAllowKeys, AddFinding(AddPolicy(ctx, "-ipfilter", {Key}), Key, "requires_policy"))

\* Envoy Gateway has fields for three of the eight; the rest are findings only.
TuningFieldsOfKey == NonEmpty({Key} \cap ProxyTuningKeys)  \* mutant: the siblings' values are left behind
TuningFields ==
  IF ForEnvoyGateway
  THEN NonEmpty({"proxy-body-size", "proxy-connect-timeout", "proxy-read-timeout"})
         \cup {k \in NonEmpty({"proxy-send-timeout"}) : ~IsGiven("proxy-read-timeout")}
  ELSE NonEmpty(ProxyTuningKeys)
TimeoutBodyAdapter ==
  Transform(ProxyTuningKeys,
    IF SiblingClaimed(ProxyTuningKeys) THEN ctx
    ELSE Claim(ReportAll(AddPolicy(ctx, "-backend", TuningFields), Present(ProxyTuningKeys)),
               ProxyTuningKeys))

CanaryAdapter == Transform(CanaryKeys, AddFinding(ctx, Key, "requires_policy"))

RegexAdapter == Transform(RegexKeys, AddFinding(ctx, Key, "requires_policy"))

\* Reported under the key that comes first; its sibling is claimed.
BackendTLSAdapter ==
  Transform(BackendTLSKeys,
    Claim(AddFinding(AddPolicy(ctx, "-backend-tls", NonEmpty(BackendTLSKeys)), Key, "requires_policy"),
          BackendTLSKeys))

MirrorAdapter ==
  LET target == IF Lookup("mirror-target") # "" THEN "mirror-target" ELSE Key
  IN Transform(MirrorKeys,
       IF Key = "mirror" /\ ~IsTruthy(Value)
       THEN AddFinding(ctx, Key, "direct")
       ELSE Claim(AddFinding(AddFilter(ctx, "ExtensionRef", "", {target}), Key, "requires_policy"),
                  MirrorKeys))

\* Not emitted as a policy for Envoy Gateway.
PolicyUnlessEnvoyGateway(c, suffix) == IF ForEnvoyGateway THEN c ELSE AddPolicy(c, suffix, {Key})

AccessLogAdapter ==
  Transform({"enable-access-log"},
            AddFinding(PolicyUnlessEnvoyGateway(ctx, "-accesslog"), Key, "requires_policy"))

CustomHTTPErrorsAdapter ==
  Transform({"custom-http-errors"},
            AddFinding(PolicyUnlessEnvoyGateway(ctx, "-custom-errors"), Key, "requires_policy"))

PassthroughIfUnset(tls) == IF tls.mode = "" THEN "Passthrough" ELSE tls.mode  \* mutant
PassthroughMode(tls) == "Passthrough"
SSLPassthroughAdapter ==
  Transform({"ssl-passthrough"},
            IF IsTruthy(Value)
            THEN AddFinding([ctx EXCEPT !.sslPassthrough = TRUE, !.tls.mode = PassthroughMode(ctx.tls)],
                            Key, "requires_policy")
            ELSE AddFinding(ctx, Key, "direct"))

BasicAuthAdapter ==
  Transform(BasicAuthKeys,
    IF SiblingClaimed(BasicAuthKeys) THEN ctx
    ELSE LET secret == NonEmpty({"auth-secret"})
         IN Claim(ReportAll(AddPolicy(ctx, "-basicauth",
                                      IF ForEnvoyGateway THEN secret ELSE NonEmpty(BasicAuthKeys)),
                            {"auth-type"} \cup secret),
                  BasicAuthKeys))

-----------------------------------------------------------------------------
(* Level 3 adapters. *)

\* What patterns.AnalyzeSnippet promotes, and whether that is all of the snippet.
Promote(v, c) ==
  CASE v \in {"headers", "headers and more"} -> AddFilter(c, "ResponseHeaderModifier", "", {Key})
    [] v = "deny agent" -> PolicyUnlessEnvoyGateway(c, "-ua-deny")
    [] v = "return 301" -> AddFilter(c, "RequestRedirect", "https", {Key})
    [] v = "rewrite"    -> AddFilter(c, "URLRewrite", "", {Key})
    [] OTHER            -> c
FullyCovered(v) == Trim(v) = "" \/ v = "headers"
SomeMatch(v)    == v \in Snippets \ {"lua"}

SnippetAdapter ==
  Transform(SnippetKeys,
    IF Key = "modsecurity-snippet" THEN AddFinding(ctx, Key, "untranslatable")
    ELSE AddFinding(Promote(Value, ctx), Key,
                    IF FullyCovered(Value) THEN "direct"
                    ELSE IF SomeMatch(Value) THEN "requires_policy" ELSE "untranslatable"))

AuthAdapter ==
  Transform(AuthKeys,
    CASE Key = "auth-tls-secret" -> AddFinding(ctx, Key, "requires_policy")
      [] Key # "auth-tls-secret" /\ ForEnvoyGateway ->
           Claim(AddFinding(ctx, Key, "requires_policy"), {"auth-url", "auth-signin"})
      [] OTHER -> AddFinding(ctx, Key, "untranslatable"))

-----------------------------------------------------------------------------

Level1 ==
  \/ RewriteAdapter \/ SSLRedirectAdapter \/ ExternalRedirectAdapter \/ CORSAdapter
  \/ WWWRedirectAdapter \/ AppRootAdapter \/ XForwardedPrefixAdapter \/ DefaultBackendAdapter

Level2 ==
  \/ RateLimitAdapter \/ CertManagerAdapter \/ AffinityAdapter \/ IPAllowAdapter
  \/ TimeoutBodyAdapter \/ CanaryAdapter \/ RegexAdapter \/ BackendTLSAdapter \/ MirrorAdapter
  \/ AccessLogAdapter \/ CustomHTTPErrorsAdapter \/ SSLPassthroughAdapter \/ BasicAuthAdapter

Level3 == SnippetAdapter \/ AuthAdapter

Next == SkipClaimed \/ NoAdapter \/ IgnoreForeign \/ Level1 \/ Level2 \/ Level3

Spec == Init /\ [][Next]_vars

-----------------------------------------------------------------------------
(* Properties. *)

Done == todo = {}
FindingKeys == {k \in Keys : ctx.findings[k] # <<>>}
FamilyOf(k) == IF k \in HandledKeys THEN CHOOSE F \in Families : k \in F ELSE {k}

\* The context is well formed, and keys of other tools are never claimed.
AdapterTypeOK ==
  /\ \A k \in DOMAIN annotations : k \in Keys /\ annotations[k] \in Values
  /\ provider \in Providers
  /\ todo \subseteq DOMAIN annotations
  /\ ctx \in Contexts

\* Whatever an adapter claims on behalf of its siblings, no migration annotation
\* leaves Translate without a finding that names it or a sibling of its family.
FamilyIsReported ==
  Done => \A k \in DOMAIN annotations :
            IsMigrationAnnotation(k) => FamilyOf(k) \cap FindingKeys # {}

\* An annotation is never reported twice, though a family's adapter reports keys
\* Translate has yet to come to, or has passed: the readiness score and the
\* audit counts subtract once per annotation.
ReportedAtMostOnce == \A k \in Keys : Len(ctx.findings[k]) <= 1

\* A family that is merged makes one object: two policies of one name, or two
\* sets of CORS headers, would overwrite each other when applied.
Merged   == {"-affinity", "-backend", "-backend-tls", "-basicauth"}
KeysOf   == [n \in Merged |-> CASE n = "-affinity"    -> AffinityKeys
                                 [] n = "-backend"     -> ProxyTuningKeys
                                 [] n = "-backend-tls" -> BackendTLSKeys
                                 [] n = "-basicauth"   -> BasicAuthKeys]
IsCORS(f) == f.kind = "ResponseHeaderModifier" /\ f.from \subseteq CORSKeys
FamiliesMergeOnce ==
  /\ \A i, j \in 1..Len(ctx.policies) :
       ctx.policies[i].name = ctx.policies[j].name /\ ctx.policies[i].name \in Merged => i = j
  /\ \A i, j \in 1..Len(ctx.filters) :
       \/ IsCORS(ctx.filters[i]) /\ IsCORS(ctx.filters[j])
       \/ ctx.filters[i].kind = "ExtensionRef" /\ ctx.filters[j].kind = "ExtensionRef"
       => i = j

\* ssl-redirect and force-ssl-redirect never add a second redirect to HTTPS to
\* one that another annotation made: an HTTPRoute rule holds one redirect.
OneSSLRedirect ==
  \A i \in 1..Len(ctx.filters) :
    ctx.filters[i].from \subseteq SSLRedirectKeys /\ ctx.filters[i].kind = "RequestRedirect"
      => \A j \in HTTPSRedirects(ctx) : j >= i

\* A family handled at its first key takes the values of all its keys along: for
\* a provider with fields of GateShift's own, no value of these families is lost,
\* except white space in a key that is trimmed (level2_policies.go:91-98).
MergedFamiliesCarryEveryValue ==
  Done /\ ~ForEnvoyGateway =>
    \A n \in Merged :
      Present(KeysOf[n]) # {} =>
        \E i \in 1..Len(ctx.policies) :
          ctx.policies[i].name = n /\ ctx.policies[i].from = NonEmpty(KeysOf[n])

\* What is reported as untranslatable has left nothing in the bundle.
UntranslatableLeavesNothing ==
  \A k \in Keys : \A i \in 1..Len(ctx.findings[k]) :
    ctx.findings[k][i] = "untranslatable" =>
      /\ \A j \in 1..Len(ctx.filters) : k \notin ctx.filters[j].from
      /\ \A j \in 1..Len(ctx.policies) : k \notin ctx.policies[j].from

\* A passthrough Ingress gets a passthrough listener, whatever cert-manager set up.
PassthroughReachesListener == ctx.sslPassthrough => ctx.tls.mode = "Passthrough"

-----------------------------------------------------------------------------
(* The inductive invariant: what claims mean between two turns. *)

\* These are claimed as a whole or not at all, and the mirror's target never first.
Whole == {CORSKeys, AffinityKeys, ProxyTuningKeys, BackendTLSKeys, BasicAuthKeys}
ClaimsAreWhole ==
  /\ \A F \in Whole : F \cap ctx.claimed = {} \/ F \subseteq ctx.claimed
  /\ "mirror-target" \in ctx.claimed => "mirror" \in ctx.claimed

\* A key that Translate has passed is claimed, and a claimed one's family is reported.
PassedAreClaimed  == \A k \in DOMAIN annotations \ todo : IsMigrationAnnotation(k) => k \in ctx.claimed
ClaimedAreReported == \A k \in ctx.claimed : FamilyOf(k) \cap FindingKeys # {}

\* What is reported, or carried by a filter or a policy, is claimed.
LeftBehindIsClaimed ==
  /\ FindingKeys \subseteq ctx.claimed
  /\ \A i \in 1..Len(ctx.filters) :
       /\ ctx.filters[i].from \subseteq ctx.claimed
       /\ IsCORS(ctx.filters[i]) => CORSKeys \subseteq ctx.claimed
       /\ ctx.filters[i].kind = "ExtensionRef" => MirrorKeys \subseteq ctx.claimed
  /\ \A i \in 1..Len(ctx.policies) :
       /\ ctx.policies[i].from \subseteq ctx.claimed
       /\ ctx.policies[i].name \in Merged => KeysOf[ctx.policies[i].name] \subseteq ctx.claimed

ClaimedAreCarried ==
  ~ForEnvoyGateway => \A n \in Merged :
    KeysOf[n] \cap ctx.claimed # {} =>
      \E i \in 1..Len(ctx.policies) :
        ctx.policies[i].name = n /\ ctx.policies[i].from = NonEmpty(KeysOf[n])

AdapterInv ==
  /\ AdapterTypeOK
  /\ ClaimsAreWhole /\ PassedAreClaimed /\ ClaimedAreReported /\ LeftBehindIsClaimed
  /\ ClaimedAreCarried
  /\ ReportedAtMostOnce /\ FamiliesMergeOnce /\ OneSSLRedirect
  /\ UntranslatableLeavesNothing /\ PassthroughReachesListener

-----------------------------------------------------------------------------

\* "Every migration annotation becomes a finding" (README.md:174): false, the
\* siblings claimed by the CORS, backend TLS, mirror and auth adapters have none.
EveryAnnotationIsReported ==
  Done => \A k \in DOMAIN annotations : IsMigrationAnnotation(k) => k \in FindingKeys
=============================================================================
