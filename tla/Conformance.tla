---------------------------- MODULE Conformance ----------------------------
(***************************************************************************)
(* validate: the features that routes and policies need of a controller,    *)
(* held against what a provider is known to support.  A feature outside the *)
(* matrix is an error, or a warning where the matrix has a note on it.       *)
(***************************************************************************)
EXTENDS Policies

CONSTANT None  \* no service, no weight, no redirect, no secret
ASSUME NoneAssumption == None \notin Int

Core == {"HTTPRoute", "RequestRedirect", "ResponseHeaderModifier", "URLRewrite"}

Supported(provider) ==
  CASE provider = "envoy-gateway" -> Core \cup {"RegexPath", "SessionPersistence"}
    [] provider \in {"cilium", "istio"} -> Core \cup {"RegexPath"}
    [] OTHER -> Core
Noted(provider) ==
  CASE provider = "cilium" -> {"SessionPersistence"}
    [] provider = "kong"   -> {"RegexPath"}
    [] OTHER -> {}

\* A rule's path type, its redirect and its filters; the header filters are one feature.
FeatureOfFilter(filter) == IF filter = "URLRewrite" THEN "URLRewrite" ELSE "ResponseHeaderModifier"
FeaturesOfRule(rule) ==
  {f \in {"RegexPath"} : rule.type = "RegularExpression"} \cup
  {f \in {"RequestRedirect"} : rule.redirect # None} \cup
  {FeatureOfFilter(f) : f \in rule.filters}

DetectRoutesOnly(routes, policies) ==  \* mutant: policies need nothing
  {"HTTPRoute"} \cup UNION {UNION {FeaturesOfRule(r) : r \in ToSet(route.rules)} : route \in ToSet(routes)}
DetectFeatures(routes, policies) ==
  {"HTTPRoute"}
  \cup (UNION {UNION {FeaturesOfRule(r) : r \in ToSet(route.rules)} : route \in ToSet(routes)})
  \cup {f \in {"SessionPersistence"} : \E p \in ToSet(policies) : p.kind = "SessionAffinity"}

\* Errors only: an unsupported feature without a note, or a finding that no
\* translation exists.  Warnings leave the verdict as it is.
ValidateBundle(bundle, provider) ==
  /\ DetectFeatures(bundle.routes, bundle.policies) \subseteq Supported(provider) \cup Noted(provider)
  /\ ~\E f \in bundle.findings : f.id = "untranslatable"
=============================================================================
