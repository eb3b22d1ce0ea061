----------------------------- MODULE MCEmission -----------------------------
(* The sessions: single commands over the inputs of the pipeline, single     *)
(* commands over everything annotations ask for, and pairs of commands.      *)
EXTENDS MCConversion, Emission

Run(command, list, o) ==
  [command |-> command, ingresses |-> list,
   opts |-> [o EXCEPT !.entry = IF command \in {"migrate", "validate"} THEN "FromIngress" ELSE "FromIngresses"]]

\* Whatever the pipeline distinguishes, by convert or migrate.
PlainSessions ==
  {<<Run(IF o.entry = "FromIngress" THEN "migrate" ELSE "convert", list, o)>> :
     list \in MCIngressLists, o \in MCOptionSets}

Keys == ToSet(PolicyKeys \o IssuerKeys) \cup DOMAIN FilterOf \cup {"ssl-passthrough", "untranslatable"}
Annotate(ing, keys) == [ing EXCEPT !.annotations = keys, !.regex = "rewrite-target" \in keys]
Flags(provider, gw, include, skip) ==
  [Options("FromIngresses", gw, FALSE, FALSE, FALSE) EXCEPT
     !.provider = provider, !.includeGateway = include, !.skipExtensions = skip]

Web == Ingress("web", <<Path("a", Root, "Prefix", "s"), Path("a", XSlash, "ImplementationSpecific", "t")>>)
TwoBlocks == <<Block(<<"a">>, "p"), Block(<<"b">>, "q")>>
AnnotatedWeb ==
  {Annotate(Web, {k, l}) : k \in Keys, l \in Keys} \cup
  {Annotate([Web EXCEPT !.tls = TwoBlocks], {k}) : k \in Keys}

\* Every one or two annotations, for every provider, without and with TLS.
AnnotatedSessions ==
  {<<Run(c, <<ing>>, Flags(p, <<>>, TRUE, skip))>> :
     c \in {"convert", "dual-run"}, ing \in AnnotatedWeb, p \in Providers, skip \in BOOLEAN}

\* Names that look like what dual-run makes of names, alone and beside each other.
Named(ing, words) == [ing EXCEPT !.name = words]
Names == {<<"web">>, <<"web", "shadow">>, <<"web", "staging">>, <<"api", "gateway">>, <<"shared">>}
Busy(words) ==
  Annotate(Named([Web EXCEPT !.tls = TwoBlocks], words),
           {"affinity", "cluster-issuer", "proxy-buffering", "whitelist-source-range"})
Twin(words, ns) == [Named(Ingress("api", <<Path("b", X, "Prefix", "u")>>), words) EXCEPT
                      !.ns = ns, !.annotations = {"limit-rps"}]
NamedLists ==
  {<<Busy(n)>> : n \in Names} \cup
  {<<Busy(n), Twin(m, ns)>> : n \in Names, m \in Names \cup {<<"api">>}, ns \in {"n", "m"}}
DistinctLists == {l \in NamedLists : Len(l) = 2 => l[1].name # l[2].name \/ l[1].ns # l[2].ns}

\* dual-run and ApplyDualRunMode with and without a Gateway of their own, before and
\* after a convert.
Shadowing(list) ==
  {Run(c, list, Flags("envoy-gateway", gw, include, FALSE)) :
     c \in {"dual-run", "ApplyDualRunMode"}, gw \in {<<>>, <<"gw">>, <<"x", "gateway">>}, include \in BOOLEAN}
DualRunSessions ==
  UNION {{<<d>> : d \in Shadowing(list)} \cup
         {<<Run("convert", list, Flags("envoy-gateway", <<>>, TRUE, FALSE)), d>> : d \in Shadowing(list)} \cup
         {<<d, Run("convert", list, Flags("envoy-gateway", <<>>, TRUE, FALSE))>> : d \in Shadowing(list)}
         : list \in DistinctLists}

\* validate before convert, and migrate after it.
CheckedLists ==
  {<<ing>> : ing \in AnnotatedWeb} \cup {<<ing, Twin(<<"api">>, "n")>> : ing \in AnnotatedWeb}
CheckedSessions ==
  {<<Run("validate", list, Flags(p, <<>>, TRUE, FALSE)), Run("convert", list, Flags(p, <<>>, TRUE, FALSE)),
     Run("migrate", list, Flags(p, <<>>, TRUE, FALSE))>> :
     list \in CheckedLists, p \in {"standard", "envoy-gateway", "cilium", "kong"}}

MCSessions == PlainSessions \cup AnnotatedSessions \cup DualRunSessions \cup CheckedSessions
LiveAndShadow == DualRunSessions
=============================================================================
