---------------------------- MODULE MCConversion ----------------------------
(* The inputs of the runs: lists of one to four small Ingresses. *)
EXTENDS Conversion

X      == <<"/", "x">>
XSlash == <<"/", "x", "/">>
XY     == <<"/", "x", "y">>
XSubY  == <<"/", "x", "/", "y">>
MCRequestPaths == {Root, X, XSlash, XY, XSubY}

Path(host, path, type, svc) == [host |-> host, path |-> path, type |-> type, svc |-> svc]
Ingress(name, rules) ==
  [name |-> <<name>>, ns |-> "n", canary |-> FALSE, weight |-> 0, header |-> FALSE, regex |-> FALSE,
   annotations |-> {}, redirect |-> None, backend |-> None, tls |-> <<>>, rules |-> rules]
Block(hosts, secret) == [hosts |-> hosts, secret |-> <<secret>>]

\* An Exact or Prefix path is absolute; others may be missing.
PathsOf(hosts, types, svc) ==
  {Path(h, p, t, svc) : h \in hosts, p \in {Root, X, XSlash, XSubY}, t \in types} \cup
  {Path(h, <<>>, t, svc) : h \in hosts, t \in types \cap {"ImplementationSpecific", ""}}

\* One Ingress with two paths, of any hosts and types, in regex mode or not.
TwoPaths ==
  {<<[Ingress("i", <<r, s>>) EXCEPT !.regex = b]>> :
     r \in PathsOf({"a", "b"}, PathTypes, "s"), s \in PathsOf({"", "a"}, PathTypes, "t"), b \in BOOLEAN}

\* One Ingress with one path and everything else an Ingress may have.
Decorated ==
  {<<[Ingress("i", <<r>>) EXCEPT !.redirect = re, !.backend = d, !.annotations = c, !.tls = t]>> :
     r \in PathsOf({"", "a"}, {"Prefix"}, "s"), re \in {None, "https", "other"}, d \in {None, "d"},
     c \in {{}, {"cluster-issuer"}, {"ssl-passthrough"}},
     t \in {<<>>, <<Block(<<"a">>, "p")>>, <<Block(<<>>, "p"), Block(<<"a", "b">>, "q")>>}}

\* Two Ingresses, perhaps of one host, of one namespace or two.
TwoIngresses ==
  {<<[Ingress("i", <<r>>) EXCEPT !.regex = b], [Ingress("j", <<s>>) EXCEPT !.ns = n, !.regex = c]>> :
     r \in PathsOf({"", "a"}, {"Exact", "ImplementationSpecific"}, "s"),
     s \in PathsOf({"", "a", "b"}, {"Prefix", "ImplementationSpecific"}, "t"),
     b \in BOOLEAN, c \in BOOLEAN, n \in {"n", "m"}}

\* Two Ingresses and one or two canaries, of which one may go by a header.
Canary(name, rules, w, hd) ==
  [Ingress(name, rules) EXCEPT !.canary = TRUE, !.weight = w, !.header = hd]
Canaries ==
  {<<Ingress("i", <<Path("b", Root, "Prefix", "s")>>), Ingress("j", <<r, Path("a", p, "Exact", None)>>),
     Canary("c", <<s>>, w, FALSE), Canary("d", <<Path(h, X, "Prefix", "v")>>, 30, hd)>> :
     r \in PathsOf({"a"}, {"Prefix"}, "t"), p \in {Root, X}, s \in PathsOf({"a", ""}, {"Prefix"}, "u"),
     w \in {0, 20, 100, 120}, h \in {"a", "b"}, hd \in BOOLEAN}
OneCanary ==
  {<<Canary("c", cs, w, hd)>> \o rest :
     cs \in {<<r>> : r \in PathsOf({"a", "b"}, {"Prefix"}, "u")} \cup {<<>>},
     w \in {20, 100}, hd \in BOOLEAN,
     rest \in {<<>>, <<Ingress("j", <<Path("a", X, "Prefix", "t")>>)>>,
               <<[Ingress("j", <<Path("a", X, "Prefix", "t")>>) EXCEPT !.redirect = "https", !.tls = <<Block(<<"a">>, "p")>>]>>,
               <<Ingress("i", <<Path("b", X, "Prefix", "s")>>), Ingress("j", <<Path("a", Root, "Prefix", "t")>>)>>}}

MCIngressLists == TwoPaths \cup Decorated \cup TwoIngresses \cup Canaries \cup OneCanary

Options(entry, gw, preserve, slashes, httpOnly) ==
  [entry |-> entry, provider |-> "envoy-gateway", gatewayName |-> gw, includeGateway |-> gw = <<>>,
   preserve |-> preserve, slashes |-> slashes, httpOnly |-> httpOnly, skipExtensions |-> FALSE]
MCOptionSets ==
  {Options("FromIngresses", <<>>, FALSE, FALSE, FALSE), Options("FromIngresses", <<"gw">>, FALSE, TRUE, TRUE),
   Options("FromIngresses", <<>>, TRUE, TRUE, FALSE), Options("FromIngress", <<>>, FALSE, FALSE, FALSE)}

\* For the runs that look for one disagreement: the inputs it is about.
HostLists     == TwoPaths
RedirectLists == Decorated
HeaderLists   == OneCanary
PlainOptions  == {Options("FromIngresses", <<>>, FALSE, FALSE, FALSE)}
=============================================================================
