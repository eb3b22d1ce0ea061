----------------------------- MODULE MCAdapters -----------------------------
(* Ingresses with up to two annotations of any kind, or four of one group. *)
EXTENDS AnnotationAdapters

\* The values of a key that the code tells apart.
ValuesOf(k) ==
  CASE k \in RateLimitKeys -> {"7", "text"}
    [] k \in ExternalRedirectKeys -> {"https", "text", "blank"}
    [] k = "default-backend" -> {"text", "blank"}
    [] k \in SnippetKeys -> Snippets \cup {"blank"}
    [] k \in SSLRedirectKeys \cup {"enable-cors", "cors-allow-credentials", "mirror",
                                   "from-to-www-redirect", "ssl-passthrough"} -> {"true", "false"}
    [] k \in AffinityKeys \cup BasicAuthKeys -> {"text", "", "blank"}
    [] k \in CertManagerKeys -> {"text", "blank"}
    [] k \in CORSKeys \cup ProxyTuningKeys \cup BackendTLSKeys \cup {"mirror-target"} -> {"text", ""}
    [] OTHER -> {"text"}

MapsOver(keys) == {a \in [keys -> UNION {ValuesOf(k) : k \in keys}] : \A k \in keys : a[k] \in ValuesOf(k)}

\* Groups of annotations that read each other's values or each other's results.
Groups == {CORSKeys, AffinityKeys, ProxyTuningKeys,
           SSLRedirectKeys \cup ExternalRedirectKeys \cup {"server-snippet"},
           CertManagerKeys \cup {"ssl-passthrough"}}

MCAnnotationMaps ==
  UNION {MapsOver(keys) : keys \in {{}} \cup {{j, k} : j, k \in Keys}
                                   \cup UNION {{{i, j, k, l} : i, j, k, l \in G} : G \in Groups}}
=============================================================================
