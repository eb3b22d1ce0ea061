---------------------- MODULE AnnotationAdapters_proofs ----------------------
(***************************************************************************)
(* The adapters, for every set of annotations and every value class: TLC     *)
(* takes the annotations two at a time.  Each adapter's turn is shown to be  *)
(* a Turn of its family, and every property follows from that alone.         *)
(***************************************************************************)
EXTENDS AnnotationAdapters, WellFoundedInduction, TLAPS

(* Families and keys. *)

IsFamily(F) == F \subseteq HandledKeys \cup UnknownKeys /\ \A k \in F : FamilyOf(k) = F

\* A key of a family has that family: no key is in two (CanHandle is exclusive).
LEMMA FamiliesAreFamilies ==
  ASSUME NEW F \in Families
  PROVE  IsFamily(F)
<1> HIDE DEF Families
<1>1. F \subseteq HandledKeys
  BY DEF HandledKeys
<1>2. ASSUME NEW k \in F  PROVE FamilyOf(k) = F
  <2>1. k \in HandledKeys
    BY <1>1
  <2>2. FamilyOf(k) = CHOOSE G \in Families : k \in G
    BY <2>1 DEF FamilyOf
  <2>3. \A G \in Families : k \in G => G = F
    BY AdapterAssumption
  <2> QED
    BY <2>2, <2>3
<1> QED
  BY <1>1, <1>2 DEF IsFamily

\* An annotation no adapter knows is a family by itself.
LEMMA UnknownIsFamily ==
  ASSUME NEW k \in UnknownKeys, k \notin HandledKeys
  PROVE  IsFamily({k})
BY DEF IsFamily, FamilyOf

\* The position of a key in the order of sort.Strings is a number.
LEMMA PositionType ==
  ASSUME NEW k \in Keys
  PROVE  Position[k] \in Nat
<1> HIDE DEF Keys, SortedKeys
<1>1. PICK i \in 1..Len(SortedKeys) : SortedKeys[i] = k
  BY AdapterAssumption DEF ToSet
<1>2. Position[k] \in 1..Len(SortedKeys)
  BY <1>1 DEF Position
<1> QED
  BY <1>2, AdapterAssumption

\* While annotations are left, Translate's next one is one of them.
LEMMA KeyIsNext ==
  ASSUME todo \subseteq Keys, todo # {}
  PROVE  Key \in todo
<1> DEFINE T == {Position[k] : k \in todo}
<1>1. T \subseteq Nat /\ T # {}
  BY PositionType
<1> DEFINE less == {ss \in Nat \X Nat : ss[1] < ss[2]}
<1>2. IsWellFoundedOn(less, Nat)
  BY NatLessThanWellFounded DEF OpToRel
<1>3. \E m \in T : \A n \in T : m <= n
  <2> HIDE DEF less
  <2>1. PICK m \in T : \A n \in T : <<n, m>> \notin less
    BY <1>1, <1>2, WFMin
  <2>2. ASSUME NEW n \in T  PROVE ~(n < m)
    <3>1. n \in Nat /\ m \in Nat
      BY <1>1
    <3>2. n < m => <<n, m>> \in less
      BY <3>1 DEF less
    <3> QED
      BY <2>1, <3>2
  <2> HIDE DEF T
  <2>3. \A n \in T : m <= n
    BY <1>1, <2>2
  <2> QED
    BY <2>3
<1>4. \E k \in todo : \A j \in todo : Position[k] <= Position[j]
  BY <1>3
<1> QED
  BY <1>4 DEF Key
-----------------------------------------------------------------------------
(* What the operations on a Context change. *)

Reportable == HandledKeys \cup UnknownKeys

LEMMA ReportableKeys == Reportable \subseteq Keys
BY DEF Reportable, Keys

\* A Context, field by field.
LEMMA ContextFields ==
  ASSUME NEW c \in Contexts
  PROVE  /\ c.filters \in Seq(Filters) /\ c.policies \in Seq(Objects)
         /\ c.certificates \in Seq(Objects)
         /\ c.findings \in [Keys -> Seq(Statuses)]
         /\ c.tls \in [mode : {"", "Terminate", "Passthrough"}, issuers : SUBSET CertManagerKeys]
         /\ c.claimed \subseteq Reportable
         /\ c.defaultBackend \in Values
         /\ c.sslPassthrough \in BOOLEAN
BY DEF Contexts, Reportable

\* The fields that adapters extend are independent of each other.
SameTLS(c, d) == d.tls = c.tls /\ d.sslPassthrough = c.sslPassthrough
SameRest(c, d) == SameTLS(c, d) /\ d.certificates = c.certificates /\ d.defaultBackend = c.defaultBackend

LEMMA ClaimFields ==
  ASSUME NEW c \in Contexts, NEW keys \in SUBSET Reportable
  PROVE  LET d == Claim(c, keys)
         IN /\ d \in Contexts /\ SameRest(c, d)
            /\ d.claimed = c.claimed \cup keys
            /\ d.filters = c.filters /\ d.policies = c.policies /\ d.findings = c.findings
BY DEF Claim, Contexts, SameRest, SameTLS, Reportable

LEMMA AppendType ==
  ASSUME NEW S, NEW s \in Seq(S), NEW e \in S
  PROVE  Append(s, e) \in Seq(S)
OBVIOUS

LEMMA AddFilterFields ==
  ASSUME NEW c \in Contexts, NEW kind \in FilterKinds, NEW scheme \in {"", "https"},
         NEW from \in SUBSET Keys
  PROVE  LET d == AddFilter(c, kind, scheme, from)
         IN /\ d \in Contexts /\ SameRest(c, d)
            /\ d.filters = Append(c.filters, [kind |-> kind, scheme |-> scheme, from |-> from])
            /\ d.claimed = c.claimed /\ d.policies = c.policies /\ d.findings = c.findings
<1> DEFINE f == [kind |-> kind, scheme |-> scheme, from |-> from]
<1>1. f \in Filters
  BY DEF Filters
<1> HIDE DEF f
<1>2. Append(c.filters, f) \in Seq(Filters)
  <2>1. c.filters \in Seq(Filters)
    BY ContextFields
  <2> QED
    BY <1>1, <2>1, AppendType
<1> DEFINE d == [c EXCEPT !.filters = Append(@, f)]
<1>3. /\ d \in Contexts /\ SameRest(c, d) /\ d.filters = Append(c.filters, f)
      /\ d.claimed = c.claimed /\ d.policies = c.policies /\ d.findings = c.findings
  BY <1>2 DEF Contexts, SameRest, SameTLS
<1>4. AddFilter(c, kind, scheme, from) = d
  BY DEF AddFilter, f
<1> QED
  BY <1>3, <1>4 DEF f

LEMMA AddPolicyFields ==
  ASSUME NEW c \in Contexts, NEW suffix \in ObjectSuffixes, NEW from \in SUBSET Keys
  PROVE  LET d == AddPolicy(c, suffix, from)
         IN /\ d \in Contexts /\ SameRest(c, d)
            /\ d.policies = Append(c.policies, [name |-> suffix, from |-> from])
            /\ d.claimed = c.claimed /\ d.filters = c.filters /\ d.findings = c.findings
<1> DEFINE p == [name |-> suffix, from |-> from]
<1>1. p \in Objects
  BY DEF Objects
<1> HIDE DEF p
<1>2. Append(c.policies, p) \in Seq(Objects)
  <2>1. c.policies \in Seq(Objects)
    BY ContextFields
  <2> QED
    BY <1>1, <2>1, AppendType
<1> DEFINE d == [c EXCEPT !.policies = Append(@, p)]
<1>3. /\ d \in Contexts /\ SameRest(c, d) /\ d.policies = Append(c.policies, p)
      /\ d.claimed = c.claimed /\ d.filters = c.filters /\ d.findings = c.findings
  BY <1>2 DEF Contexts, SameRest, SameTLS
<1>4. AddPolicy(c, suffix, from) = d
  BY DEF AddPolicy, p
<1> QED
  BY <1>3, <1>4 DEF p

LEMMA ReportedType ==
  ASSUME NEW findings \in [Keys -> Seq(Statuses)], NEW keys \in SUBSET Keys, NEW status \in Statuses
  PROVE  Reported(findings, keys, status) \in [Keys -> Seq(Statuses)]
BY DEF Reported

LEMMA AddFindingsFields ==
  ASSUME NEW c \in Contexts, NEW keys \in SUBSET Reportable, NEW status \in Statuses
  PROVE  LET d == AddFindings(c, keys, status)
         IN /\ d \in Contexts /\ SameRest(c, d)
            /\ d.findings = Reported(c.findings, keys, status)
            /\ d.claimed = c.claimed \cup keys
            /\ d.filters = c.filters /\ d.policies = c.policies
<1> DEFINE b == Claim(c, keys)
           g == Reported(b.findings, keys, status)
<1>1. b \in Contexts /\ SameRest(c, b) /\ b.claimed = c.claimed \cup keys
      /\ b.filters = c.filters /\ b.policies = c.policies /\ b.findings = c.findings
  BY ClaimFields
<1>2. keys \subseteq Keys
  BY ReportableKeys
<1> HIDE DEF b
<1>3. g \in [Keys -> Seq(Statuses)]
  BY <1>1, <1>2, ContextFields, ReportedType
<1>4. AddFindings(c, keys, status) = [b EXCEPT !.findings = g]
  BY DEF AddFindings, b
<1>5. g = Reported(c.findings, keys, status)
  BY <1>1
<1> HIDE DEF g
<1> QED
  BY <1>1, <1>3, <1>4, <1>5 DEF Contexts, SameRest, SameTLS
\* The finding an adapter reports last, and Translate's own claim.
LEMMA FindingAndClaim ==
  ASSUME NEW c \in Contexts, NEW key \in Reportable, NEW status \in Statuses
  PROVE  LET d == Claim(AddFinding(c, key, status), {key})
         IN /\ d \in Contexts /\ SameRest(c, d)
            /\ d.findings = Reported(c.findings, {key}, status)
            /\ d.claimed = c.claimed \cup {key}
            /\ d.filters = c.filters /\ d.policies = c.policies
<1> DEFINE a == AddFindings(c, {key}, status)
<1>1. {key} \in SUBSET Reportable
  OBVIOUS
<1>2. /\ a \in Contexts /\ SameRest(c, a)
      /\ a.findings = Reported(c.findings, {key}, status) /\ a.claimed = c.claimed \cup {key}
      /\ a.filters = c.filters /\ a.policies = c.policies
  BY <1>1, AddFindingsFields
<1>3. AddFinding(c, key, status) = a
  BY DEF AddFinding
<1> HIDE DEF a
<1> DEFINE d == Claim(a, {key})
<1>4. /\ d \in Contexts /\ SameRest(a, d)
      /\ d.findings = a.findings /\ d.claimed = a.claimed \cup {key}
      /\ d.filters = a.filters /\ d.policies = a.policies
  BY <1>1, <1>2, ClaimFields
<1> HIDE DEF d
<1>5. SameRest(c, d)
  BY <1>2, <1>4 DEF SameRest, SameTLS
<1>6. Claim(AddFinding(c, key, status), {key}) = d
  BY <1>3 DEF d
<1> QED
  BY <1>2, <1>4, <1>5, <1>6

-----------------------------------------------------------------------------
(* What every turn does.  The adapter of the family F handles Key, reports R *)
(* with one status, and adds at most the filter f and the policy p.          *)

NewFilter(F, st, f) ==
  /\ st # "untranslatable"
  /\ f.from \subseteq ctx'.claimed \ ctx.claimed
  /\ IsCORS(f) => F = CORSKeys
  /\ f.kind = "ExtensionRef" => F = MirrorKeys /\ MirrorKeys \subseteq ctx'.claimed
  /\ f.kind = "RequestRedirect" /\ f.from \subseteq SSLRedirectKeys => HTTPSRedirects(ctx) = {}

NewPolicy(F, st, p) ==
  /\ st # "untranslatable"
  /\ p.from \subseteq ctx'.claimed \ ctx.claimed
  /\ p.name \in Merged => F = KeysOf[p.name]

Turn(F, R, st, f, p) ==
  /\ IsFamily(F) /\ Key \in F /\ Key \notin ctx.claimed
  /\ todo' = todo \ {Key} /\ UNCHANGED <<annotations, provider>>
  /\ ctx' \in Contexts
  /\ ctx.claimed \cup {Key} \subseteq ctx'.claimed /\ ctx'.claimed \subseteq ctx.claimed \cup F
  /\ F \in Whole => F \subseteq ctx'.claimed
  /\ "mirror-target" \in ctx'.claimed \ ctx.claimed => "mirror" \in ctx'.claimed
  /\ R # {} /\ R \subseteq ctx'.claimed \ ctx.claimed /\ st \in Statuses
  /\ ctx'.findings = Reported(ctx.findings, R, st)
  /\ \/ ctx'.filters = ctx.filters
     \/ ctx'.filters = Append(ctx.filters, f) /\ NewFilter(F, st, f)
  /\ \/ ctx'.policies = ctx.policies /\ \A n \in Merged : F # KeysOf[n]
     \/ /\ ctx'.policies = Append(ctx.policies, p) /\ NewPolicy(F, st, p)
        /\ ~ForEnvoyGateway =>
             \A n \in Merged : F = KeysOf[n] => p.name = n /\ p.from = NonEmpty(F)
  /\ ctx'.sslPassthrough => ctx'.tls.mode = "Passthrough"

LEMMA KeysOfPolicies ==
  /\ KeysOf["-affinity"] = AffinityKeys /\ KeysOf["-backend"] = ProxyTuningKeys
  /\ KeysOf["-backend-tls"] = BackendTLSKeys /\ KeysOf["-basicauth"] = BasicAuthKeys
BY DEF KeysOf, Merged

LEMMA WholeAreFamilies ==
  /\ Whole \subseteq Families /\ MirrorKeys \in Families /\ SSLRedirectKeys \in Families
  /\ \A n \in Merged : KeysOf[n] \in Whole
BY KeysOfPolicies DEF Whole, Families, Merged

LEMMA KeysOfDiffer ==
  /\ \A m, n \in Merged : KeysOf[m] = KeysOf[n] => m = n
  /\ \A n \in Merged : KeysOf[n] # CORSKeys
<1>1. "affinity" \in AffinityKeys \ (ProxyTuningKeys \cup BackendTLSKeys \cup BasicAuthKeys \cup CORSKeys)
  BY DEF AffinityKeys, ProxyTuningKeys, BackendTLSKeys, BasicAuthKeys, CORSKeys
<1>2. "proxy-body-size" \in ProxyTuningKeys \ (BackendTLSKeys \cup BasicAuthKeys \cup CORSKeys)
  BY DEF ProxyTuningKeys, BackendTLSKeys, BasicAuthKeys, CORSKeys
<1>3. "proxy-ssl-secret" \in BackendTLSKeys \ (BasicAuthKeys \cup CORSKeys)
  BY DEF BackendTLSKeys, BasicAuthKeys, CORSKeys
<1>4. "auth-type" \in BasicAuthKeys \ CORSKeys
  BY DEF BasicAuthKeys, CORSKeys
<1> QED
  BY <1>1, <1>2, <1>3, <1>4, KeysOfPolicies DEF Merged

\* A family that is claimed as a whole is not yet claimed when one of its keys
\* is due: the test for claimed siblings only guards what Translate has guarded.
LEMMA NoSiblingIsClaimed ==
  ASSUME AdapterInv, NEW F \in Whole, Key \in F, IsDue
  PROVE  F \cap ctx.claimed = {} /\ ~SiblingClaimed(F)
BY DEF AdapterInv, ClaimsAreWhole, IsDue, SiblingClaimed

LEMMA InvTypes ==
  ASSUME AdapterInv
  PROVE  ctx \in Contexts /\ todo \subseteq Keys /\ ctx.claimed \subseteq Reportable
<1>1. ctx \in Contexts /\ todo \subseteq Keys
  BY DEF AdapterInv, AdapterTypeOK
<1> QED
  BY <1>1, ContextFields

\* The context a finding is added to: the one before the turn, and what the
\* adapter has added to it.
Adds(b, F, st, f, p) ==
  /\ b \in Contexts /\ b.claimed = ctx.claimed /\ b.findings = ctx.findings
  /\ \/ b.filters = ctx.filters
     \/ /\ b.filters = Append(ctx.filters, f) /\ st # "untranslatable"
        /\ f.kind = "RequestRedirect" /\ F = SSLRedirectKeys => HTTPSRedirects(ctx) = {}
  /\ \/ b.policies = ctx.policies
     \/ b.policies = Append(ctx.policies, p) /\ st # "untranslatable"
  /\ b.sslPassthrough => b.tls.mode = "Passthrough"

\* An adapter that claims and reports the key it is handed, and no other.
LEMMA PlainTurn ==
  ASSUME AdapterInv, NEW F, IsFamily(F), NEW st \in Statuses, NEW b, NEW f, NEW p, NEW keys,
         Transform(keys, AddFinding(b, Key, st)),
         Key \in F, \A G \in Whole : Key \notin G, Key # "mirror-target",
         Adds(b, F, st, f, p), f.from = {Key}, f.kind # "ExtensionRef",
         p.from = {Key}, p.name \notin Merged
  PROVE  Turn(F, {Key}, st, f, p)
<1>1. Key \in Reportable
  BY DEF IsFamily, Reportable
<1>2. b \in Contexts
  BY DEF Adds
<1>3. ctx' = Claim(AddFinding(b, Key, st), {Key}) /\ Key \notin ctx.claimed
  BY DEF Transform, IsDue
<1>4. /\ ctx' \in Contexts /\ SameRest(b, ctx')
      /\ ctx'.findings = Reported(b.findings, {Key}, st) /\ ctx'.claimed = b.claimed \cup {Key}
      /\ ctx'.filters = b.filters /\ ctx'.policies = b.policies
  <2> DEFINE k == Key
             d == Claim(AddFinding(b, k, st), {k})
  <2>1. k \in Reportable
    BY <1>1
  <2> HIDE DEF k
  <2>2. /\ d \in Contexts /\ SameRest(b, d)
        /\ d.findings = Reported(b.findings, {k}, st) /\ d.claimed = b.claimed \cup {k}
        /\ d.filters = b.filters /\ d.policies = b.policies
    BY <2>1, <1>2, FindingAndClaim, ZenonT(60)
  <2> HIDE DEF d
  <2> QED
    BY <2>2, <1>3 DEF d, k
<1>5. /\ ctx'.claimed = ctx.claimed \cup {Key} /\ ctx'.claimed \ ctx.claimed = {Key}
      /\ ctx'.findings = Reported(ctx.findings, {Key}, st)
  BY <1>3, <1>4 DEF Adds
<1>6. F \notin Whole
  OBVIOUS
<1>7. ~IsCORS(f)
  BY DEF IsCORS, Whole
<1>8. {Key} \subseteq SSLRedirectKeys => F = SSLRedirectKeys
  BY WholeAreFamilies, FamiliesAreFamilies DEF IsFamily
<1>9. \/ ctx'.filters = ctx.filters
      \/ ctx'.filters = Append(ctx.filters, f) /\ NewFilter(F, st, f)
  BY <1>4, <1>5, <1>7, <1>8 DEF Adds, NewFilter
<1>10. \/ ctx'.policies = ctx.policies
       \/ ctx'.policies = Append(ctx.policies, p) /\ NewPolicy(F, st, p)
  BY <1>4, <1>5 DEF Adds, NewPolicy
<1>11. \A n \in Merged : F # KeysOf[n]
  BY <1>6, WholeAreFamilies
<1>12. ctx'.sslPassthrough => ctx'.tls.mode = "Passthrough"
  BY <1>4 DEF Adds, SameRest, SameTLS
<1>13. todo' = todo \ {Key} /\ UNCHANGED <<annotations, provider>>
  BY DEF Transform
<1> QED
  BY <1>3, <1>4, <1>5, <1>6, <1>9, <1>10, <1>11, <1>12, <1>13 DEF Turn

\* An adapter that claims its whole family, and reports some of it.
LEMMA WholeTurn ==
  ASSUME AdapterInv, NEW F \in Whole, NEW R \in SUBSET F, R # {}, NEW st \in Statuses,
         NEW b, NEW f, NEW p,
         Transform(F, Claim(AddFindings(b, R, st), F)),
         Adds(b, F, st, f, p), IF F = CORSKeys THEN f.from \subseteq F /\ f.kind = "ResponseHeaderModifier"
                         ELSE b.filters = ctx.filters,
         p.from \subseteq F, p.name \in Merged, F = CORSKeys \/ F = KeysOf[p.name],
         F # CORSKeys => b.policies = Append(ctx.policies, p) /\ st # "untranslatable",
         F = CORSKeys => b.policies = ctx.policies,
         ~ForEnvoyGateway /\ F # CORSKeys => p.from = NonEmpty(F)
  PROVE  Turn(F, R, st, f, p)
<1> DEFINE a == AddFindings(b, R, st)
           c == Claim(a, F)
<1>1. IsFamily(F) /\ F \subseteq Reportable
  BY WholeAreFamilies, FamiliesAreFamilies DEF IsFamily, Reportable
<1>2. b \in Contexts
  BY DEF Adds
<1>3. /\ a \in Contexts /\ SameRest(b, a)
      /\ a.findings = Reported(b.findings, R, st) /\ a.claimed = b.claimed \cup R
      /\ a.filters = b.filters /\ a.policies = b.policies
  <2>1. R \in SUBSET Reportable
    BY <1>1
  <2> QED
    BY <2>1, <1>2, AddFindingsFields
<1>4. Key \in F /\ Key \notin ctx.claimed /\ F \cap ctx.claimed = {} /\ ctx' = Claim(c, {Key})
  BY NoSiblingIsClaimed DEF Transform, IsDue
<1> HIDE DEF a
<1>5. /\ c \in Contexts /\ SameRest(a, c)
      /\ c.findings = a.findings /\ c.claimed = a.claimed \cup F
      /\ c.filters = a.filters /\ c.policies = a.policies
  BY <1>1, <1>3, ClaimFields
<1> HIDE DEF c
<1>6. /\ ctx' \in Contexts /\ SameRest(c, ctx')
      /\ ctx'.findings = c.findings /\ ctx'.claimed = c.claimed \cup {Key}
      /\ ctx'.filters = c.filters /\ ctx'.policies = c.policies
  <2>1. {Key} \in SUBSET Reportable
    BY <1>1, <1>4
  <2> QED
    BY <2>1, <1>4, <1>5, ClaimFields
<1>7. /\ ctx'.claimed = ctx.claimed \cup F /\ ctx'.claimed \ ctx.claimed = F
      /\ ctx'.findings = Reported(ctx.findings, R, st)
  BY <1>3, <1>4, <1>5, <1>6 DEF Adds
<1>8. F # MirrorKeys /\ F # SSLRedirectKeys /\ "mirror-target" \notin F
      /\ ~(F \subseteq SSLRedirectKeys)
  BY DEF Whole, CORSKeys, AffinityKeys, ProxyTuningKeys, BackendTLSKeys, BasicAuthKeys, MirrorKeys,
         SSLRedirectKeys
<1>9. \/ ctx'.filters = ctx.filters
      \/ ctx'.filters = Append(ctx.filters, f) /\ NewFilter(F, st, f)
  <2>1. CASE F = CORSKeys
    BY <2>1, <1>3, <1>5, <1>6, <1>7 DEF Adds, NewFilter
  <2>2. CASE F # CORSKeys
    BY <2>2, <1>3, <1>5, <1>6
  <2> QED
    BY <2>1, <2>2
<1>10. F = CORSKeys => ctx'.policies = ctx.policies /\ \A n \in Merged : F # KeysOf[n]
  BY <1>3, <1>5, <1>6, KeysOfDiffer
<1>11. F # CORSKeys => /\ ctx'.policies = Append(ctx.policies, p) /\ NewPolicy(F, st, p)
                       /\ \A n \in Merged : F = KeysOf[n] => p.name = n
  BY <1>3, <1>5, <1>6, <1>7, KeysOfDiffer DEF NewPolicy
<1>12. \A n \in Merged : F = KeysOf[n] => F # CORSKeys
  BY KeysOfDiffer, KeysOfPolicies DEF Merged
<1>13. ctx'.sslPassthrough => ctx'.tls.mode = "Passthrough"
  BY <1>3, <1>5, <1>6 DEF Adds, SameRest, SameTLS
<1>14. todo' = todo \ {Key} /\ UNCHANGED <<annotations, provider>>
  BY DEF Transform
<1> QED
  BY <1>1, <1>4, <1>6, <1>7, <1>8, <1>9, <1>10, <1>11, <1>12, <1>13, <1>14 DEF Turn
-----------------------------------------------------------------------------
(* A turn keeps the invariant. *)

\* What a turn appends comes last, and the rest stays.
LEMMA AppendFacts ==
  ASSUME NEW S, NEW s \in Seq(S), NEW e
  PROVE  LET t == Append(s, e)
         IN /\ Len(t) = Len(s) + 1 /\ Len(s) \in Nat
            /\ \A i \in 1..Len(s) : t[i] = s[i]
            /\ t[Len(t)] = e
OBVIOUS

\* Appending an element for which P holds to a sequence that has it throughout:
\* every index is an old one or the last.
LEMMA LastOrOld ==
  ASSUME NEW S, NEW s \in Seq(S), NEW e, NEW i \in 1..Len(Append(s, e))
  PROVE  \/ i \in 1..Len(s) /\ Append(s, e)[i] = s[i]
         \/ i = Len(s) + 1 /\ Append(s, e)[i] = e
OBVIOUS

LEMMA TurnKeepsTypes ==
  ASSUME AdapterInv, NEW F, NEW R, NEW st, NEW f, NEW p, Turn(F, R, st, f, p)
  PROVE  AdapterTypeOK' /\ PassthroughReachesListener'
<1>1. ctx' \in Contexts /\ todo' \subseteq todo /\ UNCHANGED <<annotations, provider>>
      /\ (ctx'.sslPassthrough => ctx'.tls.mode = "Passthrough")
  BY DEF Turn
<1> QED
  BY <1>1 DEF AdapterInv, AdapterTypeOK, PassthroughReachesListener

LEMMA TurnKeepsClaims ==
  ASSUME AdapterInv, NEW F, NEW R, NEW st, NEW f, NEW p, Turn(F, R, st, f, p)
  PROVE  ClaimsAreWhole' /\ PassedAreClaimed' /\ ClaimedAreReported'
<1>1. /\ IsFamily(F) /\ Key \in F
      /\ ctx.claimed \cup {Key} \subseteq ctx'.claimed /\ ctx'.claimed \subseteq ctx.claimed \cup F
  BY DEF Turn
<1>2. ClaimsAreWhole'
  <2>1. ASSUME NEW G \in Whole  PROVE G \cap ctx'.claimed = {} \/ G \subseteq ctx'.claimed
    <3>1. CASE G = F
      BY <3>1 DEF Turn
    <3>2. CASE G # F
      <4>1. IsFamily(G)
        BY WholeAreFamilies, FamiliesAreFamilies
      <4>2. G \cap F = {}
        BY <1>1, <3>2, <4>1 DEF IsFamily
      <4>3. G \cap ctx.claimed = {} \/ G \subseteq ctx.claimed
        BY DEF AdapterInv, ClaimsAreWhole
      <4> QED
        BY <1>1, <4>2, <4>3
    <3> QED
      BY <3>1, <3>2
  <2>2. "mirror-target" \in ctx'.claimed => "mirror" \in ctx'.claimed
    BY <1>1 DEF Turn, AdapterInv, ClaimsAreWhole
  <2> QED
    BY <2>1, <2>2 DEF ClaimsAreWhole
<1>3. PassedAreClaimed'
  <2>1. todo' = todo \ {Key} /\ annotations' = annotations
    BY DEF Turn
  <2> QED
    BY <1>1, <2>1 DEF AdapterInv, PassedAreClaimed
<1>4. ClaimedAreReported'
  <2>1. ctx.findings \in [Keys -> Seq(Statuses)] /\ ctx'.claimed \subseteq Keys
    BY InvTypes, ContextFields, ReportableKeys DEF Turn
  <2>2. FindingKeys' = FindingKeys \cup R
    <3>1. ctx'.findings = Reported(ctx.findings, R, st) /\ R \subseteq Keys /\ st \in Statuses
      BY <2>1 DEF Turn
    <3>2. \A k \in Keys : ctx'.findings[k] # <<>> <=> ctx.findings[k] # <<>> \/ k \in R
      BY <2>1, <3>1 DEF Reported
    <3> QED
      BY <3>1, <3>2 DEF FindingKeys
  <2>3. PICK r \in R : r \in F
    BY <1>1 DEF Turn, AdapterInv
  <2>4. ASSUME NEW k \in ctx'.claimed  PROVE FamilyOf(k) \cap FindingKeys' # {}
    <3>1. CASE k \in ctx.claimed
      BY <3>1, <2>2 DEF AdapterInv, ClaimedAreReported
    <3>2. CASE k \in F
      BY <3>2, <1>1, <2>2, <2>3 DEF IsFamily
    <3> QED
      BY <1>1, <3>1, <3>2
  <2> QED
    BY <2>4 DEF ClaimedAreReported
<1> QED
  BY <1>2, <1>3, <1>4
\* The filters and the policies of a turn: the old ones in their places, and
\* perhaps a last one.
LEMMA TurnFilters ==
  ASSUME AdapterInv, NEW F, NEW R, NEW st, NEW f, NEW p, Turn(F, R, st, f, p)
  PROVE  /\ Len(ctx.filters) \in Nat
         /\ \A i \in 1..Len(ctx.filters) : i \in 1..Len(ctx'.filters) /\ ctx'.filters[i] = ctx.filters[i]
         /\ \A i \in 1..Len(ctx'.filters) :
              \/ i \in 1..Len(ctx.filters)
              \/ i = Len(ctx.filters) + 1 /\ ctx'.filters[i] = f /\ NewFilter(F, st, f)
<1>1. ctx.filters \in Seq(Filters)
  BY InvTypes, ContextFields
<1>2. CASE ctx'.filters = ctx.filters
  BY <1>1, <1>2
<1>3. CASE ctx'.filters = Append(ctx.filters, f) /\ NewFilter(F, st, f)
  BY <1>1, <1>3, AppendFacts, LastOrOld
<1> QED
  BY <1>2, <1>3 DEF Turn

LEMMA TurnPolicies ==
  ASSUME AdapterInv, NEW F, NEW R, NEW st, NEW f, NEW p, Turn(F, R, st, f, p)
  PROVE  /\ Len(ctx.policies) \in Nat
         /\ \A i \in 1..Len(ctx.policies) : i \in 1..Len(ctx'.policies) /\ ctx'.policies[i] = ctx.policies[i]
         /\ \A i \in 1..Len(ctx'.policies) :
              \/ i \in 1..Len(ctx.policies)
              \/ i = Len(ctx.policies) + 1 /\ ctx'.policies[i] = p /\ NewPolicy(F, st, p)
         /\ (\E n \in Merged : F = KeysOf[n]) =>
              Len(ctx.policies) + 1 \in 1..Len(ctx'.policies) /\ ctx'.policies[Len(ctx.policies) + 1] = p
<1>1. ctx.policies \in Seq(Objects)
  BY InvTypes, ContextFields
<1>2. CASE ctx'.policies = ctx.policies /\ \A n \in Merged : F # KeysOf[n]
  BY <1>1, <1>2
<1>3. CASE ctx'.policies = Append(ctx.policies, p) /\ NewPolicy(F, st, p)
  BY <1>1, <1>3, AppendFacts, LastOrOld
<1> QED
  BY <1>2, <1>3 DEF Turn

LEMMA TurnKeepsLeftBehind ==
  ASSUME AdapterInv, NEW F, NEW R, NEW st, NEW f, NEW p, Turn(F, R, st, f, p)
  PROVE  LeftBehindIsClaimed'
<1>1. ctx.claimed \subseteq ctx'.claimed /\ (F \in Whole => F \subseteq ctx'.claimed)
  BY DEF Turn
<1>2. FindingKeys' \subseteq ctx'.claimed
  <2>1. ctx.findings \in [Keys -> Seq(Statuses)] /\ ctx'.findings = Reported(ctx.findings, R, st)
    BY InvTypes, ContextFields DEF Turn
  <2>2. ASSUME NEW k \in Keys, ctx'.findings[k] # <<>>  PROVE k \in ctx'.claimed
    <3>1. CASE k \in R
      BY <3>1 DEF Turn
    <3>2. CASE k \notin R
      BY <3>2, <2>1, <2>2, <1>1 DEF Reported, AdapterInv, LeftBehindIsClaimed, FindingKeys
    <3> QED
      BY <3>1, <3>2
  <2> QED
    BY <2>2 DEF FindingKeys
<1>3. ASSUME NEW i \in 1..Len(ctx'.filters)
      PROVE  /\ ctx'.filters[i].from \subseteq ctx'.claimed
             /\ IsCORS(ctx'.filters[i]) => CORSKeys \subseteq ctx'.claimed
             /\ ctx'.filters[i].kind = "ExtensionRef" => MirrorKeys \subseteq ctx'.claimed
  <2>1. CASE i \in 1..Len(ctx.filters)
    BY <2>1, <1>1, TurnFilters DEF AdapterInv, LeftBehindIsClaimed
  <2>2. CASE ctx'.filters[i] = f /\ NewFilter(F, st, f)
    BY <2>2, <1>1 DEF NewFilter, Whole
  <2> QED
    BY <2>1, <2>2, TurnFilters
<1>4. ASSUME NEW i \in 1..Len(ctx'.policies)
      PROVE  /\ ctx'.policies[i].from \subseteq ctx'.claimed
             /\ ctx'.policies[i].name \in Merged => KeysOf[ctx'.policies[i].name] \subseteq ctx'.claimed
  <2>1. CASE i \in 1..Len(ctx.policies)
    BY <2>1, <1>1, TurnPolicies DEF AdapterInv, LeftBehindIsClaimed
  <2>2. CASE ctx'.policies[i] = p /\ NewPolicy(F, st, p)
    BY <2>2, <1>1, WholeAreFamilies DEF NewPolicy
  <2> QED
    BY <2>1, <2>2, TurnPolicies
<1> QED
  BY <1>2, <1>3, <1>4 DEF LeftBehindIsClaimed

\* The turn of a family's first key carries what all its keys say.
LEMMA TurnKeepsCarried ==
  ASSUME AdapterInv, NEW F, NEW R, NEW st, NEW f, NEW p, Turn(F, R, st, f, p)
  PROVE  ClaimedAreCarried'
<1> SUFFICES ASSUME ~ForEnvoyGateway', NEW n \in Merged, KeysOf[n] \cap ctx'.claimed # {}
             PROVE  \E i \in 1..Len(ctx'.policies) :
                      ctx'.policies[i].name = n /\ ctx'.policies[i].from = NonEmpty(KeysOf[n])'
  BY DEF ClaimedAreCarried
<1>1. ~ForEnvoyGateway /\ NonEmpty(KeysOf[n])' = NonEmpty(KeysOf[n])
  BY DEF Turn, ForEnvoyGateway, NonEmpty, IsGiven, Lookup
<1>2. CASE KeysOf[n] \cap ctx.claimed # {}
  <2>1. PICK i \in 1..Len(ctx.policies) : ctx.policies[i].name = n /\ ctx.policies[i].from = NonEmpty(KeysOf[n])
    BY <1>1, <1>2 DEF AdapterInv, ClaimedAreCarried
  <2>2. i \in 1..Len(ctx'.policies) /\ ctx'.policies[i] = ctx.policies[i]
    BY TurnPolicies
  <2> QED
    BY <1>1, <2>1, <2>2
<1>3. CASE KeysOf[n] \cap ctx.claimed = {}
  <2>1. KeysOf[n] \cap F # {}
    BY <1>3 DEF Turn
  <2>2. F = KeysOf[n]
    <3>1. IsFamily(KeysOf[n]) /\ IsFamily(F)
      BY WholeAreFamilies, FamiliesAreFamilies DEF Turn
    <3> QED
      BY <2>1, <3>1 DEF IsFamily
  <2>3. p.name = n /\ p.from = NonEmpty(KeysOf[n])
    BY <1>1, <2>2 DEF Turn
  <2> QED
    BY <1>1, <2>2, <2>3, TurnPolicies
<1> QED
  BY <1>2, <1>3

LEMMA TurnReportsOnce ==
  ASSUME AdapterInv, NEW F, NEW R, NEW st, NEW f, NEW p, Turn(F, R, st, f, p)
  PROVE  ReportedAtMostOnce'
<1>1. ctx.findings \in [Keys -> Seq(Statuses)] /\ ctx'.findings = Reported(ctx.findings, R, st)
      /\ st \in Statuses
  BY InvTypes, ContextFields DEF Turn
<1>2. ASSUME NEW k \in Keys  PROVE Len(ctx'.findings[k]) <= 1
  <2>1. CASE k \in R
    <3>1. ctx.findings[k] = <<>>
      BY <2>1 DEF Turn, AdapterInv, LeftBehindIsClaimed, FindingKeys
    <3>2. ctx'.findings[k] = Append(<<>>, st)
      BY <1>1, <2>1, <3>1 DEF Reported
    <3> QED
      BY <3>2
  <2>2. CASE k \notin R
    BY <2>2, <1>1 DEF Reported, AdapterInv, ReportedAtMostOnce
  <2> QED
    BY <2>1, <2>2
<1> QED
  BY <1>2 DEF ReportedAtMostOnce

LEMMA TurnMergesOnce ==
  ASSUME AdapterInv, NEW F, NEW R, NEW st, NEW f, NEW p, Turn(F, R, st, f, p)
  PROVE  FamiliesMergeOnce'
<1>1. Key \in F /\ Key \notin ctx.claimed
  BY DEF Turn
<1>2. ASSUME NEW i \in 1..Len(ctx'.policies), NEW j \in 1..Len(ctx'.policies),
             ctx'.policies[i].name = ctx'.policies[j].name, ctx'.policies[i].name \in Merged
      PROVE  i = j
  <2>1. ASSUME NEW m \in 1..Len(ctx.policies), NEW name \in Merged, ctx.policies[m].name = name,
               p.name = name, NewPolicy(F, st, p)
        PROVE  FALSE
    BY <1>1, <2>1 DEF AdapterInv, LeftBehindIsClaimed, NewPolicy
  <2>2. CASE i \in 1..Len(ctx.policies) /\ j \in 1..Len(ctx.policies)
    BY <1>2, <2>2, TurnPolicies DEF AdapterInv, FamiliesMergeOnce
  <2>3. CASE i = Len(ctx.policies) + 1 /\ j = Len(ctx.policies) + 1
    BY <2>3
  <2>4. CASE i \in 1..Len(ctx.policies) /\ ctx'.policies[j] = p /\ NewPolicy(F, st, p)
    BY <1>2, <2>1, <2>4, TurnPolicies
  <2>5. CASE j \in 1..Len(ctx.policies) /\ ctx'.policies[i] = p /\ NewPolicy(F, st, p)
    BY <1>2, <2>1, <2>5, TurnPolicies
  <2> QED
    BY <2>2, <2>3, <2>4, <2>5, TurnPolicies
<1>3. ASSUME NEW i \in 1..Len(ctx'.filters), NEW j \in 1..Len(ctx'.filters),
             \/ IsCORS(ctx'.filters[i]) /\ IsCORS(ctx'.filters[j])
             \/ ctx'.filters[i].kind = "ExtensionRef" /\ ctx'.filters[j].kind = "ExtensionRef"
      PROVE  i = j
  <2>1. ASSUME NEW m \in 1..Len(ctx.filters), NewFilter(F, st, f),
               \/ IsCORS(ctx.filters[m]) /\ IsCORS(f)
               \/ ctx.filters[m].kind = "ExtensionRef" /\ f.kind = "ExtensionRef"
        PROVE  FALSE
    BY <1>1, <2>1 DEF AdapterInv, LeftBehindIsClaimed, NewFilter
  <2>2. CASE i \in 1..Len(ctx.filters) /\ j \in 1..Len(ctx.filters)
    BY <1>3, <2>2, TurnFilters DEF AdapterInv, FamiliesMergeOnce
  <2>3. CASE i = Len(ctx.filters) + 1 /\ j = Len(ctx.filters) + 1
    BY <2>3
  <2>4. CASE i \in 1..Len(ctx.filters) /\ ctx'.filters[j] = f /\ NewFilter(F, st, f)
    BY <1>3, <2>1, <2>4, TurnFilters
  <2>5. CASE j \in 1..Len(ctx.filters) /\ ctx'.filters[i] = f /\ NewFilter(F, st, f)
    BY <1>3, <2>1, <2>5, TurnFilters
  <2> QED
    BY <2>2, <2>3, <2>4, <2>5, TurnFilters
<1> QED
  BY <1>2, <1>3 DEF FamiliesMergeOnce

LEMMA TurnRedirectsOnce ==
  ASSUME AdapterInv, NEW F, NEW R, NEW st, NEW f, NEW p, Turn(F, R, st, f, p)
  PROVE  OneSSLRedirect'
<1> SUFFICES ASSUME NEW i \in 1..Len(ctx'.filters), NEW j \in 1..Len(ctx'.filters),
                    ctx'.filters[i].from \subseteq SSLRedirectKeys,
                    ctx'.filters[i].kind = "RequestRedirect",
                    ctx'.filters[j].kind = "RequestRedirect", ctx'.filters[j].scheme = "https"
             PROVE  j >= i
  BY DEF OneSSLRedirect, HTTPSRedirects
<1>1. CASE i \in 1..Len(ctx.filters)
  <2>1. CASE j \in 1..Len(ctx.filters)
    BY <1>1, <2>1, TurnFilters DEF AdapterInv, OneSSLRedirect, HTTPSRedirects
  <2>2. CASE j = Len(ctx.filters) + 1
    BY <1>1, <2>2, TurnFilters
  <2> QED
    BY <2>1, <2>2, TurnFilters
<1>2. CASE i = Len(ctx.filters) + 1 /\ ctx'.filters[i] = f /\ NewFilter(F, st, f)
  <2>1. HTTPSRedirects(ctx) = {}
    BY <1>2 DEF NewFilter
  <2>2. j \notin 1..Len(ctx.filters)
    BY <2>1, TurnFilters DEF HTTPSRedirects
  <2> QED
    BY <1>2, <2>2, TurnFilters
<1> QED
  BY <1>1, <1>2, TurnFilters
LEMMA TurnLeavesNothing ==
  ASSUME AdapterInv, NEW F, NEW R, NEW st, NEW f, NEW p, Turn(F, R, st, f, p)
  PROVE  UntranslatableLeavesNothing'
<1>1. ctx.findings \in [Keys -> Seq(Statuses)] /\ ctx'.findings = Reported(ctx.findings, R, st)
      /\ st \in Statuses /\ R \cap ctx.claimed = {}
  BY InvTypes, ContextFields DEF Turn
<1>2. \A k \in Keys \ ctx.claimed : ctx.findings[k] = <<>>
  BY DEF AdapterInv, LeftBehindIsClaimed, FindingKeys
<1> SUFFICES ASSUME NEW k \in Keys, NEW i \in 1..Len(ctx'.findings[k]),
                    ctx'.findings[k][i] = "untranslatable"
             PROVE  /\ \A j \in 1..Len(ctx'.filters) : k \notin ctx'.filters[j].from
                    /\ \A j \in 1..Len(ctx'.policies) : k \notin ctx'.policies[j].from
  BY DEF UntranslatableLeavesNothing
<1>3. CASE k \in R
  <2>1. k \notin ctx.claimed
    BY <1>1, <1>3
  <2>2. ctx'.findings[k] = Append(<<>>, st)
    BY <1>1, <1>2, <1>3, <2>1 DEF Reported
  <2>3. st = "untranslatable"
    BY <2>2
  <2>4. ~NewFilter(F, st, f) /\ ~NewPolicy(F, st, p)
    BY <2>3 DEF NewFilter, NewPolicy
  <2>5. /\ \A j \in 1..Len(ctx.filters) : k \notin ctx.filters[j].from
        /\ \A j \in 1..Len(ctx.policies) : k \notin ctx.policies[j].from
    BY <2>1 DEF AdapterInv, LeftBehindIsClaimed
  <2> QED
    BY <2>4, <2>5, TurnFilters, TurnPolicies
<1>4. CASE k \notin R
  <2>1. ctx'.findings[k] = ctx.findings[k]
    BY <1>1, <1>4 DEF Reported
  <2>2. k \in ctx.claimed
    BY <1>2, <2>1
  <2>3. /\ \A j \in 1..Len(ctx.filters) : k \notin ctx.filters[j].from
        /\ \A j \in 1..Len(ctx.policies) : k \notin ctx.policies[j].from
    BY <2>1 DEF AdapterInv, UntranslatableLeavesNothing
  <2>4. (NewFilter(F, st, f) => k \notin f.from) /\ (NewPolicy(F, st, p) => k \notin p.from)
    BY <2>2 DEF NewFilter, NewPolicy
  <2>5. \A j \in 1..Len(ctx'.filters) : k \notin ctx'.filters[j].from
    BY <2>3, <2>4, TurnFilters
  <2>6. \A j \in 1..Len(ctx'.policies) : k \notin ctx'.policies[j].from
    BY <2>3, <2>4, TurnPolicies
  <2> QED
    BY <2>5, <2>6
<1> QED
  BY <1>3, <1>4

LEMMA TurnKeepsInv ==
  ASSUME AdapterInv, NEW F, NEW R, NEW st, NEW f, NEW p, Turn(F, R, st, f, p)
  PROVE  AdapterInv'
BY TurnKeepsTypes, TurnKeepsClaims, TurnKeepsLeftBehind, TurnKeepsCarried, TurnReportsOnce,
   TurnMergesOnce, TurnRedirectsOnce, TurnLeavesNothing DEF AdapterInv

-----------------------------------------------------------------------------
(* Every adapter takes a turn. *)

ATurn == \E F, R, st, f, p : Turn(F, R, st, f, p)

\* The annotation at hand and what a filter or a policy of one annotation is.
LEMMA DueKey ==
  ASSUME AdapterInv, NEW keys, NEW c, Transform(keys, c)
  PROVE  Key \in Keys /\ Key \in DOMAIN annotations /\ Value \in Values
<1>1. todo # {} /\ todo \subseteq Keys /\ todo \subseteq DOMAIN annotations
      /\ \A k \in DOMAIN annotations : annotations[k] \in Values
  BY InvTypes DEF Transform, IsDue, AdapterInv, AdapterTypeOK
<1>2. Key \in todo
  BY <1>1, KeyIsNext
<1> QED
  BY <1>1, <1>2 DEF Value

KeyFilter(kind, scheme) == [kind |-> kind, scheme |-> scheme, from |-> {Key}]
KeyPolicy(suffix)       == [name |-> suffix, from |-> {Key}]

\* Nothing is added, or one filter, or one policy.
LEMMA AddsNothing ==
  ASSUME AdapterInv, NEW F, NEW st, NEW f, NEW p
  PROVE  Adds(ctx, F, st, f, p)
<1>1. ctx \in Contexts
  BY InvTypes
<1>2. ctx.sslPassthrough => ctx.tls.mode = "Passthrough"
  BY DEF AdapterInv, PassthroughReachesListener
<1> QED
  BY <1>1, <1>2 DEF Adds

LEMMA AddsFilter ==
  ASSUME AdapterInv, NEW F, NEW st, st # "untranslatable", NEW p,
         NEW kind \in FilterKinds, NEW scheme \in {"", "https"}, NEW from \in SUBSET Keys,
         kind = "RequestRedirect" /\ F = SSLRedirectKeys => HTTPSRedirects(ctx) = {}
  PROVE  Adds(AddFilter(ctx, kind, scheme, from), F, st,
              [kind |-> kind, scheme |-> scheme, from |-> from], p)
<1> DEFINE b == AddFilter(ctx, kind, scheme, from)
           f == [kind |-> kind, scheme |-> scheme, from |-> from]
<1>1. /\ b \in Contexts /\ SameRest(ctx, b) /\ b.filters = Append(ctx.filters, f)
      /\ b.claimed = ctx.claimed /\ b.policies = ctx.policies /\ b.findings = ctx.findings
  BY InvTypes, AddFilterFields, ZenonT(60)
<1>2. f.kind = kind
  OBVIOUS
<1> HIDE DEF b, f
<1>3. Adds(b, F, st, f, p)
  BY <1>1, <1>2 DEF Adds, SameRest, SameTLS, AdapterInv, PassthroughReachesListener
<1> QED
  BY <1>3 DEF b, f

LEMMA AddsPolicy ==
  ASSUME AdapterInv, NEW F, NEW st, st # "untranslatable", NEW f,
         NEW suffix \in ObjectSuffixes, NEW from \in SUBSET Keys
  PROVE  Adds(AddPolicy(ctx, suffix, from), F, st, f, [name |-> suffix, from |-> from])
<1> DEFINE b == AddPolicy(ctx, suffix, from)
           p == [name |-> suffix, from |-> from]
<1>1. /\ b \in Contexts /\ SameRest(ctx, b) /\ b.policies = Append(ctx.policies, p)
      /\ b.claimed = ctx.claimed /\ b.filters = ctx.filters /\ b.findings = ctx.findings
  BY InvTypes, AddPolicyFields
<1> HIDE DEF b, p
<1>2. Adds(b, F, st, f, p)
  BY <1>1 DEF Adds, SameRest, SameTLS, AdapterInv, PassthroughReachesListener
<1> QED
  BY <1>2 DEF b, p

\* The families whose adapters look at one key at a time.
PlainFamilies ==
  {SSLRedirectKeys, ExternalRedirectKeys, RateLimitKeys, CertManagerKeys, IPAllowKeys, CanaryKeys,
   RegexKeys, SnippetKeys, AuthKeys} \cup {{k} : k \in SingleKeys}
Plain(F) == IsFamily(F) /\ \A k \in F : k # "mirror-target" /\ \A G \in Whole : k \notin G

LEMMA PlainFamiliesArePlain ==
  ASSUME NEW F \in PlainFamilies
  PROVE  Plain(F)
<1>1. IsFamily(F)
  BY FamiliesAreFamilies DEF PlainFamilies, Families
<1>2. ASSUME NEW k \in F  PROVE k # "mirror-target"
  BY DEF PlainFamilies, SSLRedirectKeys, ExternalRedirectKeys, RateLimitKeys, CertManagerKeys,
         IPAllowKeys, CanaryKeys, RegexKeys, SnippetKeys, AuthKeys, SingleKeys
<1>3. ASSUME NEW k \in F, NEW G \in Whole  PROVE k \notin G
  BY DEF PlainFamilies, SSLRedirectKeys, ExternalRedirectKeys, RateLimitKeys, CertManagerKeys,
         IPAllowKeys, CanaryKeys, RegexKeys, SnippetKeys, AuthKeys, SingleKeys,
         Whole, CORSKeys, AffinityKeys, ProxyTuningKeys, BackendTLSKeys, BasicAuthKeys
<1> QED
  BY <1>1, <1>2, <1>3 DEF Plain
\* What most of them add: nothing, a filter or a policy of the key at hand, or
\* something that is neither.
AddsOfKey(b, F, st) ==
  \/ b = ctx
  \/ /\ st # "untranslatable"
     /\ \E kind \in FilterKinds \ {"ExtensionRef"}, scheme \in {"", "https"} :
          /\ b = AddFilter(ctx, kind, scheme, {Key})
          /\ kind = "RequestRedirect" /\ F = SSLRedirectKeys => HTTPSRedirects(ctx) = {}
  \/ /\ st # "untranslatable"
     /\ \E suffix \in ObjectSuffixes \ Merged : b = AddPolicy(ctx, suffix, {Key})
  \/ /\ b \in Contexts /\ b.claimed = ctx.claimed /\ b.findings = ctx.findings
     /\ b.filters = ctx.filters /\ b.policies = ctx.policies
     /\ b.sslPassthrough => b.tls.mode = "Passthrough"

LEMMA PlainAdapter ==
  ASSUME AdapterInv, NEW F, Plain(F), Key \in F, NEW keys, NEW st \in Statuses, NEW b,
         Transform(keys, AddFinding(b, Key, st)), AddsOfKey(b, F, st)
  PROVE  ATurn
<1> DEFINE K == {Key}
<1>1. K \in SUBSET Keys
  BY DueKey
<1>2. PICK f, p : /\ Adds(b, F, st, f, p) /\ f.from = K /\ f.kind # "ExtensionRef"
                  /\ p.from = K /\ p.name \notin Merged
  <2> DEFINE F0 == [kind |-> "URLRewrite", scheme |-> "", from |-> K]
             P0 == [name |-> "-ipfilter", from |-> K]
  <2>1. /\ F0.from = K /\ F0.kind # "ExtensionRef" /\ P0.from = K /\ P0.name \notin Merged
    BY DEF Merged
  <2>2. CASE \/ b = ctx
             \/ /\ b \in Contexts /\ b.claimed = ctx.claimed /\ b.findings = ctx.findings
                /\ b.filters = ctx.filters /\ b.policies = ctx.policies
                /\ b.sslPassthrough => b.tls.mode = "Passthrough"
    <3> HIDE DEF F0, P0
    <3>1. Adds(b, F, st, F0, P0)
      BY <2>2, AddsNothing DEF Adds
    <3> QED
      BY <2>1, <3>1
  <2>3. ASSUME st # "untranslatable", NEW kind \in FilterKinds \ {"ExtensionRef"},
               NEW scheme \in {"", "https"}, b = AddFilter(ctx, kind, scheme, K),
               kind = "RequestRedirect" /\ F = SSLRedirectKeys => HTTPSRedirects(ctx) = {}
        PROVE  \E f, p : /\ Adds(b, F, st, f, p) /\ f.from = K /\ f.kind # "ExtensionRef"
                         /\ p.from = K /\ p.name \notin Merged
    <3> DEFINE f == [kind |-> kind, scheme |-> scheme, from |-> K]
    <3>1. f.from = K /\ f.kind # "ExtensionRef"
      OBVIOUS
    <3> HIDE DEF P0, K
    <3>2. kind \in FilterKinds
      OBVIOUS
    <3>3. Adds(b, F, st, f, P0)
      BY <1>1, <2>3, <3>2, AddsFilter
    <3> HIDE DEF f
    <3> QED
      BY <2>1, <3>1, <3>3
  <2>4. ASSUME st # "untranslatable", NEW suffix \in ObjectSuffixes \ Merged, b = AddPolicy(ctx, suffix, K)
        PROVE  \E f, p : /\ Adds(b, F, st, f, p) /\ f.from = K /\ f.kind # "ExtensionRef"
                         /\ p.from = K /\ p.name \notin Merged
    <3> DEFINE p == [name |-> suffix, from |-> K]
    <3>1. p.from = K /\ p.name \notin Merged
      OBVIOUS
    <3> HIDE DEF F0, K
    <3>2. suffix \in ObjectSuffixes
      OBVIOUS
    <3>3. Adds(b, F, st, F0, p)
      BY <1>1, <2>4, <3>2, AddsPolicy
    <3> HIDE DEF p
    <3> QED
      BY <2>1, <3>1, <3>3
  <2> QED
    BY <2>2, <2>3, <2>4 DEF AddsOfKey
<1>3. IsFamily(F) /\ (\A G \in Whole : Key \notin G) /\ Key # "mirror-target"
  BY DEF Plain
<1>4. Turn(F, K, st, f, p)
  BY <1>2, <1>3, PlainTurn
<1> QED
  BY <1>4 DEF ATurn

LEMMA FilterOfKey ==
  ASSUME NEW F, NEW st, st # "untranslatable", NEW kind \in FilterKinds, kind # "ExtensionRef",
         NEW scheme \in {"", "https"},
         kind = "RequestRedirect" /\ F = SSLRedirectKeys => HTTPSRedirects(ctx) = {}
  PROVE  AddsOfKey(AddFilter(ctx, kind, scheme, {Key}), F, st)
BY DEF AddsOfKey

LEMMA PolicyOfKey ==
  ASSUME NEW F, NEW st, st # "untranslatable", NEW suffix \in ObjectSuffixes, suffix \notin Merged
  PROVE  AddsOfKey(AddPolicy(ctx, suffix, {Key}), F, st)
BY DEF AddsOfKey

LEMMA PlainSuffixes ==
  ASSUME NEW suffix \in {"-ratelimit", "-ipfilter", "-accesslog", "-custom-errors", "-ua-deny"}
  PROVE  suffix \in ObjectSuffixes /\ suffix \notin Merged
BY DEF ObjectSuffixes, Merged

(* The adapters of level 1. *)

LEMMA RewriteTurn == ASSUME AdapterInv, RewriteAdapter  PROVE ATurn
<1> DEFINE F == {"rewrite-target"}
           b == AddFilter(ctx, "URLRewrite", "", {Key})
<1>1. Transform(F, AddFinding(b, Key, "direct")) /\ Key \in F
  BY DEF RewriteAdapter, Transform
<1>2. Plain(F)
  BY PlainFamiliesArePlain DEF PlainFamilies, SingleKeys
<1>3. AddsOfKey(b, F, "direct") /\ "direct" \in Statuses
  BY FilterOfKey DEF FilterKinds, Statuses
<1> HIDE DEF F, b
<1> QED
  BY <1>1, <1>2, <1>3, PlainAdapter

LEMMA SSLRedirectTurn == ASSUME AdapterInv, SSLRedirectAdapter  PROVE ATurn
<1> DEFINE F == SSLRedirectKeys
           b == IF IsTruthy(Value) THEN RedirectToHTTPS(ctx) ELSE ctx
<1>1. Transform(F, AddFinding(b, Key, "direct")) /\ Key \in F
  BY DEF SSLRedirectAdapter, Transform
<1>2. Plain(F)
  BY PlainFamiliesArePlain DEF PlainFamilies
<1>3. AddsOfKey(b, F, "direct") /\ "direct" \in Statuses
  BY DEF AddsOfKey, RedirectToHTTPS, FilterKinds, Statuses
<1> HIDE DEF F, b
<1> QED
  BY <1>1, <1>2, <1>3, PlainAdapter

LEMMA ExternalRedirectTurn == ASSUME AdapterInv, ExternalRedirectAdapter  PROVE ATurn
<1> DEFINE F == ExternalRedirectKeys
           scheme == IF Value = "https" THEN "https" ELSE ""
           b == AddFilter(ctx, "RequestRedirect", scheme, {Key})
<1>1. Plain(F) /\ Key \in F
  BY PlainFamiliesArePlain DEF PlainFamilies, ExternalRedirectAdapter, Transform
<1>2. CASE Trim(Value) = ""
  <2>1. Transform(F, AddFinding(ctx, Key, "untranslatable"))
    BY <1>2 DEF ExternalRedirectAdapter
  <2>2. AddsOfKey(ctx, F, "untranslatable") /\ "untranslatable" \in Statuses
    BY DEF AddsOfKey, Statuses
  <2> QED
    BY <1>1, <2>1, <2>2, PlainAdapter
<1>3. CASE Trim(Value) # ""
  <2>1. Transform(F, AddFinding(b, Key, "direct"))
    BY <1>3 DEF ExternalRedirectAdapter
  <2>2. F # SSLRedirectKeys
    BY <1>1 DEF ExternalRedirectKeys, SSLRedirectKeys
  <2>3. AddsOfKey(b, F, "direct") /\ "direct" \in Statuses
    BY <2>2 DEF AddsOfKey, FilterKinds, Statuses
  <2> HIDE DEF F, b
  <2> QED
    BY <1>1, <2>1, <2>3, PlainAdapter
<1> QED
  BY <1>2, <1>3
LEMMA WWWRedirectTurn == ASSUME AdapterInv, WWWRedirectAdapter  PROVE ATurn
<1> DEFINE F == {"from-to-www-redirect"}
           b == IF IsTruthy(Value) THEN AddFilter(ctx, "RequestRedirect", "", {Key}) ELSE ctx
<1>1. Transform(F, AddFinding(b, Key, "direct")) /\ Key \in F
  BY DEF WWWRedirectAdapter, Transform
<1>2. Plain(F)
  BY PlainFamiliesArePlain DEF PlainFamilies, SingleKeys
<1>3. F # SSLRedirectKeys
  BY DEF SSLRedirectKeys
<1>4. AddsOfKey(b, F, "direct") /\ "direct" \in Statuses
  BY <1>3, FilterOfKey DEF AddsOfKey, FilterKinds, Statuses
<1> HIDE DEF F, b
<1> QED
  BY <1>1, <1>2, <1>4, PlainAdapter

LEMMA AppRootTurn == ASSUME AdapterInv, AppRootAdapter  PROVE ATurn
<1> DEFINE F == {"app-root"}
           b == AddFilter(ctx, "RequestRedirect", "", {Key})
<1>1. Transform(F, AddFinding(b, Key, "direct")) /\ Key \in F
  BY DEF AppRootAdapter, Transform
<1>2. Plain(F)
  BY PlainFamiliesArePlain DEF PlainFamilies, SingleKeys
<1>3. F # SSLRedirectKeys
  BY DEF SSLRedirectKeys
<1>4. AddsOfKey(b, F, "direct") /\ "direct" \in Statuses
  BY <1>3, FilterOfKey DEF FilterKinds, Statuses
<1> HIDE DEF F, b
<1> QED
  BY <1>1, <1>2, <1>4, PlainAdapter

LEMMA XForwardedPrefixTurn == ASSUME AdapterInv, XForwardedPrefixAdapter  PROVE ATurn
<1> DEFINE F == {"x-forwarded-prefix"}
           b == AddFilter(ctx, "RequestHeaderModifier", "", {Key})
<1>1. Transform(F, AddFinding(b, Key, "direct")) /\ Key \in F
  BY DEF XForwardedPrefixAdapter, Transform
<1>2. Plain(F)
  BY PlainFamiliesArePlain DEF PlainFamilies, SingleKeys
<1>3. AddsOfKey(b, F, "direct") /\ "direct" \in Statuses
  BY FilterOfKey DEF FilterKinds, Statuses
<1> HIDE DEF F, b
<1> QED
  BY <1>1, <1>2, <1>3, PlainAdapter

\* The default backend is a field of its own, as the certificates are.
LEMMA OtherFields ==
  ASSUME AdapterInv, NEW F, NEW st, NEW b \in Contexts,
         b.claimed = ctx.claimed, b.findings = ctx.findings, b.filters = ctx.filters,
         b.policies = ctx.policies, b.sslPassthrough => b.tls.mode = "Passthrough"
  PROVE  AddsOfKey(b, F, st)
BY DEF AddsOfKey

LEMMA DefaultBackendTurn == ASSUME AdapterInv, DefaultBackendAdapter  PROVE ATurn
<1> DEFINE F == {"default-backend"}
           b == [ctx EXCEPT !.defaultBackend = Value]
<1>1. Plain(F) /\ Key \in F
  BY PlainFamiliesArePlain DEF PlainFamilies, SingleKeys, DefaultBackendAdapter, Transform
<1>2. CASE Trim(Value) = ""
  <2>1. Transform(F, AddFinding(ctx, Key, "untranslatable"))
    BY <1>2 DEF DefaultBackendAdapter
  <2>2. AddsOfKey(ctx, F, "untranslatable") /\ "untranslatable" \in Statuses
    BY DEF AddsOfKey, Statuses
  <2> HIDE DEF F
  <2> QED
    BY <1>1, <2>1, <2>2, PlainAdapter
<1>3. CASE Trim(Value) # ""
  <2>1. Transform(F, AddFinding(b, Key, "direct"))
    BY <1>3 DEF DefaultBackendAdapter
  <2>2. ctx \in Contexts /\ Value \in Values
    BY <2>1, InvTypes, DueKey
  <2>3. b \in Contexts /\ b.claimed = ctx.claimed /\ b.findings = ctx.findings
        /\ b.filters = ctx.filters /\ b.policies = ctx.policies
        /\ b.sslPassthrough = ctx.sslPassthrough /\ b.tls = ctx.tls
    BY <2>2 DEF Contexts
  <2> HIDE DEF F, b
  <2>4. b.sslPassthrough => b.tls.mode = "Passthrough"
    BY <2>3 DEF AdapterInv, PassthroughReachesListener
  <2>5. AddsOfKey(b, F, "direct") /\ "direct" \in Statuses
    BY <2>3, <2>4, OtherFields DEF Statuses
  <2> QED
    BY <1>1, <2>1, <2>5, PlainAdapter
<1> QED
  BY <1>2, <1>3

(* The plain adapters of level 2. *)

LEMMA RateLimitTurn == ASSUME AdapterInv, RateLimitAdapter  PROVE ATurn
<1> DEFINE F == RateLimitKeys
           b == AddPolicy(ctx, "-ratelimit", {Key})
<1>1. Plain(F) /\ Key \in F
  BY PlainFamiliesArePlain DEF PlainFamilies, RateLimitAdapter, Transform
<1>2. CASE Value = "7"
  <2>1. Transform(F, AddFinding(b, Key, "requires_policy"))
    BY <1>2 DEF RateLimitAdapter, RateLimit
  <2>2. AddsOfKey(b, F, "requires_policy") /\ "requires_policy" \in Statuses
    BY PolicyOfKey, PlainSuffixes DEF Statuses
  <2> HIDE DEF F, b
  <2> QED
    BY <1>1, <2>1, <2>2, PlainAdapter
<1>3. CASE Value # "7"
  <2>1. Transform(F, AddFinding(ctx, Key, "untranslatable"))
    BY <1>3 DEF RateLimitAdapter, RateLimit
  <2>2. AddsOfKey(ctx, F, "untranslatable") /\ "untranslatable" \in Statuses
    BY DEF AddsOfKey, Statuses
  <2> HIDE DEF F
  <2> QED
    BY <1>1, <2>1, <2>2, PlainAdapter
<1> QED
  BY <1>2, <1>3

LEMMA IPAllowTurn == ASSUME AdapterInv, IPAllowAdapter  PROVE ATurn
<1> DEFINE F == IPAllowKeys
           b == AddPolicy(ctx, "-ipfilter", {Key})
<1>1. Transform(F, AddFinding(b, Key, "requires_policy")) /\ Key \in F
  BY DEF IPAllowAdapter, Transform
<1>2. Plain(F)
  BY PlainFamiliesArePlain DEF PlainFamilies
<1>3. AddsOfKey(b, F, "requires_policy") /\ "requires_policy" \in Statuses
  BY PolicyOfKey, PlainSuffixes DEF Statuses
<1> HIDE DEF F, b
<1> QED
  BY <1>1, <1>2, <1>3, PlainAdapter

LEMMA CanaryTurn == ASSUME AdapterInv, CanaryAdapter  PROVE ATurn
<1> DEFINE F == CanaryKeys
           b == ctx
<1>1. Transform(F, AddFinding(b, Key, "requires_policy")) /\ Key \in F
  BY DEF CanaryAdapter, Transform
<1>2. Plain(F)
  BY PlainFamiliesArePlain DEF PlainFamilies
<1>3. AddsOfKey(b, F, "requires_policy") /\ "requires_policy" \in Statuses
  BY DEF AddsOfKey, Statuses
<1> HIDE DEF F, b
<1> QED
  BY <1>1, <1>2, <1>3, PlainAdapter

LEMMA RegexTurn == ASSUME AdapterInv, RegexAdapter  PROVE ATurn
<1> DEFINE F == RegexKeys
           b == ctx
<1>1. Transform(F, AddFinding(b, Key, "requires_policy")) /\ Key \in F
  BY DEF RegexAdapter, Transform
<1>2. Plain(F)
  BY PlainFamiliesArePlain DEF PlainFamilies
<1>3. AddsOfKey(b, F, "requires_policy") /\ "requires_policy" \in Statuses
  BY DEF AddsOfKey, Statuses
<1> HIDE DEF F, b
<1> QED
  BY <1>1, <1>2, <1>3, PlainAdapter

LEMMA AccessLogTurn == ASSUME AdapterInv, AccessLogAdapter  PROVE ATurn
<1> DEFINE F == {"enable-access-log"}
           b == PolicyUnlessEnvoyGateway(ctx, "-accesslog")
<1>1. Transform(F, AddFinding(b, Key, "requires_policy")) /\ Key \in F
  BY DEF AccessLogAdapter, Transform
<1>2. Plain(F)
  BY PlainFamiliesArePlain DEF PlainFamilies, SingleKeys
<1>3. AddsOfKey(b, F, "requires_policy") /\ "requires_policy" \in Statuses
  BY PolicyOfKey, PlainSuffixes DEF PolicyUnlessEnvoyGateway, AddsOfKey, Statuses
<1> HIDE DEF F, b
<1> QED
  BY <1>1, <1>2, <1>3, PlainAdapter

LEMMA CustomHTTPErrorsTurn == ASSUME AdapterInv, CustomHTTPErrorsAdapter  PROVE ATurn
<1> DEFINE F == {"custom-http-errors"}
           b == PolicyUnlessEnvoyGateway(ctx, "-custom-errors")
<1>1. Transform(F, AddFinding(b, Key, "requires_policy")) /\ Key \in F
  BY DEF CustomHTTPErrorsAdapter, Transform
<1>2. Plain(F)
  BY PlainFamiliesArePlain DEF PlainFamilies, SingleKeys
<1>3. AddsOfKey(b, F, "requires_policy") /\ "requires_policy" \in Statuses
  BY PolicyOfKey, PlainSuffixes DEF PolicyUnlessEnvoyGateway, AddsOfKey, Statuses
<1> HIDE DEF F, b
<1> QED
  BY <1>1, <1>2, <1>3, PlainAdapter
\* An issuer leaves a passthrough listener what it is.
LEMMA CertManagerTurn == ASSUME AdapterInv, CertManagerAdapter  PROVE ATurn
<1> DEFINE F == CertManagerKeys
           tls == [mode    |-> IF ctx.tls.mode = "" THEN "Terminate" ELSE ctx.tls.mode,
                   issuers |-> ctx.tls.issuers \cup NonEmpty({Key})]
           cert == [name |-> "-cert", from |-> {Key}]
           certs == Append(ctx.certificates, cert)
           b == [ctx EXCEPT !.tls = tls, !.certificates = certs]
<1>1. Transform(F, AddFinding(b, Key, "requires_policy")) /\ Key \in F
  BY DEF CertManagerAdapter, Transform
<1>2. Plain(F)
  BY PlainFamiliesArePlain DEF PlainFamilies
<1>3. ctx \in Contexts /\ Key \in Keys
  BY <1>1, InvTypes, DueKey
<1>4. tls \in [mode : {"", "Terminate", "Passthrough"}, issuers : SUBSET CertManagerKeys]
  <2>1. NonEmpty({Key}) \subseteq CertManagerKeys
    BY <1>1 DEF NonEmpty
  <2> QED
    BY <2>1, <1>3, ContextFields
<1>5. certs \in Seq(Objects)
  <2>1. cert \in Objects /\ ctx.certificates \in Seq(Objects)
    BY <1>3, ContextFields DEF Objects, ObjectSuffixes
  <2> HIDE DEF cert
  <2> QED
    BY <2>1, AppendType
<1>6. tls.mode = IF ctx.tls.mode = "" THEN "Terminate" ELSE ctx.tls.mode
  OBVIOUS
<1> HIDE DEF tls, certs
<1>7. b \in Contexts /\ b.claimed = ctx.claimed /\ b.findings = ctx.findings
      /\ b.filters = ctx.filters /\ b.policies = ctx.policies
      /\ b.sslPassthrough = ctx.sslPassthrough /\ b.tls = tls
  BY <1>3, <1>4, <1>5 DEF Contexts
<1> HIDE DEF F, b
<1>8. b.sslPassthrough => b.tls.mode = "Passthrough"
  BY <1>6, <1>7 DEF AdapterInv, PassthroughReachesListener
<1>9. AddsOfKey(b, F, "requires_policy") /\ "requires_policy" \in Statuses
  BY <1>7, <1>8, OtherFields DEF Statuses
<1> QED
  BY <1>1, <1>2, <1>9, PlainAdapter

LEMMA SSLPassthroughTurn == ASSUME AdapterInv, SSLPassthroughAdapter  PROVE ATurn
<1> DEFINE F == {"ssl-passthrough"}
           b == [ctx EXCEPT !.sslPassthrough = TRUE, !.tls.mode = PassthroughMode(ctx.tls)]
<1>1. Plain(F) /\ Key \in F
  BY PlainFamiliesArePlain DEF PlainFamilies, SingleKeys, SSLPassthroughAdapter, Transform
<1>2. CASE IsTruthy(Value)
  <2>1. Transform(F, AddFinding(b, Key, "requires_policy"))
    BY <1>2 DEF SSLPassthroughAdapter
  <2>2. ctx \in Contexts
    BY InvTypes
  <2>3. b.tls.mode = "Passthrough"
    BY <2>2 DEF Contexts, PassthroughMode
  <2>4. b \in Contexts /\ b.claimed = ctx.claimed /\ b.findings = ctx.findings
        /\ b.filters = ctx.filters /\ b.policies = ctx.policies
    BY <2>2 DEF Contexts, PassthroughMode
  <2> HIDE DEF F, b
  <2>5. AddsOfKey(b, F, "requires_policy") /\ "requires_policy" \in Statuses
    BY <2>3, <2>4, OtherFields DEF Statuses
  <2> QED
    BY <1>1, <2>1, <2>5, PlainAdapter
<1>3. CASE ~IsTruthy(Value)
  <2>1. Transform(F, AddFinding(ctx, Key, "direct"))
    BY <1>3 DEF SSLPassthroughAdapter
  <2>2. AddsOfKey(ctx, F, "direct") /\ "direct" \in Statuses
    BY DEF AddsOfKey, Statuses
  <2> HIDE DEF F
  <2> QED
    BY <1>1, <2>1, <2>2, PlainAdapter
<1> QED
  BY <1>2, <1>3

LEMMA NoAdapterTurn == ASSUME AdapterInv, NoAdapter  PROVE ATurn
<1> DEFINE F == {Key}
           keys == {k \in Keys \ HandledKeys : IsMigrationAnnotation(k)}
<1>1. Transform(keys, AddFinding(ctx, Key, "requires_policy")) /\ Key \in keys
  BY DEF NoAdapter, Transform
<1>2. Key \in UnknownKeys /\ Key \notin HandledKeys
  BY <1>1 DEF Keys, IsMigrationAnnotation
<1>3. IsFamily(F)
  BY <1>2, UnknownIsFamily
<1>4. \A G \in Whole : Key \notin G
  BY <1>2, WholeAreFamilies DEF HandledKeys
<1>5. Key # "mirror-target"
  <2>1. "mirror-target" \in HandledKeys
    BY WholeAreFamilies DEF HandledKeys, MirrorKeys
  <2> QED
    BY <1>2, <2>1
<1>6. Plain(F)
  BY <1>3, <1>4, <1>5 DEF Plain
<1>7. AddsOfKey(ctx, F, "requires_policy") /\ "requires_policy" \in Statuses
  BY DEF AddsOfKey, Statuses
<1>8. Key \in F
  OBVIOUS
<1> HIDE DEF F, keys
<1> QED
  BY <1>1, <1>6, <1>7, <1>8, PlainAdapter

(* The snippets of level 3: what is promoted is reported as such. *)

LEMMA SnippetTurn == ASSUME AdapterInv, SnippetAdapter  PROVE ATurn
<1> DEFINE F == SnippetKeys
           st == IF FullyCovered(Value) THEN "direct"
                 ELSE IF SomeMatch(Value) THEN "requires_policy" ELSE "untranslatable"
           b == Promote(Value, ctx)
<1>1. Plain(F) /\ Key \in F
  BY PlainFamiliesArePlain DEF PlainFamilies, SnippetAdapter, Transform
<1>2. CASE Key = "modsecurity-snippet"
  <2>1. Transform(F, AddFinding(ctx, Key, "untranslatable"))
    BY <1>2 DEF SnippetAdapter
  <2>2. AddsOfKey(ctx, F, "untranslatable") /\ "untranslatable" \in Statuses
    BY DEF AddsOfKey, Statuses
  <2> HIDE DEF F
  <2> QED
    BY <1>1, <2>1, <2>2, PlainAdapter
<1>3. CASE Key # "modsecurity-snippet"
  <2>1. Transform(F, AddFinding(b, Key, st))
    BY <1>3 DEF SnippetAdapter
  <2>2. st \in Statuses
    BY DEF Statuses
  <2>3. F # SSLRedirectKeys
    BY <1>1 DEF SnippetKeys, SSLRedirectKeys
  <2>4. Value \in {"headers", "headers and more", "deny agent", "return 301", "rewrite"}
          => st # "untranslatable"
    BY DEF FullyCovered, SomeMatch, Snippets
  <2> HIDE DEF F, st
  <2>5. AddsOfKey(b, F, st)
    <3>1. CASE Value \in {"headers", "headers and more"}
      <4>1. b = AddFilter(ctx, "ResponseHeaderModifier", "", {Key})
        BY <3>1 DEF Promote
      <4> QED
        BY <2>4, <3>1, <4>1, FilterOfKey DEF FilterKinds
    <3>2. CASE Value = "deny agent"
      <4>1. b = PolicyUnlessEnvoyGateway(ctx, "-ua-deny")
        BY <3>2 DEF Promote
      <4> QED
        BY <2>4, <3>2, <4>1, PolicyOfKey, PlainSuffixes DEF PolicyUnlessEnvoyGateway, AddsOfKey
    <3>3. CASE Value = "return 301"
      <4>1. b = AddFilter(ctx, "RequestRedirect", "https", {Key})
        BY <3>3 DEF Promote
      <4> QED
        BY <2>3, <2>4, <3>3, <4>1, FilterOfKey DEF FilterKinds
    <3>4. CASE Value = "rewrite"
      <4>1. b = AddFilter(ctx, "URLRewrite", "", {Key})
        BY <3>4 DEF Promote
      <4> QED
        BY <2>4, <3>4, <4>1, FilterOfKey DEF FilterKinds
    <3>5. CASE Value \notin {"headers", "headers and more", "deny agent", "return 301", "rewrite"}
      <4>1. b = ctx
        BY <3>5 DEF Promote
      <4> QED
        BY <4>1 DEF AddsOfKey
    <3> QED
      BY <3>1, <3>2, <3>3, <3>4, <3>5
  <2> HIDE DEF b
  <2> QED
    BY <1>1, <2>1, <2>2, <2>5, PlainAdapter
<1> QED
  BY <1>2, <1>3
(* The families claimed as a whole. *)

LEMMA FieldsOfFamilies ==
  /\ \A keys : NonEmpty(keys) \subseteq keys
  /\ CORSKeys \subseteq Keys /\ AffinityKeys \subseteq Keys /\ ProxyTuningKeys \subseteq Keys
  /\ BackendTLSKeys \subseteq Keys /\ BasicAuthKeys \subseteq Keys /\ MirrorKeys \subseteq Keys
BY WholeAreFamilies DEF NonEmpty, Whole, HandledKeys, Keys

LEMMA CORSTurn == ASSUME AdapterInv, CORSAdapter  PROVE ATurn
<1> DEFINE F == CORSKeys
           off == ~IsTruthy(Lookup("enable-cors")) /\ Lookup("cors-allow-origin") = ""
           values == NonEmpty(F \ {"enable-cors", "cors-allow-credentials"})
                       \cup {k \in {"cors-allow-credentials"} : IsTruthy(Lookup(k))}
           f == [kind |-> "ResponseHeaderModifier", scheme |-> "", from |-> values]
           b == AddFilter(ctx, "ResponseHeaderModifier", "", values)
           p == [name |-> "-affinity", from |-> {}]
           R == IF off THEN {Key} ELSE {"cors-allow-origin"}
<1>1. F = CORSKeys /\ F \in Whole /\ Key \in F /\ IsDue
  BY DEF Whole, CORSAdapter, Transform
<1>2. ~SiblingClaimed(F)
  BY <1>1, NoSiblingIsClaimed
<1>3. values \subseteq F /\ values \in SUBSET Keys
  BY FieldsOfFamilies DEF CORSKeys, NonEmpty
<1>4. R \in SUBSET F /\ R # {}
  BY <1>1 DEF CORSKeys
<1>5. /\ f.from = values /\ f.kind = "ResponseHeaderModifier"
      /\ p.from = {} /\ p.name = "-affinity" /\ "-affinity" \in Merged
      /\ "direct" \in Statuses /\ "direct" # "untranslatable"
  BY DEF Merged, Statuses
<1>6. F # SSLRedirectKeys
  BY <1>1 DEF CORSKeys, SSLRedirectKeys
<1>7. CASE off
  <2>1. Transform(F, Claim(AddFindings(ctx, R, "direct"), F))
    BY <1>2, <1>7 DEF CORSAdapter, AddFinding
  <2> HIDE DEF f, p, R, F
  <2>2. Adds(ctx, F, "direct", f, p)
    BY AddsNothing
  <2>3. Turn(F, R, "direct", f, p)
    BY <2>1, <2>2, <1>1, <1>3, <1>4, <1>5, WholeTurn
  <2> QED
    BY <2>3 DEF ATurn
<1>8. CASE ~off
  <2>1. Transform(F, Claim(AddFindings(b, R, "direct"), F))
    BY <1>2, <1>8 DEF CORSAdapter, AddFinding
  <2>2. b.policies = ctx.policies
    BY <1>3, InvTypes, AddFilterFields DEF FilterKinds
  <2>3. Adds(b, F, "direct", f, p)
    <3> HIDE DEF p, F, values
    <3> QED
      BY <1>3, <1>5, <1>6, AddsFilter DEF FilterKinds
  <2> HIDE DEF f, p, R, b, F
  <2>4. Turn(F, R, "direct", f, p)
    BY <2>1, <2>2, <2>3, <1>1, <1>3, <1>4, <1>5, WholeTurn
  <2> QED
    BY <2>4 DEF ATurn
<1> QED
  BY <1>7, <1>8

\* The others leave one policy, with the values of the whole family.
LEMMA PolicyOfFamily ==
  ASSUME AdapterInv, NEW n \in Merged, NEW F, F = KeysOf[n], F # CORSKeys, NEW R \in SUBSET F, R # {},
         NEW from \in SUBSET F, ~ForEnvoyGateway => from = NonEmpty(F),
         Transform(F, Claim(AddFindings(AddPolicy(ctx, n, from), R, "requires_policy"), F))
  PROVE  ATurn
<1> DEFINE b == AddPolicy(ctx, n, from)
           p == [name |-> n, from |-> from]
           f == ""
<1>1. F \in Whole /\ n \in ObjectSuffixes /\ from \in SUBSET Keys /\ ctx \in Contexts
  BY WholeAreFamilies, InvTypes DEF Merged, ObjectSuffixes, HandledKeys, Keys
<1>2. b.policies = Append(ctx.policies, p) /\ b.filters = ctx.filters
  BY <1>1, AddPolicyFields
<1>3. Adds(b, F, "requires_policy", f, p)
  <2> HIDE DEF f
  <2> QED
    BY <1>1, AddsPolicy
<1>4. p.name = n /\ p.from = from /\ "requires_policy" \in Statuses
  BY DEF Statuses
<1> HIDE DEF b, p, f
<1>5. Transform(F, Claim(AddFindings(b, R, "requires_policy"), F))
  BY DEF b
<1>6. Turn(F, R, "requires_policy", f, p)
  BY <1>1, <1>2, <1>3, <1>4, <1>5, WholeTurn
<1> QED
  BY <1>6 DEF ATurn

LEMMA AffinityTurn == ASSUME AdapterInv, AffinityAdapter  PROVE ATurn
<1> DEFINE F == AffinityKeys
           R == {"affinity"} \cup Present(F)
<1>1. F \in Whole /\ Key \in F /\ IsDue
  BY DEF Whole, AffinityAdapter, Transform
<1>2. ~SiblingClaimed(F)
  BY <1>1, NoSiblingIsClaimed
<1>3. Transform(F, Claim(AddFindings(AddPolicy(ctx, "-affinity", AffinityFields), R, "requires_policy"), F))
  BY <1>2 DEF AffinityAdapter, ReportAll
<1>4. AffinityFields \in SUBSET F /\ (~ForEnvoyGateway => AffinityFields = NonEmpty(F))
  BY DEF AffinityFields, AffinityKeys, NonEmpty
<1>5. R \in SUBSET F /\ R # {}
  BY DEF AffinityKeys, Present
<1>6. "-affinity" \in Merged /\ F = KeysOf["-affinity"] /\ F # CORSKeys
  BY KeysOfPolicies, KeysOfDiffer DEF Merged
<1> HIDE DEF F, R
<1> QED
  BY <1>3, <1>4, <1>5, <1>6, PolicyOfFamily

LEMMA TimeoutBodyTurn == ASSUME AdapterInv, TimeoutBodyAdapter  PROVE ATurn
<1> DEFINE F == ProxyTuningKeys
           R == Present(F)
<1>1. F \in Whole /\ Key \in F /\ IsDue /\ Key \in DOMAIN annotations
  BY DueKey DEF Whole, TimeoutBodyAdapter, Transform
<1>2. ~SiblingClaimed(F)
  BY <1>1, NoSiblingIsClaimed
<1>3. Transform(F, Claim(AddFindings(AddPolicy(ctx, "-backend", TuningFields), R, "requires_policy"), F))
  BY <1>2 DEF TimeoutBodyAdapter, ReportAll
<1>4. TuningFields \in SUBSET F /\ (~ForEnvoyGateway => TuningFields = NonEmpty(F))
  BY DEF TuningFields, ProxyTuningKeys, NonEmpty
<1>5. R \in SUBSET F /\ R # {}
  BY <1>1 DEF Present
<1>6. "-backend" \in Merged /\ F = KeysOf["-backend"] /\ F # CORSKeys
  BY KeysOfPolicies, KeysOfDiffer DEF Merged
<1> HIDE DEF F, R
<1> QED
  BY <1>3, <1>4, <1>5, <1>6, PolicyOfFamily

LEMMA BackendTLSTurn == ASSUME AdapterInv, BackendTLSAdapter  PROVE ATurn
<1> DEFINE F == BackendTLSKeys
           R == {Key}
<1>1. Transform(F, Claim(AddFindings(AddPolicy(ctx, "-backend-tls", NonEmpty(F)), R, "requires_policy"), F))
  BY DEF BackendTLSAdapter, AddFinding
<1>2. NonEmpty(F) \in SUBSET F
  BY FieldsOfFamilies
<1>3. R \in SUBSET F /\ R # {}
  BY <1>1 DEF Transform
<1>4. "-backend-tls" \in Merged /\ F = KeysOf["-backend-tls"] /\ F # CORSKeys
  BY KeysOfPolicies, KeysOfDiffer DEF Merged
<1> HIDE DEF F, R
<1> QED
  BY <1>1, <1>2, <1>3, <1>4, PolicyOfFamily

LEMMA BasicAuthTurn == ASSUME AdapterInv, BasicAuthAdapter  PROVE ATurn
<1> DEFINE F == BasicAuthKeys
           secret == NonEmpty({"auth-secret"})
           from == IF ForEnvoyGateway THEN secret ELSE NonEmpty(F)
           R == {"auth-type"} \cup secret
<1>1. F \in Whole /\ Key \in F /\ IsDue
  BY DEF Whole, BasicAuthAdapter, Transform
<1>2. ~SiblingClaimed(F)
  BY <1>1, NoSiblingIsClaimed
<1>3. Transform(F, Claim(AddFindings(AddPolicy(ctx, "-basicauth", from), R, "requires_policy"), F))
  BY <1>2 DEF BasicAuthAdapter, ReportAll
<1>4. from \in SUBSET F /\ (~ForEnvoyGateway => from = NonEmpty(F))
  BY FieldsOfFamilies DEF BasicAuthKeys
<1>5. R \in SUBSET F /\ R # {}
  BY FieldsOfFamilies DEF BasicAuthKeys
<1>6. "-basicauth" \in Merged /\ F = KeysOf["-basicauth"] /\ F # CORSKeys
  BY KeysOfPolicies, KeysOfDiffer DEF Merged
<1> HIDE DEF F, R, from
<1> QED
  BY <1>3, <1>4, <1>5, <1>6, PolicyOfFamily
(* Mirror and external authentication claim a sibling along with the key. *)

LEMMA GroupTurn ==
  ASSUME AdapterInv, NEW F \in Families, F \notin Whole, F # SSLRedirectKeys, Key \in F,
         NEW G \in SUBSET F, "mirror-target" \in G \cup {Key} => "mirror" \in G,
         NEW keys, NEW b, NEW f, Transform(keys, Claim(AddFinding(b, Key, "requires_policy"), G)),
         Adds(b, F, "requires_policy", f, ""), b.policies = ctx.policies,
         \/ b.filters = ctx.filters
         \/ /\ f.from \subseteq (G \cup {Key}) \ ctx.claimed /\ f.kind = "ExtensionRef"
            /\ F = MirrorKeys /\ G = MirrorKeys
  PROVE  ATurn
<1> DEFINE R == {Key}
           a == AddFindings(b, R, "requires_policy")
           c == Claim(a, G)
<1>1. IsFamily(F) /\ F \subseteq Reportable
  BY FamiliesAreFamilies DEF IsFamily, Reportable
<1>2. b \in Contexts /\ R \in SUBSET Reportable /\ G \in SUBSET Reportable
      /\ "requires_policy" \in Statuses
  BY <1>1 DEF Adds, Statuses
<1>3. ctx' = Claim(c, R) /\ Key \notin ctx.claimed
  BY DEF Transform, AddFinding, IsDue
<1>4. Key \in R /\ R = {Key}
  OBVIOUS
<1> HIDE DEF R
<1>5. /\ a \in Contexts /\ SameRest(b, a)
      /\ a.findings = Reported(b.findings, R, "requires_policy") /\ a.claimed = b.claimed \cup R
      /\ a.filters = b.filters /\ a.policies = b.policies
  BY ONLY <1>2, AddFindingsFields
<1> HIDE DEF a
<1>6. /\ c \in Contexts /\ SameRest(a, c)
      /\ c.findings = a.findings /\ c.claimed = a.claimed \cup G
      /\ c.filters = a.filters /\ c.policies = a.policies
  BY <1>2, <1>5, ClaimFields
<1> HIDE DEF c
<1>7. /\ ctx' \in Contexts /\ SameRest(c, ctx')
      /\ ctx'.findings = c.findings /\ ctx'.claimed = c.claimed \cup R
      /\ ctx'.filters = c.filters /\ ctx'.policies = c.policies
  BY <1>2, <1>3, <1>6, ClaimFields
<1>8. /\ ctx'.claimed = ctx.claimed \cup G \cup {Key}
      /\ ctx'.findings = Reported(ctx.findings, R, "requires_policy")
  BY <1>4, <1>5, <1>6, <1>7 DEF Adds
<1>9. \/ ctx'.filters = ctx.filters
      \/ ctx'.filters = Append(ctx.filters, f) /\ NewFilter(F, "requires_policy", f)
  <2>1. ctx'.filters = b.filters
    BY <1>5, <1>6, <1>7
  <2>2. CASE b.filters = ctx.filters
    BY <2>1, <2>2
  <2>3. CASE /\ f.from \subseteq (G \cup {Key}) \ ctx.claimed /\ f.kind = "ExtensionRef"
             /\ F = MirrorKeys /\ G = MirrorKeys /\ b.filters # ctx.filters
    BY <1>8, <2>1, <2>3 DEF NewFilter, Adds, IsCORS
  <2> QED
    BY <2>2, <2>3
<1>10. ctx'.policies = ctx.policies /\ \A n \in Merged : F # KeysOf[n]
  BY <1>5, <1>6, <1>7, WholeAreFamilies
<1>11. ctx'.sslPassthrough => ctx'.tls.mode = "Passthrough"
  BY <1>5, <1>6, <1>7 DEF Adds, SameRest, SameTLS
<1>12. todo' = todo \ {Key} /\ UNCHANGED <<annotations, provider>>
  BY DEF Transform
<1>13. R # {} /\ R \subseteq ctx'.claimed \ ctx.claimed
  BY <1>3, <1>4, <1>8
<1>14. /\ ctx.claimed \cup {Key} \subseteq ctx'.claimed /\ ctx'.claimed \subseteq ctx.claimed \cup F
       /\ "mirror-target" \in ctx'.claimed \ ctx.claimed => "mirror" \in ctx'.claimed
  BY <1>8
<1>15. Turn(F, R, "requires_policy", f, "")
  BY <1>1, <1>2, <1>3, <1>7, <1>8, <1>9, <1>10, <1>11, <1>12, <1>13, <1>14 DEF Turn
<1> QED
  BY <1>15 DEF ATurn

LEMMA MirrorTurn == ASSUME AdapterInv, MirrorAdapter  PROVE ATurn
<1> DEFINE F == MirrorKeys
           target == IF Lookup("mirror-target") # "" THEN "mirror-target" ELSE Key
           from == {target}
           f == [kind |-> "ExtensionRef", scheme |-> "", from |-> from]
           b == AddFilter(ctx, "ExtensionRef", "", from)
<1>1. Key \in F /\ Key \notin ctx.claimed
  BY DEF MirrorAdapter, Transform, IsDue
<1>2. F \in Families /\ F \notin Whole
  BY WholeAreFamilies DEF Whole, MirrorKeys, CORSKeys, AffinityKeys, ProxyTuningKeys, BackendTLSKeys,
                          BasicAuthKeys
<1>3. CASE Key = "mirror" /\ ~IsTruthy(Value)
  <2>1. Transform(F, AddFinding(ctx, Key, "direct"))
    BY <1>3 DEF MirrorAdapter
  <2>2. IsFamily(F) /\ Key # "mirror-target" /\ \A G \in Whole : Key \notin G
    BY <1>1, <1>2, <1>3, FamiliesAreFamilies, WholeAreFamilies DEF IsFamily
  <2> DEFINE f0 == [kind |-> "URLRewrite", scheme |-> "", from |-> {Key}]
             p0 == [name |-> "-ipfilter", from |-> {Key}]
  <2>3. /\ f0.from = {Key} /\ f0.kind # "ExtensionRef" /\ p0.from = {Key} /\ p0.name \notin Merged
        /\ "direct" \in Statuses
    BY DEF Merged, Statuses
  <2> HIDE DEF f0, p0
  <2>4. Adds(ctx, F, "direct", f0, p0)
    BY AddsNothing
  <2>5. Turn(F, {Key}, "direct", f0, p0)
    BY <1>1, <2>1, <2>2, <2>3, <2>4, PlainTurn
  <2> QED
    BY <2>5 DEF ATurn
<1>4. CASE ~(Key = "mirror" /\ ~IsTruthy(Value))
  <2>1. Transform(F, Claim(AddFinding(b, Key, "requires_policy"), F))
    BY <1>4 DEF MirrorAdapter
  <2>2. from \subseteq (F \cup {Key}) \ ctx.claimed
    BY <1>1 DEF AdapterInv, ClaimsAreWhole, MirrorKeys
  <2>3. from \in SUBSET Keys /\ "ExtensionRef" \in FilterKinds
    BY <2>2, FieldsOfFamilies, DueKey DEF FilterKinds, MirrorAdapter
  <2>4. "mirror" \in F /\ F # SSLRedirectKeys
    BY DEF MirrorKeys, SSLRedirectKeys
  <2>5. f.from = from /\ f.kind = "ExtensionRef"
    OBVIOUS
  <2>6. b.policies = ctx.policies
    BY <2>3, InvTypes, AddFilterFields
  <2>7. Adds(b, F, "requires_policy", f, "")
    <3> HIDE DEF F, from
    <3> QED
      BY <2>3, AddsFilter
  <2>8. F = MirrorKeys
    OBVIOUS
  <2> HIDE DEF F, from, f, b
  <2> QED
    BY <1>1, <1>2, <2>1, <2>2, <2>4, <2>5, <2>6, <2>7, <2>8, GroupTurn
<1> QED
  BY <1>3, <1>4

LEMMA AuthTurn == ASSUME AdapterInv, AuthAdapter  PROVE ATurn
<1> DEFINE F == AuthKeys
           G == {"auth-url", "auth-signin"}
<1>1. Plain(F) /\ Key \in F
  BY PlainFamiliesArePlain DEF PlainFamilies, AuthAdapter, Transform
<1>2. /\ AddsOfKey(ctx, F, "requires_policy") /\ AddsOfKey(ctx, F, "untranslatable")
      /\ "requires_policy" \in Statuses /\ "untranslatable" \in Statuses
  BY DEF AddsOfKey, Statuses
<1>3. CASE Key = "auth-tls-secret"
  <2>1. Transform(F, AddFinding(ctx, Key, "requires_policy"))
    BY <1>3 DEF AuthAdapter
  <2> HIDE DEF F
  <2> QED
    BY <1>1, <1>2, <2>1, PlainAdapter
<1>4. CASE Key # "auth-tls-secret" /\ ForEnvoyGateway
  <2>1. Transform(F, Claim(AddFinding(ctx, Key, "requires_policy"), G))
    BY <1>4 DEF AuthAdapter
  <2>2. F \in Families /\ F # SSLRedirectKeys
    BY <1>1 DEF Families, AuthKeys, SSLRedirectKeys
  <2>3. F \notin Whole
    BY <1>1 DEF Plain
  <2>4. G \in SUBSET F /\ "mirror-target" \notin G \cup {Key}
    BY <1>1 DEF AuthKeys
  <2>5. Adds(ctx, F, "requires_policy", "", "")
    BY AddsNothing
  <2> HIDE DEF F, G
  <2> QED
    BY <1>1, <2>1, <2>2, <2>3, <2>4, <2>5, GroupTurn
<1>5. CASE Key # "auth-tls-secret" /\ ~ForEnvoyGateway
  <2>1. Transform(F, AddFinding(ctx, Key, "untranslatable"))
    BY <1>5 DEF AuthAdapter
  <2> HIDE DEF F
  <2> QED
    BY <1>1, <1>2, <2>1, PlainAdapter
<1> QED
  BY <1>3, <1>4, <1>5
-----------------------------------------------------------------------------
(* Translate. *)

LEMMA SameContext ==
  ASSUME UNCHANGED <<annotations, provider, ctx>>, AdapterInv
  PROVE  /\ ClaimsAreWhole' /\ ClaimedAreReported' /\ LeftBehindIsClaimed' /\ ClaimedAreCarried'
         /\ ReportedAtMostOnce' /\ FamiliesMergeOnce' /\ OneSSLRedirect'
         /\ UntranslatableLeavesNothing' /\ PassthroughReachesListener'
<1>1. ClaimsAreWhole' /\ ReportedAtMostOnce' /\ FamiliesMergeOnce' /\ PassthroughReachesListener'
  BY DEF AdapterInv, ClaimsAreWhole, ReportedAtMostOnce, FamiliesMergeOnce, PassthroughReachesListener
<1>2. FindingKeys' = FindingKeys
  BY DEF FindingKeys
<1>3. ClaimedAreReported' /\ LeftBehindIsClaimed'
  BY <1>2 DEF AdapterInv, ClaimedAreReported, LeftBehindIsClaimed
<1>4. \A keys : NonEmpty(keys)' = NonEmpty(keys)
  BY DEF NonEmpty, IsGiven, Lookup
<1>5. ClaimedAreCarried'
  BY <1>4 DEF AdapterInv, ClaimedAreCarried, ForEnvoyGateway
<1>6. HTTPSRedirects(ctx)' = HTTPSRedirects(ctx)
  BY DEF HTTPSRedirects
<1>7. OneSSLRedirect' /\ UntranslatableLeavesNothing'
  BY <1>6 DEF AdapterInv, OneSSLRedirect, UntranslatableLeavesNothing
<1> QED
  BY <1>1, <1>3, <1>5, <1>7

\* A key that is passed over is claimed, or not a migration annotation.
LEMMA PassedOver ==
  ASSUME AdapterInv, SkipClaimed \/ IgnoreForeign
  PROVE  AdapterInv'
<1>1. /\ UNCHANGED <<annotations, provider, ctx>> /\ todo' = todo \ {Key}
      /\ Key \in ctx.claimed \/ ~IsMigrationAnnotation(Key)
  BY DEF SkipClaimed, IgnoreForeign, IsDue
<1>2. AdapterTypeOK'
  BY <1>1 DEF AdapterInv, AdapterTypeOK
<1>3. PassedAreClaimed'
  BY <1>1 DEF AdapterInv, PassedAreClaimed
<1> QED
  BY <1>1, <1>2, <1>3, SameContext DEF AdapterInv

LEMMA AdapterInit ==
  ASSUME Init
  PROVE  AdapterInv
<1>1. /\ annotations \in AnnotationMaps /\ provider \in Providers /\ todo = DOMAIN annotations
      /\ ctx = NewContext
  BY DEF Init
<1>2. /\ ctx.filters = <<>> /\ ctx.policies = <<>> /\ ctx.certificates = <<>>
      /\ ctx.findings = [k \in Keys |-> <<>>] /\ ctx.claimed = {} /\ ctx.sslPassthrough = FALSE
  BY <1>1 DEF NewContext
<1>3. ctx \in Contexts
  <2>1. <<>> \in Seq(Filters) /\ <<>> \in Seq(Objects)
    OBVIOUS
  <2>2. [k \in Keys |-> <<>>] \in [Keys -> Seq(Statuses)]
    OBVIOUS
  <2>3. NoTLS \in [mode : {"", "Terminate", "Passthrough"}, issuers : SUBSET CertManagerKeys]
    BY DEF NoTLS
  <2>4. "" \in Values
    BY DEF Values
  <2> QED
    BY <1>1, <2>1, <2>2, <2>3, <2>4 DEF NewContext, Contexts
<1>4. AdapterTypeOK
  BY <1>1, <1>3, AdapterAssumption DEF AdapterTypeOK
<1>5. ClaimsAreWhole /\ PassedAreClaimed /\ ClaimedAreReported /\ ClaimedAreCarried
  BY <1>1, <1>2 DEF ClaimsAreWhole, PassedAreClaimed, ClaimedAreReported, ClaimedAreCarried
<1>6. LeftBehindIsClaimed
  BY <1>2 DEF LeftBehindIsClaimed, FindingKeys
<1>7. ReportedAtMostOnce /\ FamiliesMergeOnce /\ OneSSLRedirect /\ UntranslatableLeavesNothing
      /\ PassthroughReachesListener
  BY <1>2 DEF ReportedAtMostOnce, FamiliesMergeOnce, OneSSLRedirect, UntranslatableLeavesNothing,
              PassthroughReachesListener
<1> QED
  BY <1>4, <1>5, <1>6, <1>7 DEF AdapterInv

LEMMA AdapterNext ==
  ASSUME AdapterInv, Next
  PROVE  AdapterInv'
<1>1. CASE SkipClaimed \/ IgnoreForeign
  BY <1>1, PassedOver
<1>2. CASE NoAdapter \/ Level1 \/ Level2 \/ Level3
  <2>1. ATurn
    BY <1>2, NoAdapterTurn, RewriteTurn, SSLRedirectTurn, ExternalRedirectTurn, CORSTurn, WWWRedirectTurn,
       AppRootTurn, XForwardedPrefixTurn, DefaultBackendTurn, RateLimitTurn, CertManagerTurn,
       AffinityTurn, IPAllowTurn, TimeoutBodyTurn, CanaryTurn, RegexTurn, BackendTLSTurn, MirrorTurn,
       AccessLogTurn, CustomHTTPErrorsTurn, SSLPassthroughTurn, BasicAuthTurn, SnippetTurn, AuthTurn
       DEF Level1, Level2, Level3
  <2> QED
    BY <2>1, TurnKeepsInv DEF ATurn
<1> QED
  BY <1>1, <1>2 DEF Next

\* The inductive invariant of Translate: claims are whole families where
\* adapters read their siblings, a passed key is claimed, a claimed one is
\* reported by its family, and what is left behind is claimed.
THEOREM AdapterInvariant == Spec => []AdapterInv
<1>1. Init => AdapterInv
  BY AdapterInit
<1>2. AdapterInv /\ [Next]_vars => AdapterInv'
  <2>1. ASSUME AdapterInv, UNCHANGED vars  PROVE AdapterInv'
    <3>1. AdapterTypeOK' /\ PassedAreClaimed'
      BY <2>1 DEF vars, AdapterInv, AdapterTypeOK, PassedAreClaimed
    <3> QED
      BY <2>1, <3>1, SameContext DEF vars, AdapterInv
  <2> QED
    BY <2>1, AdapterNext
<1> QED
  BY <1>1, <1>2, PTL DEF Spec

\* The context stays well formed, and keys of other tools are never claimed.
THEOREM AdapterTypes == Spec => []AdapterTypeOK
<1>1. AdapterInv => AdapterTypeOK
  BY DEF AdapterInv
<1> QED
  BY <1>1, AdapterInvariant, PTL

\* No migration annotation leaves Translate without a finding of its family.
THEOREM FamiliesAreReported == Spec => []FamilyIsReported
<1>1. AdapterInv => FamilyIsReported
  BY DEF AdapterInv, FamilyIsReported, Done, PassedAreClaimed, ClaimedAreReported
<1> QED
  BY <1>1, AdapterInvariant, PTL

\* No annotation has two findings.
THEOREM AnnotationsAreReportedOnce == Spec => []ReportedAtMostOnce
<1>1. AdapterInv => ReportedAtMostOnce
  BY DEF AdapterInv
<1> QED
  BY <1>1, AdapterInvariant, PTL

\* A merged family makes one policy, one set of CORS headers, one mirror.
THEOREM MergedFamiliesMakeOneObject == Spec => []FamiliesMergeOnce
<1>1. AdapterInv => FamiliesMergeOnce
  BY DEF AdapterInv
<1> QED
  BY <1>1, AdapterInvariant, PTL

\* ssl-redirect never adds to a redirect to HTTPS that is already there.
THEOREM RedirectsAreNotRepeated == Spec => []OneSSLRedirect
<1>1. AdapterInv => OneSSLRedirect
  BY DEF AdapterInv
<1> QED
  BY <1>1, AdapterInvariant, PTL

\* A merged policy carries the values of every key of its family, whichever
\* key came first.
THEOREM NoValueOfAFamilyIsLost == Spec => []MergedFamiliesCarryEveryValue
<1>1. ASSUME NEW n \in Merged  PROVE \A k \in KeysOf[n] : IsMigrationAnnotation(k)
  BY KeysOfPolicies DEF Merged, IsMigrationAnnotation, ForeignKeys, AffinityKeys, ProxyTuningKeys,
                        BackendTLSKeys, BasicAuthKeys
<1>2. AdapterInv => MergedFamiliesCarryEveryValue
  <2> SUFFICES ASSUME AdapterInv, Done, ~ForEnvoyGateway, NEW n \in Merged,
                      Present(KeysOf[n]) # {}
               PROVE  \E i \in 1..Len(ctx.policies) :
                        ctx.policies[i].name = n /\ ctx.policies[i].from = NonEmpty(KeysOf[n])
    BY DEF MergedFamiliesCarryEveryValue
  <2>1. KeysOf[n] \cap ctx.claimed # {}
    BY <1>1 DEF AdapterInv, PassedAreClaimed, Present, Done
  <2> QED
    BY <2>1 DEF AdapterInv, ClaimedAreCarried
<1> QED
  BY <1>2, AdapterInvariant, PTL

\* What is reported as untranslatable is in no filter and no policy.
THEOREM NothingOfTheUntranslatable == Spec => []UntranslatableLeavesNothing
<1>1. AdapterInv => UntranslatableLeavesNothing
  BY DEF AdapterInv
<1> QED
  BY <1>1, AdapterInvariant, PTL

\* A passthrough Ingress gets a passthrough listener, in whatever order
\* cert-manager's annotations come.
THEOREM ListenersPassThrough == Spec => []PassthroughReachesListener
<1>1. AdapterInv => PassthroughReachesListener
  BY DEF AdapterInv
<1> QED
  BY <1>1, AdapterInvariant, PTL
=============================================================================
