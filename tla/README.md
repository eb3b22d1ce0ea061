# GateShift in TLA+

GateShift turns Kubernetes Ingresses (with their Ingress-NGINX annotations) into
Gateway API manifests, as a command line tool and as an operator that reconciles
`MigrationRequest`s and may publish the result as a GitHub pull request. This
directory holds specifications of it, the TLC configurations that check them and
the TLAPS proofs about them. Line numbers are those of the repository.

## 1. Inventory

| Component | Code | State | Operations | Hard because of | Model |
|---|---|---|---|---|---|
| MigrationRequest operator | `internal/controller`, `api/v1alpha1`, `cmd/gateshift-operator` | requests and Ingresses in the API server; cache, queue and worker of each replica | `Reconcile`, `fail`, watches, restart | stale caches, conflicts, several replicas without leader election, self-triggered reconciles, crashes between side effects | `MigrationOperator`, `MigrationLedger` |
| GitOps publishing | `pkg/gitops` | branches, commits and pull requests in GitHub; dry-run files | `CreateMigrationPR` | four remote calls without undo, lost answers, names with a resolution of a second | `GitOps`, `ProposalBoard` |
| Annotation adapters | `pkg/adapters` | the translation context: claims, findings, filters, policies, TLS | `Translate` and 23 adapters | order of keys, families claimed by one member | `AnnotationAdapters` |
| Conversion pipeline | `pkg/convert`, `pkg/nginxquirks` | the bundle: Gateways, HTTPRoutes, policies, certificates, findings | `FromIngress`, `FromIngresses`, `EmitYAML` | interactions between Ingresses: shared hosts, regex mode, canaries, one shared Gateway | `Conversion`, `Policies` (partly) |
| Dual run | `pkg/convert/dualrun.go`, `internal/cli/dual_run.go` | a bundle, renamed | `ApplyDualRunMode` | retargeting by name suffix, objects that are not renamed, what is live already | `Emission` |
| Policy emission | `pkg/convert/eg_sanitize.go`, `finalize.go`, `EmitYAML` | the documents, the cluster they are applied to | sanitize, strip, emit | policies that end up empty, two documents for one object | `Policies`, `Emission` (partly) |
| Conformance, features, readiness | `pkg/conformance`, `pkg/ir` | none | validation, scoring | what is validated is not what is emitted later | `Conformance` (partly: no scores) |
| Snippet patterns | `pkg/patterns` | none | `AnalyzeSnippet` | what a partial match claims to cover | as an input of `AnnotationAdapters` only: regular expressions over free text |
| Command line | `internal/cli` | none between commands but the cluster | `convert`, `migrate`, `dual-run`, `validate` | two ways into the pipeline, commands one after the other | `Emission` (partly: the commands that only print are left out); `migrate` is a caller in `GitOps` |
| Reports | `pkg/audit`, `pkg/diff`, `pkg/scoreboard` | none | printing | - | not modelled: formatting of results computed elsewhere |
| Loading, cluster access | `pkg/loader`, `pkg/cluster` | none | decode YAML, one list call | - | not modelled: pure I/O |
| Chart, CRDs, CI | `charts`, `config` | - | - | - | not modelled: what they decide (replicas, token) is a constant |

How they interact. The command line loads Ingresses and calls `FromIngresses`
(`convert`, `audit`, `dual-run`) or `FromIngress` per Ingress (`migrate`,
`validate`); both run `Translate` on each Ingress' annotations and build one route
for it. `Reconcile` calls `FromIngress` on the copy of the Ingress in its cache,
counts the findings into the status and, if the spec asks for it, calls
`CreateMigrationPR`; `migrate` calls the same function. A status write comes back
to every replica as a watch event.

What makes each correct, in the words of the properties below: the operator tells
the truth about pull requests and about the current spec, and always gets there;
publishing is atomic to reviewers; every annotation is accounted for exactly once
and families keep all their values; a request reaches the backend its Ingress
names; policies and secrets land on the route and the listener they were written for,
and no document destroys another; a dual run touches no live route.

## 2. Modules

| Module | Extends / instantiates | What it is |
|---|---|---|
| `ProposalBoard` | - | abstract: proposals appear in one step, complete, and are accepted for good |
| `GitOps` | implements `ProposalBoard` | `CreateMigrationPR`, call by call, with its callers and the repository |
| `GitOps_proofs` | `GitOps`, `TLAPS` | the proofs about it |
| `MigrationLedger` | - | abstract: what the author of a request may rely on: wishes, proposals, reports |
| `MigrationOperator` | extends `GitOps`, implements `MigrationLedger` | the replicas that call it, the API server, caches and queues |
| `MigrationOperator_proofs` | `MigrationOperator`, `GitOps_proofs` | the proofs about it |
| `AnnotationAdapters` | - | `Translate` over one annotation map |
| `AnnotationAdapters_proofs` | `AnnotationAdapters`, `TLAPS` | the proofs about it |
| `Policies` | - | policies and certificates of an Ingress, and what survives emission |
| `Policies_proofs` | extends `Policies`, the library's theorem modules, `TLAPS` | lemmas about filtered and concatenated sequences, and about the policies an Ingress gives |
| `Conformance` | extends `Policies` | features of routes and policies against the matrix of a provider |
| `Conversion` | extends `Conformance` | the pipeline over a list of Ingresses, and the Gateway API's matching rules |
| `Emission` | extends `Conversion` | the commands, dual run, the documents and the cluster |
| `Emission_proofs` | extends `Emission`, `Policies_proofs` | the proofs about the pipeline and the commands |
| `Routes_proofs` | extends `Emission_proofs` | the proofs about the rules of the routes: weights, regex mode, canaries |
| `Requests_proofs` | extends `Routes_proofs` | the proofs about requests: which rule answers, slash redirects, what `validate` has passed |
| `Documents_proofs` | extends `Requests_proofs` | the proofs about names: no document overwrites another |
| `MCGitOps`, `MCOperator`, `MCAdapters`, `MCConversion`, `MCEmission` | the module they name | values of the constants |

Operators marked `mutant` in a comment are the plausible bugs used to test the
properties: each property is violated when its mutant replaces the operator that
follows it. They are used nowhere else.

### GitOps

`call[c]` is the program counter of caller `c` in `CreateMigrationPR`: which of
`GetRef`, `CreateRef`, `CreateFile`, `Create` comes next (`github.go:20-50`) or
which of the two dry-run files (`pr.go:57-79`). `refs`, `forkedFrom`, `content`
and `pulls` are the repository as these calls see it: a branch, the file in the
commit it was created at, its head, and its pull request. A call may be refused,
may be lost before or after it took effect (`Unreliable`), a file write may fail
(`DisksFail`), and a caller may die at any point and call again. `Merge` and `ClosePull` are the maintainers.
One repository and one base branch stand for the configured ones; branches are
pairs of a name and a second, since the prefix is the same for every call;
maintainers do not delete branches or edit the base branch by hand.

### MigrationOperator

A replica is a caller with an informer cache, a queue and one worker
(controller-runtime's default). `Begin` takes a request from the queue and reads it
from the cache, `Convert` is `Reconcile` up to the report or to the call of
`CreateMigrationPR`, `Publish` the steps of that call, `Published` what follows it,
`UpdateStatus` (`WriteStatus`, with its answer or without) and `UpdateFails` the status
write of `Reconcile` or `fail`. Every
change of a request, the operator's own included, is delivered and queues it
(`SetupWithManager` has no predicate); a change of an Ingress is delivered and
queues nothing. A write at an old resourceVersion is refused. A crash loses cache,
queue, worker and container files, and nothing in GitHub or the API server.

Of the status, error texts are collapsed to `reason`, the audit summary is
identified with the manifest it counts, and of the conditions only the time of the
last failure is kept (`failedAt`). What `FromIngress` makes of an Ingress is one
value per version and provider; the CRD restricts providers to known ones, so the
branch for unknown ones is not reached. The order of headers in rendered YAML is
random in the code and irrelevant here.

`MigrationLedger` has none of this: a request has a wish (source, provider, publish or
not) or none; a proposal appears at once, only for what was once wished to be
published, and keeps its text; a report speaks of the wish of the moment it is made.
`ImplementsLedger` maps the spec beside a status to the wish, the pull requests to the
proposals and the status to the report. Every other step of a replica is a stutter.

### AnnotationAdapters

`todo` is the set of keys still to visit and `Key` the first of them in
`sort.Strings` order (`Position`); one step is one turn of `Translate`'s loop: an adapter's `Transform`, a key skipped because it is
claimed, a migration annotation nobody handles, or a foreign one. Values are
classes (truthy, falsy, number, white space, junk, covered snippet, ...), and `IsGiven` is
where an adapter takes a value for one: not empty, after trimming in the keys it trims
(`TrimmedKeys`); filters, policies and
findings are their kind or name and the annotations they carry. Findings are kept
by the annotation they name, since only their number and status per annotation are
told apart. Adapters only tell
Envoy Gateway from the rest, apart from the contents of a policy, so two providers
stand for five.

### Conversion

`stage` follows `pipeline.go`: `Analyze` (hosts in regex mode over all Ingresses),
`SplitCanaries`, `BuildRoute` per Ingress, `ApplyCanary` per canary, `FinalizeIR`,
`EmitYAML`; `FromIngress` enters at the route build. A path is a sequence of
tokens, so string prefix and path-element prefix are different things, as they are
in the code and in the Gateway API. `Answers(host, path)` is what the Gateway API
says about the emitted routes (`Beats`: host before none, exact before prefix, longer before
shorter, earlier before later), `DeclaredServices` what Ingress-NGINX would do.
A route is attached where a listener of its Gateway takes the host; listeners that
pass TLS through take no HTTPRoute. `Listeners`, `SecretOf` follow `buildListeners` and
the loop after it that puts TLS settings from annotations over every HTTPS listener.
Left out: the `www.` host name, the values of filters (no rule is chosen by them), a
second redirect filter of one Ingress, a `spec.defaultBackend` that is a resource (the
code gives it a rule without a backend),
paths that already are regular expressions, rules with no HTTP block, empty path for an
Exact or Prefix type (the API server refuses those).

### Policies and Conformance

An Ingress carries a set of annotation keys; `Adapter(key)` is the adapter that makes a
policy of a key, as a record: the suffix of the name, the kind, the resource for each
provider and the fields it fills. Eleven keys stand for the six adapters whose policies
are emitted for Envoy Gateway or need a feature; of the eight tuning keys there are three. `Sanitized` keeps the fields Envoy
Gateway's kinds have, `IsEmitted` says which policies are written. A name is a sequence
of words, so that a test for the suffix `-gateway` is a test of the last word and one for `staging` a test of each word.
`ValidateBundle` is what `validate` runs: its bundle is put together without
`RequiredFeatures` (`validate.go:36-50`), so `detectFeatures` scans it.

### Emission

A session is a list of commands. Each runs the pipeline of `Conversion` from its
Ingresses and flags; `dual-run` renames the bundle (`ApplyDualRunMode`), `validate` ends
with a verdict, the others emit `documents`, in the order of `EmitYAML`, which the
user applies: `cluster` maps kind, namespace and name to the last document applied.
`ApplyDualRunMode` as a command stands for a caller that leaves the staging name to it,
as its tests do; the command `dual-run` always names the Gateway or has none.

`EmissionAssumption` says what a command line can ask for: a list of Ingresses that is
not empty (`loader` fails on none), each with a name; one of the five providers
(`ParseProvider`); and the entry point its command has. `migrate` and `validate`, which
convert each Ingress by itself, have no flags for Gateways, regular expressions, slashes
and plain HTTP. An Ingress has a name, rules and
TLS blocks in sequences, and a number as its canary weight. `EmissionInv` says what there
is of a bundle at each stage, Ingress by Ingress, `RulesInv` and `OriginsInv` what its
rules still owe to the Ingresses, `NamesFit` which names are taken (section 5).

## 3. Runs

| Run | States | Bounds | Shows |
|---|---|---|---|
| `gitops` | 0.6 M | two callers, one name, two manifests, two seconds, every loss | branch ownership, complete pull requests, the file frozen by its first merge, dry-run files, refinement of `ProposalBoard` |
| `operator_replicas` | 1.0 M | two replicas, one request, creation and one edit or deletion, four revisions, two seconds, an Ingress that appears | what a status says is true and never goes back; refinement of `MigrationLedger` |
| `operator_faults` | 0.9 M | one replica, lost calls, a crash, resync, merges, an Ingress that is edited or replaced | nothing is published that nobody asked for; the inductive invariants of the operator's proofs, `OperatorInv` and `ForwardInv` |
| `operator_liveness` | 34 k | one replica without token, three specs, a crash, lost status writes and answers, an Ingress that comes, goes and comes back, fair | every edit is reported on, a missing Ingress recovers, converted requests come to rest |
| `operator_one_pull` | violated | one replica, no fault | finding 1 |
| `adapters` | 277 k | all maps of two annotations, all of four within a group, white space among the values of the families that trim | what claims lose, repeat or overwrite; the inductive invariant `AdapterInv`, with its types |
| `adapters_unreported` | violated | the same | finding 2 |
| `conversion` | 0.3 M | 39 k sessions: `convert` and `migrate` of one to four Ingresses, two hosts, five paths, four sets of options; every one or two of eighteen annotations for five providers; `convert` and `dual-run` in either order for names that look like derived ones; `validate`, `convert`, `migrate` in a row | backends, regex hosts, weights, canary hosts, slash redirects, the shared Gateway; policies, secrets, overwritten objects; what one command does to another's objects; the inductive invariants `EmissionInv`, with its types, and `BundleInv` (`RulesInv`, `OriginsInv`, `NamesFit`) |
| `dual_run_live` | violated | the dual-run sessions | finding 6 |
| `conversion_hosts`, `conversion_redirect_loop`, `conversion_header_canary` | violated | parts of the same inputs | findings 3 to 5 |

Why these bounds are enough. Two callers in two seconds give both cases of branch
names, equal and different; a third caller meets the same guards. Two replicas are
all a rolling update of one replica makes, and the only shared objects are one
request and one repository. `MaxRevision` stops status writes only, so that
`AtMostOnePull`'s loop does not make every run infinite; in the liveness run no
behaviour reaches it (7 is the highest revision), so no progress is cut off.
`MaxVersion` bounds creations and edits of an Ingress, the last of which stays. `Reviewed` bounds the branches maintainers act on: none in `operator_replicas`,
those of the first second in `operator_faults`, all in `gitops`. Adapters share
nothing across families but the filter list, the TLS record and the claims; every
pair of kinds and every family in full is covered. Conversion's interactions are
between two paths, two Ingresses, or an Ingress and its canaries, and the inputs are
built around these. Policies of two annotations interact through one name or one
family, so pairs suffice; commands interact through the cluster, which keeps only the
last document of an object, so two in a row suffice to destroy something and three to
check what was validated. `CHECK_DEADLOCK FALSE` stands where the program ends (`Translate`,
the pipeline) or a bound stops it (the operator). Symmetry is used in safety runs only.

Fairness (`operator_liveness`): a dead replica is restarted (the Deployment),
informers deliver, the worker's steps go on, and a queued request is eventually
taken (strong fairness of `Begin`: the queue is FIFO, and a worker serves many
requests). Status writes and their answers get lost, those of `fail` too, whose result
it ignores. A write that is lost for ever defeats any retry, so an answered write is
strongly fair (`WriteStatus(o, FALSE)`): of the writes that are tried over and over,
each after its requeue, the API server answers one. Without that, losing them all
violates `SpecIsReported`. Users and maintainers owe nothing. The run has no token
because with one the request never rests (finding 1), and no failing disk (`DisksFail`):
a dry run whose disk fails now and then alternates between two statuses without end.

### The properties, by what they are about

- `OneCallPerBranch`, `OpenedPullHoldsManifest`, `PublicationIsAtomic`: names repeat
  within a second and calls fail half-way, yet a returned URL is a pull request with
  the caller's own manifest, and reviewers never see a part of one.
- `NoPullOnceMerged`, `FirstMergeIsFinal`: what `CreateFile` without a blob SHA
  implies. Stated as the code has it: a merged manifest is never replaced, hence a
  changed Ingress cannot be published again.
- `ReportedPullHoldsAudit`, `StatusSpeaksForSpec`, `ReportedPullMovesForward`,
  `PullsOnlyWhenAsked`: status, spec and repository agree across replicas, edits and
  stale caches.
- `ImplementsLedger`: the same at once, as an abstract specification: two replicas with
  lagging caches are no worse than one atomic secretary.
- `SpecIsReported`, `MissingIngressRecovers`, `ConvertedRequestsComeToRest`: liveness.
- `FamilyIsReported`, `ReportedAtMostOnce`, `FamiliesMergeOnce`, `OneSSLRedirect`,
  `MergedFamiliesCarryEveryValue`, `UntranslatableLeavesNothing`,
  `PassthroughReachesListener`: claims and order of adapters.
- `RequestsKeepTheirBackend`, `RegexHostsAreHonoured`, `WeightsAddUp`,
  `CanariesStayOnTheirHost`, `SlashRedirectsFire`, `RoutesHaveAGateway`: what the
  emitted routes do, against what the Ingresses say. Their premises name the cases
  the findings show to be different.
- `PoliciesAttach`, `NoDocumentIsOverwritten`, `NoForeignCertificate`: policies follow
  their route through renaming, one apply loses none of its own objects, a listener for
  a host never presents the certificate of another.
- `ValidatedFeaturesAreSupported`, `MigrateAppliesTheSame`, `DualRunLeavesLiveRoutes`:
  two commands over the same Ingresses, which go through different entry points and
  name objects differently, agree or keep apart.

What their premises leave out is what the code gets wrong or does not promise. With
both annotations of one adapter (`whitelist-source-range` and `denylist-source-range`,
two of the rate limits, both issuers) two policies or certificates of one name are
emitted and the second replaces the first. Two Ingresses of one namespace and name in
one file give two routes of that name. An Ingress `x-gateway` loses its policies
to the staging Gateway in a dual run, `web-shadow` has the name of `web`'s shadow, and
the Gateway of an Ingress `web-staging` that of `web`'s dual run. With an issuer every
HTTPS listener gets the secret of the first TLS block, or none when there is no block:
the secret `<ingress>-tls` that the Certificate fills is referenced by no listener.
Canaries for two hosts join one primary, so that one host's canary is put on the other's
route; `CanariesStayOnTheirHost` is about canaries of one host. `RoutesHaveAGateway` is
about the three ways to a Gateway's name, and not about routes of other namespaces or
hosts that only later Ingresses have. `WeightsAddUp` leaves out weights above 100 and
paths with two canaries. That no pull request is left without a status that names it is
no property: `AtMostOnePull` fails before any conflict or crash.
`validate` sees neither flags nor the other Ingresses of a host; `migrate` gives every
Ingress a Gateway of its own and a canary a route of its own; two lists converted one
after the other share the name `shared-gateway`, and the second replaces the first.

## 4. Findings

1. One `MigrationRequest` opens pull requests without end: `Reconcile` does not look
   at `Status.PRURL`, and its own status write triggers it (`AtMostOnePull`).
2. Annotations that are claimed by an adapter of their family which reports under
   another key get no finding, although the README says none is omitted
   (`EveryAnnotationIsReported`).
3. The hosts of one Ingress become the hosts of all its rules
   (`HostsKeepTheirBackends`).
4. The redirect to HTTPS is attached to the HTTPS listeners (`NoRedirectLoop`).
5. A header canary is emitted without its header (`HeaderCanaryNeedsHeader`): canary and
   primary have the same host and path, and requests without the header reach the canary.
6. A dual run renames Gateways and routes but neither policies nor certificates:
   applied beside the converted objects it turns the live route's policies to the
   shadow route (`DualRunLeavesLiveObjects`).

## 5. Proofs

`GitOps_proofs` proves, for any callers, names, manifests and clock bound, with or
without losses, the following of `GitSpec`:

| Theorem | Says |
|---|---|
| `GitTypeCorrect` | `[]GitTypeOK` |
| `CallsOwnTheirBranches` | `[]OneCallPerBranch` |
| `OpenedPullsHoldManifests` | `[]OpenedPullHoldsManifest` |
| `MergedNamesStayMerged` | `[]NoPullOnceMerged` |
| `FirstMergesAreFinal` | `FirstMergeIsFinal` |
| `PublicationRefinesBoard` | `GitSpec => Board!BoardSpec` |
| `DryRunsLeaveBothFiles` | `[]DryRunLeavesBothFiles` |

Assumption: `GitOpsAssumption` (token holders are callers, `None` is neither a
manifest nor a branch, the clock bound is a number). TLC evaluates it in every run
of `GitOps` and `MigrationOperator`.

The argument. `OneCallPerBranch` is not inductive: nothing in it says that the
branch a call works on exists, so `CreateRef` could hand it to another call.
`GitInv` adds what each program counter knows of the branch: it is in `refs` from
`create_file` on; before the commit it holds what the base held when it was read;
before the pull request it holds the caller's manifest and started from a base
without the file; and a branch with a pull request holds a file and started from
none. Each action changes one call and one branch, and `OneCallPerBranch` lets the
proof leave all other calls alone. `FirstMergeIsFinal` follows: a merge needs the
base to hold what the branch started from, which is nothing, or what it holds
already. The refinement maps a branch to its pull request and hides the calls before
the last one; every step but that one, the merges and the endings is a stutter.

`DryRunsLeaveBothFiles` has an invariant of its own (`FilesOf`: what is on disk at each
point of a call that has no token), which needs only `GitTypeOK`.

### The operator

`MigrationOperator_proofs` proves, for any replicas, requests, specs, Ingresses,
names and bounds, with or without lost calls and crashes, of the operator's `Spec`:

| Theorem | Says |
|---|---|
| `OperatorTypeCorrect` | `[]TypeOK` |
| `OperatorInvariant` | `[]OperatorInv` |
| `ReportedPullsHoldAudits` | `[]ReportedPullHoldsAudit` |
| `PullsAreAskedFor` | `[]PullsOnlyWhenAsked` |
| `StatusesSpeakForSpecs` | `StatusSpeaksForSpec` |
| `PullsStayInThePast` | `[]ForwardInv`, if all replicas have a token or none has |
| `ReportedPullsMoveForward` | `ReportedPullMovesForward`, if all replicas have a token or none has |
| `OperatorPublishesAtomically` | `PublicationIsAtomic` |
| `OperatorRefinesLedger` | `ImplementsLedger` |

Assumptions: `GitOpsAssumption`, and `OperatorAssumption`: users' specs are well formed,
what they render is a manifest, and their provider is known, which the CRD's enum
enforces (`config/crd/migrationrequest.yaml:44`). TLC evaluates both in every run of the
operator. `PullsStayInThePast` and `ReportedPullsMoveForward` have one more hypothesis,
`TokenHolders \in {{}, Operators}`: replicas of one Deployment get `GITHUB_TOKEN` from
one pod template. It is needed: with a token on one of two replicas TLC finds the other
replacing the reported pull request by a dry-run path (`Replicas.cfg` with
`TokenHolders <- OneReplica`), as may happen while a Deployment that gains or loses its
token rolls out.

The argument. None of the properties is inductive: a status is written from a worker's
copy, a worker's copy comes from a cache, and a cache from an older state of the API
server. `OperatorInv` says of each of them what it owes the next: a stored or cached
object asked for what `asked` remembers, its status tells the truth, and at an equal
resourceVersion a cached object *is* the stored one (`IsCopy`); a `Reconcile` in
progress carries in its status the manifest of its call, a reason its spec gives, and,
if its resourceVersion is still current, the spec and the URL that are stored
(`IsWork`). A write succeeds only at the current resourceVersion, so the conditional
parts turn into facts exactly when they are needed. What is true of a pull request stays
true because `GitOps` never changes the text of one (`PullsKeepTheirText`), which is why
a status may outlive the reconcile that wrote it. `GitInv` is kept by the operator's
steps, for each of them is a step of `GitOps` or leaves its variables alone, and so the
refinement of `ProposalBoard` carries over. The refinement of the ledger needs no more:
under `OperatorInv` each accepted status write is a report on the wish beside it, each
opened pull request a proposal that was wanted, and all else a stutter.

`ForwardInv` orders URLs in time: no status, copy or call is ahead of the clock, and a
worker about to write at a current resourceVersion holds a branch no older than the one
stored. It needs `OperatorInv` and the hypothesis on tokens.

### The adapters

`AnnotationAdapters_proofs` proves, for any set of annotation maps over the modelled
keys and value classes, whatever their size, and any of the five providers:

| Theorem | Says |
|---|---|
| `AdapterInvariant` | `[]AdapterInv` |
| `AdapterTypes` | `[]AdapterTypeOK` |
| `FamiliesAreReported` | `[]FamilyIsReported` |
| `AnnotationsAreReportedOnce` | `[]ReportedAtMostOnce` |
| `MergedFamiliesMakeOneObject` | `[]FamiliesMergeOnce` |
| `RedirectsAreNotRepeated` | `[]OneSSLRedirect` |
| `NoValueOfAFamilyIsLost` | `[]MergedFamiliesCarryEveryValue` |
| `NothingOfTheUntranslatable` | `[]UntranslatableLeavesNothing` |
| `ListenersPassThrough` | `[]PassthroughReachesListener` |

`NoValueOfAFamilyIsLost` is about all five merged families, for the providers with
fields of GateShift's own: the policy carries every value that is not empty, and in the
keys the code trims (`level2_policies.go:91-98`, the two of basic auth) not white space
either. Envoy Gateway's kinds have no field for some of them.

TLC takes two annotations at a time, or four of a group; the theorems hold for an
Ingress with all of them. The assumption, `AdapterAssumption`, is about data: maps go
from keys to values, families are disjoint, every key has its place in the order.

The argument. An adapter that works once for its family is only right if its siblings
are still free when it runs and taken when it has run. `AdapterInv` says so: the five
families whose adapters claim all their siblings are claimed whole or not at all, a
mirror's target never before the mirror (`ClaimsAreWhole`), what a filter or a policy
carries is claimed (`LeftBehindIsClaimed`), and what is claimed is reported by its family
and carried by its policy (`ClaimedAreReported`, `ClaimedAreCarried`). Every adapter is
then shown to be a `Turn` of its family: what it adds, claims and reports, with nothing
outside its family, and one lemma (`TurnKeepsInv`) shows that a turn keeps the
invariant. On the way: `Translate` always has a next key (`KeyIsNext`, by well-founded
induction on positions), and the test of `AffinityAdapter` and its like for a sibling
that is already claimed (`level2_policies.go:74-84`) never succeeds, because `Translate`
skips claimed keys itself (`NoSiblingIsClaimed`).

### The pipeline and the commands

`Emission_proofs` proves, for any sequences of commands over any lists of Ingresses, with
any rules, TLS blocks and annotations, of `EmissionSpec`:

| Theorem | Says |
|---|---|
| `EmissionInvariant` | `[]EmissionInv` |
| `RoutesFindGateway` | `[]RoutesHaveAGateway` |
| `NoListenerHasForeignCertificate` | `[]NoForeignCertificate` |
| `PoliciesFindRoute` | `[]PoliciesAttach` |
| `LiveRoutesStay` | `DualRunLeavesLiveRoutes` |

and `Routes_proofs` of the same specification:

| Theorem | Says |
|---|---|
| `RulesInvariant` | `[]RulesInv` |
| `WeightsAreShares` | `[]WeightsAddUp` |
| `RegexHostsAreReported` | `[]RegexHostsAreHonoured` |
| `CanariesKeepToTheirHost` | `[]CanariesStayOnTheirHost` |

`Requests_proofs`:

| Theorem | Says |
|---|---|
| `OriginsInvariant` | `[]OriginsInv` |
| `RequestsReachTheirBackend` | `[]RequestsKeepTheirBackend` |
| `SlashRedirectsAlwaysFire` | `[]SlashRedirectsFire` |
| `ValidationHolds` | `[]ValidatedFeaturesAreSupported` |

and `Documents_proofs`:

| Theorem | Says |
|---|---|
| `NamesInvariant` | `[]NamesFit` |
| `BundleInvariant` | `[]BundleInv` |
| `NoDocumentOverwritesAnother` | `[]NoDocumentIsOverwritten` |

The assumptions are `EmissionAssumption` (section 2), `NoneAssumption` (the value that
stands for a missing weight is no number) and `RequestsAssumption` (a request's path is a
sequence). TLC evaluates them in `conversion`.

The argument. The properties of `Emission_proofs` relate objects that are built by different loops, in
different turns, from an Ingress that none of them keeps; a dual run then renames some of
them by the form of their names. `EmissionInv` ties all of them to the Ingresses that
were built (`built`), in three layers. `CommandFits`: the running command, its options
and what of its output exists. `PipelineFits`: what each stage has and has not made.
`BundleFits`: the i-th route is that of the i-th Ingress, with its name, hosts and parent
before or after the dual run, whatever canaries made of its rules (`RoutesFit`); the
Gateways are those of the first Ingress or of each (`GatewaysFit`); every policy and
certificate is one that some built Ingress gives (`PoliciesFit`). A canary's turn changes
rules only, so the layers are kept apart. The properties then read off the names:
`PoliciesFindRoute` needs that the policy's Ingress is built and its route is at the same
index, `LiveRoutesStay` that each name a dual run gives has the word `shadow` or
`staging`, and a document's key its bundle's name.

`RulesInv` adds what canaries and regex mode do to the rules, in parts that each need the
stage before. `QuirksFit`: the hosts in regex mode and the findings about them are those
of *all* Ingresses, and reach the bundle at the end. `RegexesFit`: a path on such a host
that is neither Exact nor Prefix has its regular expression, which merging a canary
neither drops nor retypes (`CanaryKeepsRegexes`), so `RegexHostsAreReported` has a rule
for these paths and a finding for the others. `WeightsFit`: a rule has one backend and no
weight, or two weights that share a hundred, or more; that a canary adds to the second and
never again sets the first is `WeightedStaysWeighted`. It has the premise of
`WeightsAddUp`, since a weight above 100 or a header canary breaks it. `PrimaryFits`:
where an Ingress shares a host with the first canary, one such Ingress is all that is
built. `CanariesKeepToTheirHost` then counts: the primary has one host name
(`SingleHost`) and shares one with the canaries, so no other host has a rule to be ranked
at all (`OnlyRoute`), and the ranking of the Gateway API need not be looked into.

`OriginsInv` says where each rule comes from. `OriginsFit`: a rule of the i-th route is that
of a path of the i-th Ingress (`IsOfPath`), its slash redirect (`IsSlashOf`), or one that
takes every path below its own (`IsWhole`: a redirect, a default backend, a header
canary); and each path has its rule and, where one is due, its redirect. Merging a canary
keeps it, since type, path and the first backend of a rule stay (`CanaryKeepsOrigins`). A
request is then a matter of order: `Beats` compares host, type, length and place, a set of
candidates that is not empty has one that none beats (`SomeRuleAnswers`, by the longest
path and then the first place), and what beats all rules is the path that Ingress-NGINX
takes among the declared ones (`BackendsAnswer`). For `SlashRedirectsFire`: an exact rule
for `/x` beats all but another exact one for `/x`, and by `HasOrigin` that is a redirect
as well, or a declared path, which the premise rules out. `ChecksFit` carries a verdict
from one command to a later one: what an Ingress *needs* is read off its annotations and
paths (`Needs`), `validate` passes a list only if the provider has it (`PassedNeeds`), and
every feature that the later documents show is needed by one of its Ingresses.

`NamesFit` says that policies and certificates have names of their own while the Ingresses
have (`HaveOwnNames`). It is inductive because a policy of the bundle is called after an
Ingress that is built, and the suffixes of two adapters differ in their last word
(`SuffixesDiffer`): two equal names are of one Ingress and one adapter (`PolicyNames`),
and one adapter makes one policy of an Ingress (`OneKeyOfAnAdapter`: of a family that
merges, all but the first key are claimed). A dual run keeps these names and appends to
those of the routes, which is injective where no Ingress is called after a shadow. Then
`NoDocumentIsOverwritten` goes kind by kind: at most one Gateway for a list, or one named
after each Ingress; one route per Ingress; and filtering policies repeats none
(`DistinctKept`).

The sequences are filtered and concatenated (`Kept`, `FlattenSeq`), and the library
defines the concatenation by recursion on its argument. That this recursion has a value
is proved by a least counterexample (`LeastNumber`, from the well-foundedness of `<` on
`Nat`), since a theorem with an operator parameter cannot be used here.

### Only model-checked

- Liveness, which is outside what TLAPS handles.
- `MigrateAppliesTheSame`: that the cluster holds a route of the Ingress' name says nothing
  of the command and the flags that put it there, and two commands of a session may have
  different Ingresses of one name. In the sessions of `conversion` the earlier command has
  the same list and no flags. A theorem would need a variable that remembers, for each
  object, the Ingress and the options it was made of; the code keeps no such thing.
- `AtMostOnePull` and the other statements of section 4, which are false.

## 6. Not modelled

Snippet patterns are regular expressions over free text, the reports and the printing
commands format what is computed elsewhere, loading is I/O, the chart is templates whose
decisions (replicas, token) are constants here. Of modelled parts: readiness scores and
severities (no command decides by them but `validate`, by untranslatable findings, which
it has), the nested sanitizers (no adapter of the table gives them a field they drop),
policies made of access logs, custom errors, mirrors and snippets, `RequestMirror` (the
matrix has no feature for it), the `www.` host, annotations written by a dual run.

## 7. Plan

Done: all modules of section 2, and proofs of every invariant the passing runs check and of
every action property but `MigrateAppliesTheSame`. Left, in this order:

1. Readiness scores and the `www.` host.
2. `MigrateAppliesTheSame` over all sessions, with a history variable for what each object
   in the cluster was made of.
3. The three hazards that no property covers: edits of an Ingress that queue nothing,
   dry-run directories without a namespace, Ingresses that a canary pushes out.
