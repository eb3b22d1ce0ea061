-------------------------- MODULE MigrationOperator --------------------------
(***************************************************************************)
(* gateshift-operator: MigrationRequestReconciler.Reconcile, run by every  *)
(* live replica against the API server.  A replica (a caller of GitOps)    *)
(* has an informer cache, a work queue and one worker; the manager is      *)
(* started without leader election, so replicas work at the same time.     *)
(*                                                                         *)
(* The API server, the informers and the work queue are external, modelled *)
(* as controller-runtime gives them to the reconciler: reads come from a   *)
(* cache that lags, a status write carries the resourceVersion it was read *)
(* at, every change of a MigrationRequest queues it (SetupWithManager sets *)
(* no predicate), a change of an Ingress queues nothing, and an error      *)
(* returned by Reconcile queues the request again.                         *)
(***************************************************************************)
EXTENDS GitOps

CONSTANTS
  Requests,        \* MigrationRequests: records with ns and name
  Ingresses,       \* Ingress keys: records with ns and name
  UserSpecs,       \* the MigrationRequest specs users apply
  PeriodicResync,  \* do the informers resync (every ten hours by default)
  MaxGeneration,   \* bound: creations, spec edits and deletions of a request
  MaxRevision,     \* bound: status writes stop at this resourceVersion
  MaxVersion,      \* bound: creations and edits of an Ingress; the last version stays
  MaxCrashes       \* bound: replica crashes

Operators == Callers

VARIABLES
  mreq,      \* mreq[r]: the MigrationRequest in the API server
  ingress,   \* ingress[k]: the Ingress in the API server
  cache,     \* cache[o][r]: o's informer copy of mreq[r]
  ingCache,  \* ingCache[o][k]: o's informer copy of ingress[k]
  queue,     \* queue[o]: the requests in o's work queue
  worker,    \* worker[o]: o's Reconcile in progress
  crashes,   \* replica crashes so far
  asked      \* history: what specs with automatic pull requests have asked for

apiVars     == <<mreq, ingress, asked>>
replicaVars == <<cache, ingCache, queue, worker, crashes>>
vars        == <<gitVars, apiVars, replicaVars>>

-----------------------------------------------------------------------------
(* The objects.  A spec is a record: name and ns are sourceIngressRef's (ns *)
(* is "" when unset), gitops is "absent", or present with autoCreatePR off  *)
(* ("manual") or on ("auto"), repo is gitops.githubRepo.                    *)

\* The namespace defaults to the request's own.
SourceKey(r, s) == [ns |-> IF s.ns = "" THEN r.ns ELSE s.ns, name |-> s.name]

NormalizeProvider(p) ==
  CASE p = "EnvoyGateway" -> "envoy-gateway"
    [] p = "Cilium"       -> "cilium"
    [] p = "Istio"        -> "istio"
    [] p = "Kong"         -> "kong"
    [] p = "Standard"     -> "standard"
    [] OTHER              -> p

KnownProviders == {"standard", "envoy-gateway", "cilium", "istio", "kong"}

\* What convert.FromIngress and EmitYAML make of one version of an Ingress; the
\* audit summary of a status is identified with the manifest it counts.
Render(s, k, version) ==
  [source |-> k, version |-> version, provider |-> NormalizeProvider(s.provider)]

Phases  == {"", "Converted", "PRCreated", "PRDryRun", "Error"}
Reasons == {"none", "source Ingress", "provider", "gitops"}

\* Status.PRURL of a dry run names the directory, that is the Ingress.
DryRunURL(n) == <<n>>
URL == Branch \cup {DryRunURL(n) : n \in Names} \cup {None}

\* failedAt is the LastTransitionTime of the Ready=False condition.
Status    == [phase : Phases, url : URL, audit : File, reason : Reasons,
              failedAt : (0..MaxSeconds) \cup {None}]
NoStatus  == [phase |-> "", url |-> None, audit |-> None, reason |-> "none", failedAt |-> None]
Object    == [exists : BOOLEAN, gen : Nat, rv : Nat, spec : UserSpecs \cup {None},
              status : Status]
NoObject  == [exists |-> FALSE, gen |-> 0, rv |-> 0, spec |-> None, status |-> NoStatus]
NoIngress == [exists |-> FALSE, version |-> 0]

WorkerPC   == {"down", "idle", "convert", "publish", "update", "fail"}
NoWork(pc) == [pc |-> pc, req |-> None, obj |-> NoObject]

\* What a spec asks to have published, if it asks at all, and a manifest that is it.
Asking(r, s) == [source |-> SourceKey(r, s), provider |-> NormalizeProvider(s.provider)]
Renders(m, r, s) == m.source = SourceKey(r, s) /\ m.provider = NormalizeProvider(s.provider)

\* The CRD's enum admits known providers only.
ASSUME OperatorAssumption ==
  /\ None \notin UserSpecs \cup Requests
  /\ None \notin [source : Ingresses, provider : KnownProviders, publish : BOOLEAN]
  /\ \A r \in Requests, s \in UserSpecs :
       /\ NormalizeProvider(s.provider) \in KnownProviders
       /\ SourceKey(r, s) \in Ingresses
       /\ SourceKey(r, s).name \in Names
       /\ \A v \in 1..MaxVersion : Render(s, SourceKey(r, s), v) \in Manifests
       /\ s.repo \in RepoRefs
  /\ {PeriodicResync} \subseteq BOOLEAN
  /\ {MaxGeneration, MaxRevision, MaxVersion, MaxCrashes} \subseteq Nat

Init ==
  /\ GitInit
  /\ mreq = [r \in Requests |-> NoObject]
  /\ ingress = [k \in Ingresses |-> NoIngress]
  /\ cache = [o \in Operators |-> [r \in Requests |-> NoObject]]
  /\ ingCache = [o \in Operators |-> [k \in Ingresses |-> NoIngress]]
  /\ queue = [o \in Operators |-> {}]
  /\ worker = [o \in Operators |-> NoWork("down")]
  /\ crashes = 0
  /\ asked = {}

-----------------------------------------------------------------------------
(* Users: kubectl apply and delete of requests and of Ingresses. *)

AsksForPull(s) == ~s.dryRun /\ s.gitops = "auto"

Apply(r, s) ==
  /\ mreq[r].gen < MaxGeneration
  /\ mreq[r].spec # s
  /\ mreq' = [mreq EXCEPT ![r] = [exists |-> TRUE, gen |-> @.gen + 1, rv |-> @.rv + 1,
                                  spec |-> s, status |-> @.status]]
  /\ asked' = IF AsksForPull(s) THEN asked \cup {Asking(r, s)} ELSE asked
  /\ UNCHANGED <<gitVars, replicaVars, ingress>>

Delete(r) ==
  /\ mreq[r].exists
  /\ mreq[r].gen < MaxGeneration
  /\ mreq' = [mreq EXCEPT ![r] = [exists |-> FALSE, gen |-> @.gen + 1, rv |-> @.rv + 1,
                                  spec |-> None, status |-> NoStatus]]
  /\ UNCHANGED <<gitVars, replicaVars, ingress, asked>>

ApplyIngress(k) ==
  /\ ingress[k].version < MaxVersion
  /\ ingress' = [ingress EXCEPT ![k] = [exists |-> TRUE, version |-> @.version + 1]]
  /\ UNCHANGED <<gitVars, replicaVars, mreq, asked>>

DeleteIngress(k) ==
  /\ ingress[k].exists
  /\ ingress[k].version < MaxVersion
  /\ ingress' = [ingress EXCEPT ![k].exists = FALSE]
  /\ UNCHANGED <<gitVars, replicaVars, mreq, asked>>

User ==
  \/ \E r \in Requests : Delete(r) \/ \E s \in UserSpecs : Apply(r, s)
  \/ \E k \in Ingresses : ApplyIngress(k) \/ DeleteIngress(k)

-----------------------------------------------------------------------------
(* Informers and work queue. *)

Live(o) == worker[o].pc # "down"

\* The initial list queues every request there is.
QueueAfterStartEmpty(o) == {}  \* mutant: only later events queue
QueueAfterStart(o) == {r \in Requests : mreq[r].exists}

\* manager.Start: the caches are filled before the worker runs.
Start(o) ==
  /\ ~Live(o)
  /\ cache' = [cache EXCEPT ![o] = mreq]
  /\ ingCache' = [ingCache EXCEPT ![o] = ingress]
  /\ queue' = [queue EXCEPT ![o] = QueueAfterStart(o)]
  /\ worker' = [worker EXCEPT ![o] = NoWork("idle")]
  /\ UNCHANGED <<gitVars, apiVars, crashes>>

\* A watch event, the reconciler's own status write included, queues the request.
Deliver(o, r) ==
  /\ Live(o)
  /\ cache[o][r] # mreq[r]
  /\ cache' = [cache EXCEPT ![o][r] = mreq[r]]
  /\ queue' = [queue EXCEPT ![o] = @ \cup {r}]
  /\ UNCHANGED <<gitVars, apiVars, ingCache, worker, crashes>>

DeliverIngress(o, k) ==
  /\ Live(o)
  /\ ingCache[o][k] # ingress[k]
  /\ ingCache' = [ingCache EXCEPT ![o][k] = ingress[k]]
  /\ UNCHANGED <<gitVars, apiVars, cache, queue, worker, crashes>>

Resync(o, r) ==
  /\ PeriodicResync
  /\ Live(o)
  /\ cache[o][r].exists
  /\ queue' = [queue EXCEPT ![o] = @ \cup {r}]
  /\ UNCHANGED <<gitVars, apiVars, cache, ingCache, worker, crashes>>

\* The process dies: cache, queue, the Reconcile in progress and the container's
\* files are lost; what it did to GitHub and to the API server stays.
ReplicaCrash(o) ==
  /\ Live(o)
  /\ crashes < MaxCrashes
  /\ crashes' = crashes + 1
  /\ queue' = [queue EXCEPT ![o] = {}]
  /\ worker' = [worker EXCEPT ![o] = NoWork("down")]
  /\ call' = [call EXCEPT ![o] = NoCall]
  /\ artifacts' = [artifacts EXCEPT ![o] = [n \in Names |-> [yaml |-> None, body |-> None]]]
  /\ UNCHANGED <<clock, repoVars, apiVars, cache, ingCache>>

-----------------------------------------------------------------------------
(* Reconcile *)

\* The worker takes a request and gets it from the cache; NotFound is no error.
Begin(o, r) ==
  /\ worker[o].pc = "idle"
  /\ r \in queue[o]
  /\ queue' = [queue EXCEPT ![o] = @ \ {r}]
  /\ worker' = IF cache[o][r].exists
               THEN [worker EXCEPT ![o] = [pc |-> "convert", req |-> r, obj |-> cache[o][r]]]
               ELSE worker
  /\ UNCHANGED <<gitVars, apiVars, cache, ingCache, crashes>>

\* Reconcile's next step, with the status it has set so far on its copy.
Continue(o, pc, status) ==
  worker' = [worker EXCEPT ![o] = [pc |-> pc, req |-> @.req, obj |-> [@.obj EXCEPT !.status = status]]]

\* fail stamps the condition with the time; nothing ever removes it.
Fail(o, status, reason) ==
  Continue(o, "fail", [status EXCEPT !.phase = "Error", !.reason = reason, !.failedAt = clock])

FailReason(s, ing) ==
  IF ~ing.exists THEN "source Ingress"
  ELSE IF NormalizeProvider(s.provider) \notin KnownProviders THEN "provider"
  ELSE "none"

\* dryRun, no gitops section or autoCreatePR off: convert only.
StopsAtConvertDespiteDryRun(s) == s.gitops # "auto"  \* mutant: dryRun is ignored
StopsAtConvert(s) == s.dryRun \/ s.gitops # "auto"

\* Gets the Ingress, converts it, and either reports or calls CreateMigrationPR.
Convert(o) ==
  LET obj    == worker[o].obj
      s      == obj.spec
      k      == SourceKey(worker[o].req, s)
      ing    == ingCache[o][k]
      reason == FailReason(s, ing)
      m      == Render(s, k, ing.version)
      st     == [obj.status EXCEPT !.audit = m]
  IN  /\ worker[o].pc = "convert"
      /\ \/ /\ reason # "none"
            /\ Fail(o, obj.status, reason)
            /\ UNCHANGED gitVars
         \/ /\ reason = "none"
            /\ StopsAtConvert(s)
            /\ Continue(o, "update", [st EXCEPT !.phase = "Converted", !.reason = "none"])
            /\ UNCHANGED gitVars
         \/ /\ reason = "none"
            /\ ~StopsAtConvert(s)
            /\ Call(o, k.name, m, FALSE, s.repo)
            /\ Continue(o, "publish", st)
      /\ UNCHANGED <<apiVars, cache, ingCache, queue, crashes>>

\* CreateMigrationPR makes a step.
Publish(o) ==
  /\ worker[o].pc = "publish"
  /\ Publishing(o)
  /\ UNCHANGED <<apiVars, replicaVars>>

\* CreateMigrationPR has returned.
Published(o) ==
  LET st == worker[o].obj.status
      pc == call[o].pc
  IN  /\ worker[o].pc = "publish"
      /\ \/ /\ pc = "opened"
            /\ Continue(o, "update", [st EXCEPT !.phase = "PRCreated", !.reason = "none",
                                                !.url = call[o].branch])
         \/ /\ pc = "dry_run"
            /\ Continue(o, "update", [st EXCEPT !.phase = "PRDryRun", !.reason = "none",
                                                !.url = DryRunURL(NameOf(o))])
         \/ /\ pc = "failed"
            /\ Fail(o, st, "gitops")
      /\ Return(o)
      /\ UNCHANGED <<apiVars, cache, ingCache, queue, crashes>>

\* The write is refused when the object is no longer the one that was read.
IsCurrentAlways(o) == mreq[worker[o].req].exists  \* mutant: a patch without resourceVersion
IsCurrent(o) ==
  LET now == mreq[worker[o].req]
  IN  now.exists /\ now.rv = worker[o].obj.rv

\* An update that changes nothing leaves the resourceVersion, and no event follows.
WrittenAlwaysAnew(now, status) ==  \* mutant: the status carries a timestamp
  [now EXCEPT !.status = status, !.rv = @ + 1]
Written(now, status) ==
  IF now.status = status THEN now ELSE [now EXCEPT !.status = status, !.rv = @ + 1]

RequeuedUnlessFailed(o, error) == error  \* mutant: fail swallows the error
\* fail returns the error it reports, whatever becomes of its status write.
Requeued(o, error) == error \/ worker[o].pc = "fail"

Done(o, error) ==
  /\ worker' = [worker EXCEPT ![o] = NoWork("idle")]
  /\ queue' = IF Requeued(o, error)
              THEN [queue EXCEPT ![o] = @ \cup {worker[o].req}] ELSE queue

\* Status().Update, answered or, with an error, not.
WriteStatus(o, error) ==
  LET r == worker[o].req
  IN  /\ worker[o].pc \in {"update", "fail"}
      /\ IsCurrent(o)
      /\ mreq[r].rv < MaxRevision
      /\ mreq' = [mreq EXCEPT ![r] = Written(@, worker[o].obj.status)]
      /\ Done(o, error)
      /\ UNCHANGED <<gitVars, ingress, asked, cache, ingCache, crashes>>
UpdateStatus(o) == \E error \in {FALSE, Unreliable} : WriteStatus(o, error)

\* Status().Update refused (conflict, not found) or lost on its way.
UpdateFails(o) ==
  /\ worker[o].pc \in {"update", "fail"}
  /\ ~IsCurrent(o) \/ Unreliable
  /\ Done(o, TRUE)
  /\ UNCHANGED <<gitVars, apiVars, cache, ingCache, crashes>>

Reconcile(o) ==
  \/ \E r \in Requests : Begin(o, r)
  \/ Convert(o) \/ Publish(o) \/ Published(o)
  \/ UpdateStatus(o) \/ UpdateFails(o)

Replica(o) ==
  \/ Start(o) \/ ReplicaCrash(o)
  \/ \E r \in Requests : Deliver(o, r) \/ Resync(o, r)
  \/ \E k \in Ingresses : DeliverIngress(o, k)
  \/ Reconcile(o)

Repository == Environment /\ UNCHANGED <<apiVars, replicaVars>>

Next == User \/ Repository \/ \E o \in Operators : Replica(o)

Spec == Init /\ [][Next]_vars

\* The process scheduler restarts a replica, the informers deliver, the FIFO
\* work queue starves no request and Reconcile runs on; of status writes that are tried
\* over and over, the API server answers one; users and GitHub's maintainers owe nothing.
Fairness ==
  \A o \in Operators :
    /\ WF_vars(Start(o))
    /\ \A r \in Requests : WF_vars(Deliver(o, r)) /\ SF_vars(Begin(o, r))
    /\ \A k \in Ingresses : WF_vars(DeliverIngress(o, k))
    /\ WF_vars(Convert(o))
    /\ WF_vars(Publish(o))
    /\ WF_vars(Published(o))
    /\ WF_vars(UpdateStatus(o) \/ UpdateFails(o)) /\ SF_vars(WriteStatus(o, FALSE))

FairSpec == Spec /\ Fairness

-----------------------------------------------------------------------------
(* Properties *)

\* Type invariant.
TypeOK ==
  /\ GitTypeOK
  /\ mreq \in [Requests -> Object]
  /\ ingress \in [Ingresses -> [exists : BOOLEAN, version : 0..MaxVersion]]
  /\ cache \in [Operators -> [Requests -> Object]]
  /\ ingCache \in [Operators -> [Ingresses -> [exists : BOOLEAN, version : 0..MaxVersion]]]
  /\ queue \in [Operators -> SUBSET Requests]
  /\ worker \in [Operators -> [pc : WorkerPC, req : Requests \cup {None}, obj : Object]]
  /\ crashes \in Nat
  /\ asked \subseteq [source : Ingresses, provider : KnownProviders]

\* What a status with PRCreated claims.
PullHolds(st) ==
  st.phase = "PRCreated" =>
    /\ st.url \in Branch
    /\ pulls[st.url] # "none"
    /\ content[st.url] = st.audit

\* When a request reports PRCreated, prURL is a pull request that exists and
\* whose branch holds the very manifest that auditSummary in the same status
\* counts, although replicas race for branch names and manifests change with
\* the Ingress (migrationrequest_controller.go:76-113).
ReportedPullHoldsAudit == \A r \in Requests : PullHolds(mreq[r].status)

WasAsked(m) == \E a \in asked : a.source = m.source /\ a.provider = m.provider

\* No pull request is opened for a source and a provider that no request ever
\* asked to publish with dryRun off and autoCreatePR on, whatever stale copy a
\* replica works from (migrationrequest_controller.go:83).
PullsOnlyWhenAsked == \A b \in Branch : pulls[b] # "none" => WasAsked(content[b])

\* A status that speaks for the spec beside it.
SpeaksFor(r, m) ==
  /\ m.status.phase = "Converted" => ~AsksForPull(m.spec)
  /\ m.status.phase \in {"PRCreated", "PRDryRun"} => AsksForPull(m.spec)
  /\ m.status.phase \in {"Converted", "PRCreated", "PRDryRun"} =>
       Renders(m.status.audit, r, m.spec)

\* A status is never written for a spec other than the one it lands beside: a
\* reconcile that a spec edit overtook does not report
\* (migrationrequest_controller.go:87, 113, 129).
StatusSpeaksForSpec ==
  [][\A r \in Requests :
       mreq'[r].status # mreq[r].status /\ mreq'[r].exists => SpeaksFor(r, mreq'[r])]_vars

\* The inductive invariant of the operator, in three parts besides GitInv.
\* 1. Types, and what an object that exists must have.
Reconciling == {"convert", "publish", "update", "fail"}

OperatorTypeInv ==
  /\ TypeOK
  /\ \A r \in Requests : mreq[r].exists => mreq[r].spec \in UserSpecs
  /\ \A o \in Operators, r \in Requests : cache[o][r].exists => cache[o][r].spec \in UserSpecs
  /\ \A k \in Ingresses : ingress[k].exists => ingress[k].version # 0
  /\ \A o \in Operators, k \in Ingresses : ingCache[o][k].exists => ingCache[o][k].version # 0
  /\ \A o \in Operators :
       /\ worker[o].pc \in Reconciling =>
            worker[o].req \in Requests /\ worker[o].obj.exists /\ worker[o].obj.spec \in UserSpecs
       /\ call[o].pc # "idle" <=> worker[o].pc = "publish"

\* 2. An object x of request r, wherever it is kept: what it asks was asked, what it
\* reports is true, and a resourceVersion stands for one object.
IsAsked(r, x) == x.exists /\ AsksForPull(x.spec) => Asking(r, x.spec) \in asked

IsCopy(r, x) ==
  /\ IsAsked(r, x)
  /\ PullHolds(x.status)
  /\ x.rv <= mreq[r].rv
  /\ x.rv = mreq[r].rv => x = mreq[r]

\* 3. A Reconcile in progress, against the object it will write to if nobody else
\* has (old): what it has set so far may be written beside that object's spec.
IsWork(o) ==
  LET r   == worker[o].req
      x   == worker[o].obj
      st  == x.status
      old == mreq[r].status
      isCurrent == x.rv = mreq[r].rv
  IN  /\ IsAsked(r, x)
      /\ x.rv <= mreq[r].rv
      /\ isCurrent => x.spec = mreq[r].spec
      /\ worker[o].pc = "convert" => PullHolds(st) /\ (isCurrent => st = old)
      /\ worker[o].pc = "publish" =>
           /\ AsksForPull(x.spec)
           /\ st.audit = call[o].manifest
           /\ Renders(st.audit, r, x.spec)
           /\ isCurrent => st.url = old.url
      /\ worker[o].pc = "update" =>
           /\ PullHolds(st)
           /\ SpeaksFor(r, x)
           /\ st.phase \in {"Converted", "PRCreated", "PRDryRun"}
           /\ st.audit \in Manifests
           /\ st.phase = "PRDryRun" => st.url \in {DryRunURL(n) : n \in Names}
           /\ st.phase = "Converted" => (isCurrent => st.url = old.url)
      /\ worker[o].pc = "fail" =>
           /\ st.phase = "Error"
           /\ isCurrent => st.url = old.url
           /\ \/ isCurrent => st.audit = old.audit
              \/ AsksForPull(x.spec) /\ st.audit \in Manifests /\ Renders(st.audit, r, x.spec)

OperatorInv ==
  /\ OperatorTypeInv
  /\ GitInv
  /\ PullsOnlyWhenAsked
  /\ \A r \in Requests : IsCopy(r, mreq[r])
  /\ \A o \in Operators, r \in Requests : IsCopy(r, cache[o][r])
  /\ \A o \in Operators : worker[o].pc \in Reconciling => IsWork(o)

\* The second inductive invariant: where the pull request of a status, of a copy and of
\* a Reconcile stands in time, and that only a replica with a token ever opens one.
IsPast(url, second) == url \in Branch => TokenHolders # {} /\ url[2] <= second

GoesForward(o) ==
  LET url == worker[o].obj.status.url
      old == mreq[worker[o].req].status.url
  IN  /\ worker[o].pc # "publish" => IsPast(url, clock)
      /\ worker[o].pc = "publish" => IsPast(url, call[o].branch[2])
      /\ worker[o].pc = "update" /\ worker[o].obj.rv = mreq[worker[o].req].rv /\ old \in Branch
           => url \in Branch /\ url[2] >= old[2]

ForwardInv ==
  /\ \A r \in Requests : IsPast(mreq[r].status.url, clock)
  /\ \A o \in Operators, r \in Requests : IsPast(cache[o][r].status.url, clock)
  /\ \A o \in Operators :
       /\ call[o].pc # "idle" => call[o].branch[2] <= clock
       /\ call[o].pc \in GitHubSteps \cup {"opened"} => o \in TokenHolders
       /\ call[o].pc \in {"write_manifest", "write_body", "dry_run"} => o \notin TokenHolders
  /\ \A o \in Operators : worker[o].pc \in Reconciling => GoesForward(o)

\* Over the life of a request prURL moves forward only: a replica that was
\* overtaken never puts back the pull request of an earlier second, and no
\* later reconcile clears the field (migrationrequest_controller.go:107).
ReportedPullMovesForward ==
  [][\A r \in Requests :
       mreq[r].status.url \in Branch /\ mreq'[r].exists =>
         /\ mreq'[r].status.url \in Branch
         /\ mreq'[r].status.url[2] >= mreq[r].status.url[2]]_vars

\* The refinement: a request is a wish and what it is told, and nobody else's work
\* in progress is visible.
WishOf(r, x) ==
  IF x.exists THEN [source   |-> SourceKey(r, x.spec),
                    provider |-> NormalizeProvider(x.spec.provider),
                    publish  |-> AsksForPull(x.spec)]
  ELSE None

ToldBy(st) == [phase |-> st.phase, url |-> st.url, audit |-> st.audit]

Wished == [r \in Requests |-> WishOf(r, mreq[r])]
Told   == [r \in Requests |-> ToldBy(mreq[r].status)]

Ledger == INSTANCE MigrationLedger WITH
  Sources   <- Ingresses,
  Providers <- KnownProviders,
  Proposals <- Branch,
  Texts     <- Manifests,
  DryRuns   <- {DryRunURL(n) : n \in Names},
  wishes    <- Wished,
  wanted    <- asked,
  proposals <- ProposalText,
  reports   <- Told

\* Two replicas with caches that lag, against users, each other and GitHub, do what
\* the ledger allows: every status write is a report on the spec beside it, every
\* pull request a proposal that was wished for and keeps its text.
ImplementsLedger == Ledger!LedgerSpec

\* Each request gets one pull request (the controller "optionally opens a
\* GitOps PR").
AtMostOnePull ==
  \A b, d \in Branch : pulls[b] # "none" /\ pulls[d] # "none" => b = d

\* In the end every request reports on its current spec: no edit is lost in a
\* queue, in a conflict or in a restart (migrationrequest_controller.go:87-89).
SpecIsReported ==
  <>[](\A r \in Requests :
         mreq[r].exists => mreq[r].status.phase # "" /\ SpeaksFor(r, mreq[r]))

\* A request that failed for want of its Ingress is taken up again when the
\* Ingress appears, although nothing watches Ingresses: fail returns the error
\* and the request is retried (migrationrequest_controller.go:46, 130).
MissingIngressRecovers ==
  <>[](\A r \in Requests :
         mreq[r].exists /\ mreq[r].status.reason = "source Ingress"
           => ~ingress[SourceKey(r, mreq[r].spec)].exists)

\* The reconcile that a status write triggers writes the same status again when
\* no pull request was opened, so the self-triggering dies out
\* (migrationrequest_controller.go:85-91, 153).
ConvertedRequestsComeToRest ==
  <>[](\A r \in Requests :
         mreq[r].exists => mreq[r].status.phase \in {"Converted", "PRDryRun"})
    => <>[](\A o \in Operators : queue[o] = {} /\ worker[o].pc = "idle")
=============================================================================
