----------------------- MODULE MigrationOperator_proofs -----------------------
(* Proofs about MigrationOperator, for every set of replicas, requests,       *)
(* Ingresses and specs, with or without losses, resyncs and crashes.          *)
EXTENDS MigrationOperator, GitOps_proofs

(***************************************************************************)
(* What the operators on objects and workers return.                       *)
(***************************************************************************)
IngressCopy == [exists : BOOLEAN, version : 0..MaxVersion]
WorkerState == [pc : WorkerPC, req : Requests \cup {None}, obj : Object]

LEMMA NoObjectTyped == NoObject \in Object /\ NoStatus \in Status
  BY DEF NoObject, NoStatus, Object, Status, Phases, Reasons, URL, File

LEMMA NoWorkTyped ==
  ASSUME NEW pc \in WorkerPC
  PROVE  NoWork(pc) \in WorkerState
  BY NoObjectTyped DEF NoWork, WorkerState

\* Continue moves one worker and sets the status on its copy of the object.
LEMMA ContinueMoves ==
  ASSUME worker \in [Operators -> WorkerState], NEW o \in Operators, NEW pc \in WorkerPC,
         NEW st \in Status, Continue(o, pc, st)
  PROVE  /\ worker' \in [Operators -> WorkerState]
         /\ worker'[o].pc = pc
         /\ worker'[o].req = worker[o].req
         /\ worker'[o].obj = [worker[o].obj EXCEPT !.status = st]
         /\ \A q \in Operators : q # o => worker'[q] = worker[q]
  <1> DEFINE w == [pc |-> pc, req |-> worker[o].req, obj |-> [worker[o].obj EXCEPT !.status = st]]
  <1>1. w \in WorkerState
    BY DEF WorkerState, Object
  <1>2. worker' = [worker EXCEPT ![o] = w]
    BY DEF Continue, WorkerState
  <1> QED
    BY <1>1, <1>2

LEMMA SetStatus ==
  ASSUME NEW x \in Object, NEW st \in Status, NEW y, y = [x EXCEPT !.status = st]
  PROVE  /\ y \in Object
         /\ y.exists = x.exists /\ y.gen = x.gen /\ y.rv = x.rv /\ y.spec = x.spec
         /\ y.status = st
  BY DEF Object
\* The ways in which Reconcile changes the status of its copy.
LEMMA SetPhase ==
  ASSUME NEW st \in Status, NEW phase \in Phases
  PROVE  LET y == [st EXCEPT !.phase = phase, !.reason = "none"]
         IN  /\ y \in Status
             /\ y.phase = phase /\ y.url = st.url /\ y.audit = st.audit
  BY DEF Status, Reasons

LEMMA SetAudit ==
  ASSUME NEW st \in Status, NEW m \in Manifests
  PROVE  /\ [st EXCEPT !.audit = m] \in Status
         /\ [st EXCEPT !.audit = m].audit = m
         /\ [st EXCEPT !.audit = m].url = st.url
  BY DEF Status, File

\* fail (migrationrequest_controller.go:119-131).
LEMMA FailMoves ==
  ASSUME TypeOK, NEW o \in Operators, NEW st \in Status, NEW reason \in Reasons,
         Fail(o, st, reason)
  PROVE  /\ worker' \in [Operators -> WorkerState]
         /\ worker'[o].pc = "fail"
         /\ worker'[o].req = worker[o].req
         /\ worker'[o].obj.exists = worker[o].obj.exists
         /\ worker'[o].obj.rv = worker[o].obj.rv
         /\ worker'[o].obj.spec = worker[o].obj.spec
         /\ worker'[o].obj.status.phase = "Error"
         /\ worker'[o].obj.status.url = st.url
         /\ worker'[o].obj.status.audit = st.audit
         /\ \A q \in Operators : q # o => worker'[q] = worker[q]
  <1> DEFINE y == [st EXCEPT !.phase = "Error", !.reason = reason, !.failedAt = clock]
  <1>1. /\ y \in Status
        /\ y.phase = "Error" /\ y.url = st.url /\ y.audit = st.audit
    BY DEF Status, Phases, TypeOK, GitTypeOK
  <1>2. Continue(o, "fail", y) /\ "fail" \in WorkerPC
    BY DEF Fail, WorkerPC
  <1>3. worker \in [Operators -> WorkerState] /\ worker[o].obj \in Object
    BY DEF TypeOK, WorkerState
  <1> HIDE DEF y
  <1>4. /\ worker' \in [Operators -> WorkerState]
        /\ worker'[o].pc = "fail"
        /\ worker'[o].req = worker[o].req
        /\ worker'[o].obj = [worker[o].obj EXCEPT !.status = y]
        /\ \A q \in Operators : q # o => worker'[q] = worker[q]
    BY <1>1, <1>2, <1>3, ContinueMoves
  <1>5. /\ worker'[o].obj.exists = worker[o].obj.exists
        /\ worker'[o].obj.rv = worker[o].obj.rv
        /\ worker'[o].obj.spec = worker[o].obj.spec
        /\ worker'[o].obj.status = y
    BY <1>1, <1>3, <1>4, SetStatus
  <1> QED
    BY <1>1, <1>4, <1>5

\* The same for a step that does not fail.
LEMMA ContinueKeepsCopy ==
  ASSUME TypeOK, NEW o \in Operators, NEW pc \in WorkerPC, NEW st \in Status, Continue(o, pc, st)
  PROVE  /\ worker' \in [Operators -> WorkerState]
         /\ worker'[o].pc = pc
         /\ worker'[o].req = worker[o].req
         /\ worker'[o].obj.exists = worker[o].obj.exists
         /\ worker'[o].obj.rv = worker[o].obj.rv
         /\ worker'[o].obj.spec = worker[o].obj.spec
         /\ worker'[o].obj.status = st
         /\ \A q \in Operators : q # o => worker'[q] = worker[q]
  <1>1. worker \in [Operators -> WorkerState] /\ worker[o].obj \in Object
    BY DEF TypeOK, WorkerState
  <1>2. /\ worker' \in [Operators -> WorkerState]
        /\ worker'[o].pc = pc
        /\ worker'[o].req = worker[o].req
        /\ worker'[o].obj = [worker[o].obj EXCEPT !.status = st]
        /\ \A q \in Operators : q # o => worker'[q] = worker[q]
    BY <1>1, ContinueMoves
  <1>3. /\ worker'[o].obj.exists = worker[o].obj.exists
        /\ worker'[o].obj.rv = worker[o].obj.rv
        /\ worker'[o].obj.spec = worker[o].obj.spec
        /\ worker'[o].obj.status = st
    BY <1>1, <1>2, SetStatus
  <1> QED
    BY <1>2, <1>3

-----------------------------------------------------------------------------
(***************************************************************************)
(* Type correctness.                                                       *)
(***************************************************************************)
LEMMA OperatorInitTyped == Init => OperatorTypeInv
  <1> SUFFICES ASSUME Init PROVE OperatorTypeInv
    OBVIOUS
  <1>1. GitTypeOK
    BY InitTyped DEF Init
  <1>2. NoWork("down") \in WorkerState
    BY NoWorkTyped DEF WorkerPC
  <1>3. TypeOK
    BY <1>1, <1>2, NoObjectTyped, OperatorAssumption DEF Init, TypeOK, WorkerState, NoIngress
  <1>4. \A o \in Operators : call[o].pc = "idle" /\ worker[o].pc = "down"
    BY DEF Init, GitInit, NoCall, NoWork, Operators
  <1> QED
    BY <1>3, <1>4 DEF Init, OperatorTypeInv, NoObject, NoIngress, Reconciling

LEMMA GitTypeUnchanged ==
  ASSUME GitTypeOK, UNCHANGED gitVars
  PROVE  GitTypeOK'
  BY DEF GitTypeOK, gitVars

\* What users do to requests and Ingresses.
LEMMA ApplyTyped ==
  ASSUME OperatorTypeInv, NEW r \in Requests, NEW s \in UserSpecs, Apply(r, s)
  PROVE  OperatorTypeInv'
  <1> DEFINE x == [exists |-> TRUE, gen |-> mreq[r].gen + 1, rv |-> mreq[r].rv + 1,
                   spec |-> s, status |-> mreq[r].status]
  <1>1. GitTypeOK'
    BY GitTypeUnchanged DEF Apply, OperatorTypeInv, TypeOK
  <1>2. x \in Object
    BY DEF OperatorTypeInv, TypeOK, Object
  <1>3. mreq' = [mreq EXCEPT ![r] = x]
    BY DEF Apply
  <1>4. Asking(r, s) \in [source : Ingresses, provider : KnownProviders]
    BY OperatorAssumption DEF Asking
  <1>5. asked' \subseteq [source : Ingresses, provider : KnownProviders]
    BY <1>4 DEF Apply, OperatorTypeInv, TypeOK
  <1> QED
    BY <1>1, <1>2, <1>3, <1>5 DEF Apply, OperatorTypeInv, TypeOK, replicaVars, gitVars

LEMMA DeleteTyped ==
  ASSUME OperatorTypeInv, NEW r \in Requests, Delete(r)
  PROVE  OperatorTypeInv'
  <1> DEFINE x == [exists |-> FALSE, gen |-> mreq[r].gen + 1, rv |-> mreq[r].rv + 1,
                   spec |-> None, status |-> NoStatus]
  <1>1. GitTypeOK'
    BY GitTypeUnchanged DEF Delete, OperatorTypeInv, TypeOK
  <1>2. x \in Object /\ x.exists = FALSE
    BY NoObjectTyped DEF OperatorTypeInv, TypeOK, Object
  <1>3. mreq' = [mreq EXCEPT ![r] = x]
    BY DEF Delete
  <1> QED
    BY <1>1, <1>2, <1>3 DEF Delete, OperatorTypeInv, TypeOK, replicaVars, gitVars

LEMMA IngressTyped ==
  ASSUME OperatorTypeInv, NEW k \in Ingresses, ApplyIngress(k) \/ DeleteIngress(k)
  PROVE  OperatorTypeInv'
  <1>1. GitTypeOK'
    BY GitTypeUnchanged DEF ApplyIngress, DeleteIngress, OperatorTypeInv, TypeOK
  <1>2. /\ ingress' \in [Ingresses -> [exists : BOOLEAN, version : 0..MaxVersion]]
        /\ \A j \in Ingresses : ingress'[j].exists => ingress'[j].version # 0
    <2>1. CASE ApplyIngress(k)
      BY <2>1, OperatorAssumption DEF ApplyIngress, OperatorTypeInv, TypeOK
    <2>2. CASE DeleteIngress(k)
      BY <2>2 DEF DeleteIngress, OperatorTypeInv, TypeOK
    <2> QED
      BY <2>1, <2>2
  <1>3. UNCHANGED <<mreq, asked, replicaVars, gitVars>>
    BY DEF ApplyIngress, DeleteIngress
  <1> QED
    BY <1>1, <1>2, <1>3 DEF OperatorTypeInv, TypeOK, replicaVars, gitVars

\* Convert's three ends: it fails, it reports, or it calls CreateMigrationPR
\* (migrationrequest_controller.go:39-103).
ConvertEnds(o) ==
  LET r  == worker[o].req
      s  == worker[o].obj.spec
      st == worker[o].obj.status
      w  == worker'[o]
  IN  /\ w.req = r
      /\ w.obj.exists = worker[o].obj.exists
      /\ w.obj.rv = worker[o].obj.rv
      /\ w.obj.spec = s
      /\ w.obj.status.url = st.url
      /\ \/ /\ w.pc = "fail"
            /\ w.obj.status.phase = "Error"
            /\ w.obj.status.audit = st.audit
            /\ UNCHANGED gitVars
         \/ /\ w.pc = "update"
            /\ w.obj.status.phase = "Converted"
            /\ ~AsksForPull(s)
            /\ w.obj.status.audit \in Manifests
            /\ Renders(w.obj.status.audit, r, s)
            /\ UNCHANGED gitVars
         \/ /\ w.pc = "publish"
            /\ AsksForPull(s)
            /\ w.obj.status.audit \in Manifests
            /\ Renders(w.obj.status.audit, r, s)
            /\ \E n \in Names : Call(o, n, w.obj.status.audit, FALSE, s.repo)

LEMMA ConvertMoves ==
  ASSUME OperatorTypeInv, NEW o \in Operators, Convert(o)
  PROVE  /\ worker' \in [Operators -> WorkerState]
         /\ \A q \in Operators : q # o => worker'[q] = worker[q]
         /\ ConvertEnds(o)
  <1> DEFINE r   == worker[o].req
             s   == worker[o].obj.spec
             st  == worker[o].obj.status
             k   == SourceKey(r, s)
             ing == ingCache[o][k]
             reason == FailReason(s, ing)
             m   == Render(s, k, ing.version)
             sta == [st EXCEPT !.audit = m]
  <1>1. /\ r \in Requests /\ s \in UserSpecs /\ st \in Status /\ worker[o].obj \in Object
        /\ TypeOK
    BY DEF Convert, OperatorTypeInv, Reconciling, TypeOK, Object
  <1>2. k \in Ingresses /\ k.name \in Names
    BY <1>1, OperatorAssumption
  <1>3. CASE reason # "none"
    <2>1. Fail(o, st, reason) /\ UNCHANGED gitVars
      BY <1>3 DEF Convert
    <2>2. reason \in Reasons
      BY DEF FailReason, Reasons
    <2> HIDE DEF st, reason
    <2> QED
      BY <1>1, <2>1, <2>2, FailMoves DEF ConvertEnds, st
  <1>4. CASE reason = "none"
    <2>1. ing.exists
      BY <1>4 DEF FailReason
    <2>2. ing.version \in 1..MaxVersion
      BY <1>2, <2>1, OperatorAssumption DEF OperatorTypeInv, TypeOK
    <2>3. m \in Manifests
      BY <1>1, <2>2, OperatorAssumption
    <2>4. Renders(m, r, s)
      BY DEF Renders, Render
    <2>5. sta \in Status /\ sta.audit = m /\ sta.url = st.url
      BY <1>1, <2>3, SetAudit
    <2>6. CASE StopsAtConvert(s)
      <3> DEFINE y == [sta EXCEPT !.phase = "Converted", !.reason = "none"]
      <3>1. Continue(o, "update", y) /\ UNCHANGED gitVars
        BY <1>4, <2>6 DEF Convert
      <3>2. y \in Status /\ y.phase = "Converted" /\ y.url = sta.url /\ y.audit = sta.audit
        <4> "Converted" \in Phases
          BY DEF Phases
        <4> HIDE DEF sta
        <4> QED
          BY <2>5, SetPhase
      <3>3. ~AsksForPull(s)
        BY <2>6 DEF StopsAtConvert, AsksForPull
      <3>4. "update" \in WorkerPC
        BY DEF WorkerPC
      <3> HIDE DEF y, sta, m
      <3>5. /\ worker' \in [Operators -> WorkerState]
            /\ worker'[o].pc = "update"
            /\ worker'[o].req = worker[o].req
            /\ worker'[o].obj.exists = worker[o].obj.exists
            /\ worker'[o].obj.rv = worker[o].obj.rv
            /\ worker'[o].obj.spec = worker[o].obj.spec
            /\ worker'[o].obj.status = y
            /\ \A q \in Operators : q # o => worker'[q] = worker[q]
        BY <1>1, <3>1, <3>2, <3>4, ContinueKeepsCopy
      <3> QED
        BY <2>3, <2>4, <2>5, <3>1, <3>2, <3>3, <3>5 DEF ConvertEnds
    <2>7. CASE ~StopsAtConvert(s)
      <3>1. Continue(o, "publish", sta) /\ Call(o, k.name, m, FALSE, s.repo)
        BY <1>4, <2>7 DEF Convert
      <3>2. AsksForPull(s)
        BY <2>7 DEF StopsAtConvert, AsksForPull
      <3>3. "publish" \in WorkerPC
        BY DEF WorkerPC
      <3> HIDE DEF sta, m, k
      <3>4. /\ worker' \in [Operators -> WorkerState]
            /\ worker'[o].pc = "publish"
            /\ worker'[o].req = worker[o].req
            /\ worker'[o].obj.exists = worker[o].obj.exists
            /\ worker'[o].obj.rv = worker[o].obj.rv
            /\ worker'[o].obj.spec = worker[o].obj.spec
            /\ worker'[o].obj.status = sta
            /\ \A q \in Operators : q # o => worker'[q] = worker[q]
        BY <1>1, <2>5, <3>1, <3>3, ContinueKeepsCopy
      <3> QED
        BY <1>2, <2>3, <2>4, <2>5, <3>1, <3>2, <3>4 DEF ConvertEnds
    <2> QED
      BY <2>6, <2>7
  <1> QED
    BY <1>3, <1>4

\* CreateMigrationPR's three ends (migrationrequest_controller.go:103-117).
PublishedEnds(o) ==
  LET st == worker[o].obj.status
      w  == worker'[o]
  IN  /\ w.req = worker[o].req
      /\ w.obj.exists = worker[o].obj.exists
      /\ w.obj.rv = worker[o].obj.rv
      /\ w.obj.spec = worker[o].obj.spec
      /\ w.obj.status.audit = st.audit
      /\ \/ /\ call[o].pc = "opened"
            /\ w.pc = "update"
            /\ w.obj.status.phase = "PRCreated"
            /\ w.obj.status.url = call[o].branch
         \/ /\ call[o].pc = "dry_run"
            /\ w.pc = "update"
            /\ w.obj.status.phase = "PRDryRun"
            /\ w.obj.status.url \in {DryRunURL(n) : n \in Names}
         \/ /\ call[o].pc = "failed"
            /\ w.pc = "fail"
            /\ w.obj.status.phase = "Error"
            /\ w.obj.status.url = st.url

LEMMA PublishedMoves ==
  ASSUME OperatorTypeInv, NEW o \in Operators, Published(o)
  PROVE  /\ worker' \in [Operators -> WorkerState]
         /\ \A q \in Operators : q # o => worker'[q] = worker[q]
         /\ PublishedEnds(o)
  <1> DEFINE st == worker[o].obj.status
  <1>1. st \in Status /\ TypeOK /\ "update" \in WorkerPC
    BY DEF OperatorTypeInv, TypeOK, Object, WorkerPC
  <1>2. call[o].branch \in Branch /\ call[o].branch \in URL
    BY DEF Published, OperatorTypeInv, TypeOK, GitTypeOK, Operators, URL
  <1>3. CASE call[o].pc = "opened"
    <2> DEFINE y == [st EXCEPT !.phase = "PRCreated", !.reason = "none", !.url = call[o].branch]
    <2>1. Continue(o, "update", y)
      BY <1>3 DEF Published
    <2>2. y \in Status /\ y.phase = "PRCreated" /\ y.url = call[o].branch /\ y.audit = st.audit
      <3> HIDE DEF st
      <3> QED
        BY <1>1, <1>2 DEF Status, Phases, Reasons
    <2> HIDE DEF y
    <2> QED
      BY <1>1, <1>3, <2>1, <2>2, ContinueKeepsCopy DEF PublishedEnds
  <1>4. CASE call[o].pc = "dry_run"
    <2> DEFINE url == DryRunURL(NameOf(o))
               y == [st EXCEPT !.phase = "PRDryRun", !.reason = "none", !.url = url]
    <2>1. Continue(o, "update", y)
      BY <1>4 DEF Published
    <2>2. NameOf(o) \in Names
      BY <1>2 DEF NameOf, Branch
    <2>3. url \in {DryRunURL(n) : n \in Names} /\ url \in URL
      BY <2>2 DEF URL
    <2> HIDE DEF url
    <2>4. y \in Status /\ y.phase = "PRDryRun" /\ y.url = url /\ y.audit = st.audit
      <3> HIDE DEF st
      <3> QED
        BY <1>1, <2>3 DEF Status, Phases, Reasons
    <2> HIDE DEF y
    <2> QED
      BY <1>1, <1>4, <2>1, <2>3, <2>4, ContinueKeepsCopy DEF PublishedEnds
  <1>5. CASE call[o].pc = "failed"
    <2>1. Fail(o, st, "gitops") /\ "gitops" \in Reasons
      BY <1>5 DEF Published, Reasons
    <2> QED
      BY <1>1, <1>5, <2>1, FailMoves DEF PublishedEnds
  <1> QED
    BY <1>3, <1>4, <1>5 DEF Published

\* Informers and queues: a cache takes what the API server has.
LEMMA InformersTyped ==
  ASSUME OperatorTypeInv, NEW o \in Operators,
         \/ \E r \in Requests : Deliver(o, r) \/ Resync(o, r)
         \/ \E k \in Ingresses : DeliverIngress(o, k)
  PROVE  OperatorTypeInv'
  <1>1. GitTypeOK'
    BY GitTypeUnchanged DEF Deliver, DeliverIngress, Resync, OperatorTypeInv, TypeOK
  <1>2. ASSUME NEW r \in Requests, Deliver(o, r) PROVE OperatorTypeInv'
    BY <1>1, <1>2 DEF Deliver, OperatorTypeInv, TypeOK, apiVars, gitVars
  <1>3. ASSUME NEW k \in Ingresses, DeliverIngress(o, k) PROVE OperatorTypeInv'
    BY <1>1, <1>3 DEF DeliverIngress, OperatorTypeInv, TypeOK, apiVars, gitVars
  <1>4. ASSUME NEW r \in Requests, Resync(o, r) PROVE OperatorTypeInv'
    BY <1>1, <1>4 DEF Resync, OperatorTypeInv, TypeOK, apiVars, gitVars
  <1> QED
    BY <1>2, <1>3, <1>4

LEMMA StartTyped ==
  ASSUME OperatorTypeInv, NEW o \in Operators, Start(o)
  PROVE  OperatorTypeInv'
  <1>1. GitTypeOK'
    BY GitTypeUnchanged DEF Start, OperatorTypeInv, TypeOK
  <1>2. NoWork("idle") \in WorkerState /\ NoWork("idle").pc = "idle"
    BY NoWorkTyped DEF WorkerPC, NoWork
  <1>3. worker[o].pc = "down"
    BY DEF Start, Live
  <1>4. /\ worker' \in [Operators -> WorkerState]
        /\ worker'[o].pc = "idle"
        /\ \A q \in Operators : q # o => worker'[q] = worker[q]
    BY <1>2 DEF Start, OperatorTypeInv, TypeOK, WorkerState
  <1>5. /\ queue' \in [Operators -> SUBSET Requests]
        /\ cache' = [cache EXCEPT ![o] = mreq]
        /\ ingCache' = [ingCache EXCEPT ![o] = ingress]
    BY DEF Start, QueueAfterStart, OperatorTypeInv, TypeOK
  <1>6. \A q \in Operators :
          /\ worker'[q].pc \in Reconciling =>
               worker'[q].req \in Requests /\ worker'[q].obj.exists /\ worker'[q].obj.spec \in UserSpecs
          /\ call[q].pc # "idle" <=> worker'[q].pc = "publish"
    BY <1>3, <1>4 DEF OperatorTypeInv, Reconciling
  <1>7. UNCHANGED <<mreq, ingress, asked, crashes, call>>
    BY DEF Start, apiVars, gitVars
  <1> QED
    BY <1>1, <1>4, <1>5, <1>6, <1>7 DEF OperatorTypeInv, TypeOK, WorkerState

\* A crash drops the call and the files with the worker.
LEMMA ReplicaCrashTyped ==
  ASSUME OperatorTypeInv, NEW o \in Operators, ReplicaCrash(o)
  PROVE  OperatorTypeInv'
  <1>1. GitTypeOK'
    <2>1. artifacts' \in [Callers -> [Names -> [yaml : File, body : File]]]
      BY DEF ReplicaCrash, OperatorTypeInv, TypeOK, GitTypeOK, File
    <2>2. call' = [call EXCEPT ![o] = NoCall] /\ UNCHANGED <<clock, repoVars>>
      BY DEF ReplicaCrash
    <2> QED
      BY <2>1, <2>2 DEF OperatorTypeInv, TypeOK, GitTypeOK, NoCall, CallPC, File, repoVars, Operators
  <1>2. NoWork("down") \in WorkerState /\ NoWork("down").pc = "down"
    BY NoWorkTyped DEF WorkerPC, NoWork
  <1>3. /\ worker' \in [Operators -> WorkerState]
        /\ worker'[o].pc = "down"
        /\ \A q \in Operators : q # o => worker'[q] = worker[q]
    BY <1>2 DEF ReplicaCrash, OperatorTypeInv, TypeOK, WorkerState
  <1>4. /\ call'[o].pc = "idle"
        /\ \A q \in Operators : q # o => call'[q] = call[q]
    BY DEF ReplicaCrash, OperatorTypeInv, TypeOK, GitTypeOK, NoCall, Operators
  <1>5. \A q \in Operators :
          /\ worker'[q].pc \in Reconciling =>
               worker'[q].req \in Requests /\ worker'[q].obj.exists /\ worker'[q].obj.spec \in UserSpecs
          /\ call'[q].pc # "idle" <=> worker'[q].pc = "publish"
    BY <1>3, <1>4 DEF OperatorTypeInv, Reconciling
  <1>6. /\ queue' \in [Operators -> SUBSET Requests]
        /\ crashes' \in Nat
        /\ UNCHANGED <<mreq, ingress, asked, cache, ingCache>>
    BY DEF ReplicaCrash, OperatorTypeInv, TypeOK, apiVars
  <1> QED
    BY <1>1, <1>3, <1>5, <1>6 DEF OperatorTypeInv, TypeOK, WorkerState

\* Reconcile takes typed states to typed states.
LEMMA BeginTyped ==
  ASSUME OperatorTypeInv, NEW o \in Operators, NEW r \in Requests, Begin(o, r)
  PROVE  OperatorTypeInv'
  <1>1. GitTypeOK'
    BY GitTypeUnchanged DEF Begin, OperatorTypeInv, TypeOK
  <1>2. UNCHANGED <<mreq, ingress, asked, cache, ingCache, crashes, call>>
    BY DEF Begin, apiVars, gitVars
  <1>3. queue' \in [Operators -> SUBSET Requests]
    BY DEF Begin, OperatorTypeInv, TypeOK
  <1>4. CASE ~cache[o][r].exists
    BY <1>1, <1>2, <1>3, <1>4 DEF Begin, OperatorTypeInv, TypeOK
  <1>5. CASE cache[o][r].exists
    <2> DEFINE w == [pc |-> "convert", req |-> r, obj |-> cache[o][r]]
    <2>1. w \in WorkerState
      BY DEF WorkerState, WorkerPC, OperatorTypeInv, TypeOK
    <2>2. worker' = [worker EXCEPT ![o] = w]
      BY <1>5 DEF Begin
    <2>3. worker' \in [Operators -> WorkerState]
      BY <2>1, <2>2 DEF OperatorTypeInv, TypeOK, WorkerState
    <2>4. \A q \in Operators :
            /\ worker'[q].pc \in Reconciling =>
                 worker'[q].req \in Requests /\ worker'[q].obj.exists /\ worker'[q].obj.spec \in UserSpecs
            /\ call[q].pc # "idle" <=> worker'[q].pc = "publish"
      BY <1>5, <2>2 DEF OperatorTypeInv, TypeOK, Reconciling, Begin
    <2> QED
      BY <1>1, <1>2, <1>3, <2>3, <2>4 DEF OperatorTypeInv, TypeOK, WorkerState
  <1> QED
    BY <1>4, <1>5

LEMMA ConvertTyped ==
  ASSUME OperatorTypeInv, NEW o \in Operators, Convert(o)
  PROVE  OperatorTypeInv'
  <1>1. /\ worker' \in [Operators -> WorkerState]
        /\ \A q \in Operators : q # o => worker'[q] = worker[q]
        /\ ConvertEnds(o)
    BY ConvertMoves
  <1>2. UNCHANGED <<mreq, ingress, asked, cache, ingCache, queue, crashes>>
    BY DEF Convert, apiVars
  <1>3. /\ worker[o].req \in Requests /\ worker[o].obj.exists /\ worker[o].obj.spec \in UserSpecs
        /\ call[o].pc = "idle"
        /\ GitTypeOK
    BY DEF Convert, OperatorTypeInv, TypeOK, Reconciling
  <1>4. /\ GitTypeOK'
        /\ call'[o].pc # "idle" <=> worker'[o].pc = "publish"
        /\ \A q \in Operators : q # o => call'[q] = call[q]
    <2>1. CASE UNCHANGED gitVars /\ worker'[o].pc # "publish"
      BY <1>3, <2>1, GitTypeUnchanged DEF gitVars
    <2>2. CASE worker'[o].pc = "publish"
      <3>1. PICK n \in Names : Call(o, n, worker'[o].obj.status.audit, FALSE, worker[o].obj.spec.repo)
        BY <1>1, <2>2 DEF ConvertEnds
      <3>2. worker'[o].obj.status.audit \in Manifests
        BY <1>1, <2>2 DEF ConvertEnds
      <3>3. GitTypeOK'
        BY <1>3, <3>1, <3>2, CallTyped DEF Operators
      <3>4. call'[o].pc # "idle"
        BY <1>3, <3>1 DEF Call, FirstStep, GitTypeOK, Operators
      <3>5. \A q \in Operators : q # o => call'[q] = call[q]
        BY <1>3, <3>1 DEF Call, GitTypeOK, Operators
      <3> QED
        BY <2>2, <3>3, <3>4, <3>5
    <2> QED
      BY <1>1, <2>1, <2>2 DEF ConvertEnds
  <1>5. \A q \in Operators :
          /\ worker'[q].pc \in Reconciling =>
               worker'[q].req \in Requests /\ worker'[q].obj.exists /\ worker'[q].obj.spec \in UserSpecs
          /\ call'[q].pc # "idle" <=> worker'[q].pc = "publish"
    <2> SUFFICES ASSUME NEW q \in Operators
                 PROVE  /\ worker'[q].pc \in Reconciling =>
                             worker'[q].req \in Requests /\ worker'[q].obj.exists /\ worker'[q].obj.spec \in UserSpecs
                        /\ call'[q].pc # "idle" <=> worker'[q].pc = "publish"
      OBVIOUS
    <2>1. CASE q = o
      BY <1>1, <1>3, <1>4, <2>1 DEF ConvertEnds
    <2>2. CASE q # o
      BY <1>1, <1>4, <2>2 DEF OperatorTypeInv
    <2> QED
      BY <2>1, <2>2
  <1> QED
    BY <1>1, <1>2, <1>4, <1>5 DEF OperatorTypeInv, TypeOK, WorkerState

\* No step of CreateMigrationPR starts or drops a call, or changes its arguments.
LEMMA PublishingKeepsCalls ==
  ASSUME GitTypeOK, NEW c \in Callers, Publishing(c)
  PROVE  /\ call[c].pc # "idle" /\ call'[c].pc # "idle"
         /\ call'[c].manifest = call[c].manifest
         /\ call'[c].branch = call[c].branch
         /\ \A d \in Callers : d # c => call'[d] = call[d]
  <1>1. ASSUME NEW p \in CallPC \ {"idle"}, Goto(c, p), call[c].pc # "idle"
        PROVE  /\ call[c].pc # "idle" /\ call'[c].pc # "idle"
               /\ call'[c].manifest = call[c].manifest
               /\ call'[c].branch = call[c].branch
               /\ \A d \in Callers : d # c => call'[d] = call[d]
    BY <1>1, GotoMoves
  <1>2. {"failed", "write_body", "dry_run", "create_file", "create_pull", "opened"} \subseteq CallPC \ {"idle"}
    BY DEF CallPC, GitHubSteps, Results
  <1>3. CASE GetRef(c) /\ ~Goto(c, "failed")
    BY <1>3 DEF GetRef, GitTypeOK
  <1>4. CASE call[c].pc # "idle" /\ \E p \in CallPC \ {"idle"} : Goto(c, p)
    BY <1>1, <1>4
  <1>5. Publishing(c) =>
          \/ GetRef(c) /\ ~Goto(c, "failed")
          \/ call[c].pc # "idle" /\ \E p \in CallPC \ {"idle"} : Goto(c, p)
    BY <1>2 DEF Publishing, WriteManifest, AfterManifest, WriteBody, DiskFails, GetRef, CreateRef, CreateFile,
                CreatePull, RequestLost, Answer, GitHubSteps
  <1> QED
    BY <1>3, <1>4, <1>5

LEMMA PublishTyped ==
  ASSUME OperatorTypeInv, NEW o \in Operators, Publish(o)
  PROVE  OperatorTypeInv'
  <1>1. Publishing(o) /\ GitTypeOK /\ o \in Callers
    BY DEF Publish, OperatorTypeInv, TypeOK, Operators
  <1>2. GitTypeOK'
    BY <1>1, PublishingTyped
  <1>3. \A q \in Operators : call'[q].pc # "idle" <=> call[q].pc # "idle"
    BY <1>1, PublishingKeepsCalls DEF Operators
  <1> QED
    BY <1>2, <1>3 DEF Publish, OperatorTypeInv, TypeOK, apiVars, replicaVars

LEMMA PublishedTyped ==
  ASSUME OperatorTypeInv, NEW o \in Operators, Published(o)
  PROVE  OperatorTypeInv'
  <1>1. /\ worker' \in [Operators -> WorkerState]
        /\ \A q \in Operators : q # o => worker'[q] = worker[q]
        /\ PublishedEnds(o)
    BY PublishedMoves
  <1>2. UNCHANGED <<mreq, ingress, asked, cache, ingCache, queue, crashes>>
    BY DEF Published, apiVars
  <1>3. worker[o].req \in Requests /\ worker[o].obj.exists /\ worker[o].obj.spec \in UserSpecs
    BY DEF Published, OperatorTypeInv, Reconciling
  <1>4. GitTypeOK'
    BY ResetTyped DEF Published, Return, OperatorTypeInv, TypeOK, Operators
  <1>5. /\ call'[o].pc = "idle"
        /\ \A q \in Operators : q # o => call'[q] = call[q]
    BY DEF Published, Return, OperatorTypeInv, TypeOK, GitTypeOK, NoCall, Operators
  <1>6. \A q \in Operators :
          /\ worker'[q].pc \in Reconciling =>
               worker'[q].req \in Requests /\ worker'[q].obj.exists /\ worker'[q].obj.spec \in UserSpecs
          /\ call'[q].pc # "idle" <=> worker'[q].pc = "publish"
    <2> TAKE q \in Operators
    <2>1. CASE q = o
      <3>1. worker'[o].req \in Requests /\ worker'[o].obj.exists /\ worker'[o].obj.spec \in UserSpecs
        BY <1>1, <1>3 DEF PublishedEnds
      <3>2. worker'[o].pc # "publish"
        BY <1>1 DEF PublishedEnds
      <3> QED
        BY <1>5, <2>1, <3>1, <3>2
    <2>2. CASE q # o
      <3>1. worker'[q] = worker[q] /\ call'[q] = call[q]
        BY <1>1, <1>5, <2>2
      <3> QED
        BY <3>1 DEF OperatorTypeInv
    <2> QED
      BY <2>1, <2>2
  <1> QED
    BY <1>1, <1>2, <1>4, <1>6 DEF OperatorTypeInv, TypeOK, WorkerState

\* The worker puts its request aside, or back into the queue.
LEMMA DoneMoves ==
  ASSUME TypeOK, NEW o \in Operators, NEW error, Done(o, error), worker[o].req \in Requests
  PROVE  /\ worker' \in [Operators -> WorkerState]
         /\ worker'[o].pc = "idle"
         /\ \A q \in Operators : q # o => worker'[q] = worker[q]
         /\ queue' \in [Operators -> SUBSET Requests]
  <1>1. NoWork("idle") \in WorkerState /\ NoWork("idle").pc = "idle"
    BY NoWorkTyped DEF WorkerPC, NoWork
  <1>2. worker' = [worker EXCEPT ![o] = NoWork("idle")]
    BY DEF Done
  <1>3. queue' \in [Operators -> SUBSET Requests]
    BY DEF Done, TypeOK
  <1> QED
    BY <1>1, <1>2, <1>3 DEF TypeOK, WorkerState

\* Written replaces the status, and counts the revision if that changed it.
LEMMA WrittenMoves ==
  ASSUME NEW x \in Object, NEW st \in Status
  PROVE  /\ Written(x, st) \in Object
         /\ Written(x, st).status = st
         /\ Written(x, st).exists = x.exists
         /\ Written(x, st).spec = x.spec
         /\ Written(x, st) = x \/ Written(x, st).rv = x.rv + 1
  <1>1. CASE x.status = st
    BY <1>1 DEF Written
  <1>2. CASE x.status # st
    <2> DEFINE y == [x EXCEPT !.status = st, !.rv = x.rv + 1]
    <2>1. ASSUME NEW n \in Nat
          PROVE  LET z == [x EXCEPT !.status = st, !.rv = n]
                 IN  /\ z \in Object
                     /\ z.status = st /\ z.exists = x.exists /\ z.spec = x.spec /\ z.rv = n
      BY DEF Object
    <2>2. x.rv + 1 \in Nat
      BY DEF Object
    <2>3. /\ y \in Object
          /\ y.status = st /\ y.exists = x.exists /\ y.spec = x.spec /\ y.rv = x.rv + 1
      BY <2>1, <2>2
    <2>4. Written(x, st) = y
      BY <1>2 DEF Written
    <2> HIDE DEF y
    <2> QED
      BY <2>3, <2>4
  <1> QED
    BY <1>1, <1>2

LEMMA UpdateTyped ==
  ASSUME OperatorTypeInv, NEW o \in Operators, UpdateStatus(o) \/ UpdateFails(o)
  PROVE  OperatorTypeInv'
  <1> DEFINE r == worker[o].req
  <1>1. /\ TypeOK
        /\ worker[o].pc \in {"update", "fail"}
        /\ r \in Requests
        /\ worker[o].obj.status \in Status
    BY DEF UpdateStatus, WriteStatus, UpdateFails, OperatorTypeInv, TypeOK, Reconciling, Object
  <1>2. GitTypeOK'
    BY GitTypeUnchanged DEF UpdateStatus, WriteStatus, UpdateFails, OperatorTypeInv, TypeOK
  <1>3. UNCHANGED <<ingress, asked, cache, ingCache, crashes, call>>
    BY DEF UpdateStatus, WriteStatus, UpdateFails, gitVars, apiVars
  <1>4. \E error \in BOOLEAN : Done(o, error)
    BY GitOpsAssumption DEF UpdateStatus, WriteStatus, UpdateFails
  <1>5. /\ worker' \in [Operators -> WorkerState]
        /\ worker'[o].pc = "idle"
        /\ \A q \in Operators : q # o => worker'[q] = worker[q]
        /\ queue' \in [Operators -> SUBSET Requests]
    BY <1>1, <1>4, DoneMoves
  <1>6. /\ mreq' \in [Requests -> Object]
        /\ \A p \in Requests : mreq'[p].exists => mreq'[p].spec \in UserSpecs
    <2>1. CASE UpdateStatus(o)
      <3> DEFINE x == Written(mreq[r], worker[o].obj.status)
      <3>1. x \in Object /\ x.exists = mreq[r].exists /\ x.spec = mreq[r].spec
        BY <1>1, WrittenMoves DEF TypeOK
      <3>2. mreq' = [mreq EXCEPT ![r] = x]
        BY <2>1 DEF UpdateStatus, WriteStatus
      <3> HIDE DEF x
      <3> QED
        BY <1>1, <3>1, <3>2 DEF OperatorTypeInv, TypeOK
    <2>2. CASE UpdateFails(o)
      BY <2>2 DEF UpdateFails, apiVars, OperatorTypeInv, TypeOK
    <2> QED
      BY <2>1, <2>2
  <1>7. \A q \in Operators :
          /\ worker'[q].pc \in Reconciling =>
               worker'[q].req \in Requests /\ worker'[q].obj.exists /\ worker'[q].obj.spec \in UserSpecs
          /\ call'[q].pc # "idle" <=> worker'[q].pc = "publish"
    BY <1>1, <1>3, <1>5 DEF OperatorTypeInv, Reconciling
  <1> QED
    BY <1>2, <1>3, <1>5, <1>6, <1>7 DEF OperatorTypeInv, TypeOK, WorkerState

LEMMA OperatorNextTyped ==
  ASSUME OperatorTypeInv, [Next]_vars
  PROVE  OperatorTypeInv'
  <1>1. CASE User
    BY <1>1, ApplyTyped, DeleteTyped, IngressTyped DEF User
  <1>2. CASE Repository
    <2>1. GitTypeOK'
      BY <1>2, EnvironmentTyped DEF Repository, OperatorTypeInv, TypeOK
    <2>2. call' = call
      BY <1>2 DEF Repository, Environment, Tick, Merge, ClosePull
    <2> QED
      BY <1>2, <2>1, <2>2 DEF Repository, OperatorTypeInv, TypeOK, apiVars, replicaVars
  <1>3. ASSUME NEW o \in Operators, Replica(o) PROVE OperatorTypeInv'
    BY <1>3, StartTyped, ReplicaCrashTyped, InformersTyped, BeginTyped, ConvertTyped, PublishTyped,
       PublishedTyped, UpdateTyped DEF Replica, Reconcile
  <1>4. CASE UNCHANGED vars
    <2>1. GitTypeOK'
      BY <1>4, GitTypeUnchanged DEF vars, OperatorTypeInv, TypeOK
    <2> QED
      BY <1>4, <2>1 DEF vars, gitVars, apiVars, replicaVars, OperatorTypeInv, TypeOK
  <1> QED
    BY <1>1, <1>2, <1>3, <1>4 DEF Next

\* Every state of the operator has its types, and objects that exist have a spec.
THEOREM OperatorTypeCorrect == Spec => []TypeOK
  <1>1. OperatorTypeInv /\ [Next]_vars => OperatorTypeInv'
    BY OperatorNextTyped
  <1>2. OperatorTypeInv => TypeOK
    BY DEF OperatorTypeInv
  <1> QED
    BY OperatorInitTyped, <1>1, <1>2, PTL DEF Spec

-----------------------------------------------------------------------------
(***************************************************************************)
(* To the repository a replica is a caller like any other.                 *)
(***************************************************************************)
LEMMA GitInvUnchanged ==
  ASSUME GitInv, UNCHANGED gitVars
  PROVE  GitInv'
  BY DEF gitVars, GitInv, GitTypeOK, OneCallPerBranch, HoldsBranch

LEMMA OperatorGitInv ==
  ASSUME OperatorTypeInv, GitInv, [Next]_vars
  PROVE  GitInv'
  <1>1. GitTypeOK'
    BY OperatorNextTyped DEF OperatorTypeInv, TypeOK
  <1>2. CASE UNCHANGED gitVars
    BY <1>2, GitInvUnchanged
  <1>3. CASE Repository
    BY <1>3, EnvironmentInv DEF Repository
  <1>4. ASSUME NEW o \in Operators, Replica(o) PROVE GitInv'
    <2>1. CASE Convert(o)
      <3>1. CASE worker'[o].pc = "publish"
        <4>1. ConvertEnds(o)
          BY <2>1, ConvertMoves
        <4>2. PICK n \in Names : Call(o, n, worker'[o].obj.status.audit, FALSE, worker[o].obj.spec.repo)
          BY <3>1, <4>1 DEF ConvertEnds
        <4>3. worker'[o].obj.status.audit \in Manifests
          BY <3>1, <4>1 DEF ConvertEnds
        <4> QED
          BY <4>2, <4>3, CallInv DEF Operators
      <3>2. CASE worker'[o].pc # "publish"
        BY <1>2, <2>1, <3>2, ConvertMoves DEF ConvertEnds
      <3> QED
        BY <3>1, <3>2
    <2>2. CASE Publish(o)
      BY <2>2, PublishingInv DEF Publish, Operators
    <2>3. CASE Published(o)
      BY <1>1, <2>3, ResetInv DEF Published, Return, Operators
    <2>4. CASE ReplicaCrash(o)
      BY <1>1, <2>4, ResetInv DEF ReplicaCrash, Operators
    <2>5. \/ Convert(o) \/ Publish(o) \/ Published(o) \/ ReplicaCrash(o)
          \/ UNCHANGED gitVars
      BY <1>4 DEF Replica, Reconcile, Start, Deliver, Resync, DeliverIngress, Begin, UpdateStatus,
                  WriteStatus, UpdateFails
    <2> QED
      BY <1>2, <2>1, <2>2, <2>3, <2>4, <2>5
  <1>5. User \/ UNCHANGED vars => UNCHANGED gitVars
    BY DEF User, Apply, Delete, ApplyIngress, DeleteIngress, vars
  <1> QED
    BY <1>2, <1>3, <1>4, <1>5 DEF Next

(***************************************************************************)
(* What only grows: besides pull requests, which keep their text, what was *)
(* asked stays asked, and an object that changes gets a higher             *)
(* resourceVersion.                                                        *)
(***************************************************************************)
RevisionsGrow == \A r \in Requests : mreq'[r] = mreq[r] \/ mreq'[r].rv > mreq[r].rv

Onward == PullsKeepTheirText /\ RevisionsGrow /\ asked \subseteq asked'

\* An object changes by a user's hand or by a status update only.
LEMMA ObjectWriters ==
  ASSUME OperatorTypeInv, [Next]_vars, NEW r \in Requests, mreq'[r] # mreq[r]
  PROVE  \/ \E s \in UserSpecs : Apply(r, s)
         \/ Delete(r)
         \/ \E o \in Operators : UpdateStatus(o) /\ worker[o].req = r
  <1>0. mreq \in [Requests -> Object]
    BY DEF OperatorTypeInv, TypeOK
  <1>1. ASSUME NEW q \in Requests, (\E s \in UserSpecs : Apply(q, s)) \/ Delete(q)
        PROVE  q = r
    BY <1>0, <1>1 DEF Apply, Delete
  <1>2. ASSUME NEW o \in Operators, UpdateStatus(o)
        PROVE  worker[o].req = r
    BY <1>0, <1>2 DEF UpdateStatus, WriteStatus
  <1>3. ASSUME NEW o \in Operators, Replica(o) PROVE UpdateStatus(o)
    BY <1>3 DEF Replica, Reconcile, Start, ReplicaCrash, Deliver, Resync, DeliverIngress, Begin, Convert,
                Publish, Published, UpdateFails, apiVars, replicaVars
  <1> QED
    BY <1>1, <1>2, <1>3 DEF Next, User, ApplyIngress, DeleteIngress, Repository, vars, apiVars

LEMMA OperatorOnward ==
  ASSUME OperatorTypeInv, GitInv, [Next]_vars
  PROVE  Onward
  <1>1. PullsKeepTheirText
    <2>1. CASE UNCHANGED <<content, pulls>>
      BY <2>1 DEF PullsKeepTheirText
    <2>2. CASE Repository
      BY <2>2, EnvironmentKeepsText DEF Repository
    <2>3. ASSUME NEW o \in Operators, Replica(o) PROVE PullsKeepTheirText
      <3>1. CASE Publish(o)
        BY <3>1, PublishingKeepsText DEF Publish, Operators
      <3>2. Publish(o) \/ UNCHANGED <<content, pulls>>
        BY <2>3 DEF Replica, Reconcile, Start, ReplicaCrash, Deliver, Resync, DeliverIngress, Begin, Convert,
                    Published, UpdateStatus, WriteStatus, UpdateFails, Call, Return, gitVars, repoVars
      <3> QED
        BY <2>1, <3>1, <3>2
    <2>4. User \/ UNCHANGED vars => UNCHANGED <<content, pulls>>
      BY DEF User, Apply, Delete, ApplyIngress, DeleteIngress, vars, gitVars
    <2> QED
      BY <2>1, <2>2, <2>3, <2>4 DEF Next
  <1>2. RevisionsGrow
    <2> SUFFICES ASSUME NEW r \in Requests, mreq'[r] # mreq[r]
                 PROVE  mreq'[r].rv > mreq[r].rv
      BY DEF RevisionsGrow
    <2>0. mreq \in [Requests -> Object] /\ mreq[r].rv \in Nat
      BY DEF OperatorTypeInv, TypeOK, Object
    <2>1. ASSUME NEW s \in UserSpecs, Apply(r, s) PROVE mreq'[r].rv = mreq[r].rv + 1
      BY <2>0, <2>1 DEF Apply
    <2>2. CASE Delete(r)
      BY <2>0, <2>2 DEF Delete
    <2>3. ASSUME NEW o \in Operators, UpdateStatus(o), worker[o].req = r PROVE mreq'[r].rv = mreq[r].rv + 1
      <3> DEFINE x == Written(mreq[r], worker[o].obj.status)
      <3>1. mreq' = [mreq EXCEPT ![r] = x] /\ worker[o].obj.status \in Status
        BY <2>3 DEF UpdateStatus, WriteStatus, OperatorTypeInv, TypeOK, Object
      <3>2. x = mreq[r] \/ x.rv = mreq[r].rv + 1
        BY <2>0, <3>1, WrittenMoves
      <3> HIDE DEF x
      <3> QED
        BY <2>0, <3>1, <3>2
    <2> QED
      BY <2>0, <2>1, <2>2, <2>3, ObjectWriters
  <1>3. asked \subseteq asked'
    BY DEF Next, User, Apply, Delete, ApplyIngress, DeleteIngress, Repository, Replica, Reconcile, Start,
           ReplicaCrash, Deliver, Resync, DeliverIngress, Begin, Convert, Publish, Published, UpdateStatus, WriteStatus,
           UpdateFails, apiVars, vars
  <1> QED
    BY <1>1, <1>2, <1>3 DEF Onward

-----------------------------------------------------------------------------
(***************************************************************************)
(* Copies of objects, and the Reconciles in progress.  A step leaves alone *)
(* what it does not touch.                                                 *)
(***************************************************************************)
CopyAfter(r, x) ==
  /\ x.exists /\ AsksForPull(x.spec) => Asking(r, x.spec) \in asked'
  /\ x.status.phase = "PRCreated" =>
       /\ x.status.url \in Branch
       /\ pulls'[x.status.url] # "none"
       /\ content'[x.status.url] = x.status.audit
  /\ x.rv <= mreq'[r].rv
  /\ x.rv = mreq'[r].rv => x = mreq'[r]

LEMMA CopyStays ==
  ASSUME Onward, NEW r \in Requests, mreq[r] \in Object, mreq'[r] \in Object,
         NEW x \in Object, IsCopy(r, x)
  PROVE  CopyAfter(r, x)
  <1>1. x.rv \in Nat /\ mreq[r].rv \in Nat /\ mreq'[r].rv \in Nat
    BY DEF Object
  <1> QED
    BY <1>1 DEF Onward, PullsKeepTheirText, RevisionsGrow, IsCopy, IsAsked, PullHolds, CopyAfter

LEMMA WorkStays ==
  ASSUME OperatorTypeInv, OperatorTypeInv', Onward, NEW o \in Operators, IsWork(o),
         worker[o].pc \in Reconciling, worker'[o] = worker[o], call'[o].manifest = call[o].manifest
  PROVE  IsWork(o)'
  <1> DEFINE r == worker[o].req
             x == worker[o].obj
  <1>1. r \in Requests /\ x \in Object
    BY DEF OperatorTypeInv, TypeOK
  <1>2. x.rv \in Nat /\ mreq[r].rv \in Nat /\ mreq'[r].rv \in Nat
    BY <1>1 DEF OperatorTypeInv, TypeOK, Object
  <1>3. PullHolds(x.status) => PullHolds(x.status)'
    BY DEF Onward, PullsKeepTheirText, PullHolds
  <1>4. IsAsked(r, x) => IsAsked(r, x)'
    BY DEF Onward, IsAsked
  <1>5. CASE mreq'[r] = mreq[r]
    BY <1>3, <1>4, <1>5 DEF IsWork, SpeaksFor
  <1>6. CASE mreq'[r].rv > mreq[r].rv
    <2>1. x.rv < mreq'[r].rv
      BY <1>2, <1>6 DEF IsWork
    <2> QED
      BY <1>2, <1>3, <1>4, <2>1 DEF IsWork, SpeaksFor
  <1> QED
    BY <1>1, <1>5, <1>6 DEF Onward, RevisionsGrow

\* Every write to the API server leaves objects that ask what was asked and
\* report what is true.
LEMMA ObjectsStayTrue ==
  ASSUME OperatorInv, OperatorTypeInv', Onward, [Next]_vars
  PROVE  \A r \in Requests : IsCopy(r, mreq[r])'
  <1>a. \A r \in Requests : mreq'[r].rv \in Nat
    BY DEF OperatorTypeInv, TypeOK, Object
  <1> SUFFICES ASSUME NEW r \in Requests
               PROVE  IsAsked(r, mreq[r])' /\ PullHolds(mreq[r].status)'
    BY <1>a DEF IsCopy
  <1>0. OperatorTypeInv /\ TypeOK /\ mreq \in [Requests -> Object]
    BY DEF OperatorInv, OperatorTypeInv, TypeOK
  <1>1. IsAsked(r, mreq[r]) /\ PullHolds(mreq[r].status)
    BY DEF OperatorInv, IsCopy
  <1>2. CASE mreq'[r] = mreq[r]
    BY <1>1, <1>2 DEF Onward, PullsKeepTheirText, IsAsked, PullHolds
  <1>3. ASSUME NEW s \in UserSpecs, Apply(r, s)
        PROVE  IsAsked(r, mreq[r])' /\ PullHolds(mreq[r].status)'
    <2>1. mreq'[r].spec = s /\ mreq'[r].status = mreq[r].status
      BY <1>0, <1>3 DEF Apply
    <2>2. UNCHANGED <<pulls, content>>
      BY <1>3 DEF Apply, gitVars
    <2>3. AsksForPull(s) => Asking(r, s) \in asked'
      BY <1>3 DEF Apply
    <2> QED
      BY <1>1, <2>1, <2>2, <2>3 DEF IsAsked, PullHolds
  <1>4. ASSUME Delete(r)
        PROVE  IsAsked(r, mreq[r])' /\ PullHolds(mreq[r].status)'
    <2> DEFINE x == [exists |-> FALSE, gen |-> mreq[r].gen + 1, rv |-> mreq[r].rv + 1,
                   spec |-> None, status |-> NoStatus]
    <2>1. x.exists = FALSE /\ x.status.phase = ""
      BY DEF NoStatus
    <2>2. mreq' = [mreq EXCEPT ![r] = x]
      BY <1>4 DEF Delete
    <2> HIDE DEF x
    <2>3. mreq'[r] = x
      BY <1>0, <2>2
    <2> QED
      BY <2>1, <2>3 DEF IsAsked, PullHolds
  <1>5. ASSUME NEW o \in Operators, UpdateStatus(o), worker[o].req = r
        PROVE  IsAsked(r, mreq[r])' /\ PullHolds(mreq[r].status)'
    <2> DEFINE st == worker[o].obj.status
               x  == Written(mreq[r], st)
    <2>1. worker[o].pc \in {"update", "fail"} /\ worker[o].pc \in Reconciling
      BY <1>5 DEF UpdateStatus, WriteStatus, Reconciling
    <2>2. st \in Status
      BY <1>0 DEF TypeOK, Object
    <2>3. PullHolds(st)
      BY <2>1 DEF OperatorInv, IsWork, PullHolds
    <2>4. x.exists = mreq[r].exists /\ x.spec = mreq[r].spec /\ x.status = st
      BY <1>0, <2>2, WrittenMoves
    <2>5. mreq' = [mreq EXCEPT ![r] = x] /\ UNCHANGED <<asked, pulls, content>>
      BY <1>5 DEF UpdateStatus, WriteStatus, gitVars
    <2> HIDE DEF x, st
    <2>6. mreq'[r] = x
      BY <1>0, <2>5
    <2> QED
      BY <1>1, <2>3, <2>4, <2>5, <2>6 DEF IsAsked, PullHolds
  <1> QED
    BY <1>0, <1>2, <1>3, <1>4, <1>5, ObjectWriters

\* A copy in a cache stays or becomes the object of that moment.
LEMMA CachesFollow ==
  ASSUME OperatorTypeInv, [Next]_vars, NEW o \in Operators, NEW r \in Requests
  PROVE  cache'[o][r] = cache[o][r] \/ cache'[o][r] = mreq[r]
  <1>0. cache \in [Operators -> [Requests -> Object]]
    BY DEF OperatorTypeInv, TypeOK
  <1>1. ASSUME NEW q \in Operators, Start(q) PROVE cache'[o][r] = cache[o][r] \/ cache'[o][r] = mreq[r]
    BY <1>0, <1>1 DEF Start
  <1>2. ASSUME NEW q \in Operators, NEW p \in Requests, Deliver(q, p)
        PROVE  cache'[o][r] = cache[o][r] \/ cache'[o][r] = mreq[r]
    BY <1>0, <1>2 DEF Deliver
  <1>3. ASSUME NEW q \in Operators, Replica(q)
        PROVE  Start(q) \/ (\E p \in Requests : Deliver(q, p)) \/ cache' = cache
    BY <1>3 DEF Replica, Reconcile, ReplicaCrash, Resync, DeliverIngress, Begin, Convert,
                Publish, Published, UpdateStatus, WriteStatus, UpdateFails, replicaVars
  <1>4. User \/ Repository \/ UNCHANGED vars => cache' = cache
    BY DEF User, Apply, Delete, ApplyIngress, DeleteIngress, Repository, vars, replicaVars
  <1> QED
    BY <1>1, <1>2, <1>3, <1>4 DEF Next

LEMMA CachesStayCopies ==
  ASSUME OperatorInv, OperatorTypeInv', Onward, [Next]_vars
  PROVE  \A o \in Operators, r \in Requests : IsCopy(r, cache[o][r])'
  <1> SUFFICES ASSUME NEW o \in Operators, NEW r \in Requests
               PROVE  IsCopy(r, cache[o][r])'
    OBVIOUS
  <1>1. /\ mreq[r] \in Object /\ mreq'[r] \in Object /\ cache[o][r] \in Object
    BY DEF OperatorInv, OperatorTypeInv, TypeOK
  <1>2. cache'[o][r] = cache[o][r] \/ cache'[o][r] = mreq[r]
    BY CachesFollow DEF OperatorInv
  <1>3. CopyAfter(r, cache[o][r]) /\ CopyAfter(r, mreq[r])
    BY <1>1, CopyStays DEF OperatorInv
  <1> QED
    BY <1>2, <1>3 DEF CopyAfter, IsCopy, IsAsked, PullHolds

\* A Reconcile begins with a copy, whatever it is a copy of.
LEMMA BeginIsWork ==
  ASSUME OperatorInv, OperatorTypeInv', NEW o \in Operators, NEW r \in Requests, Begin(o, r),
         cache[o][r].exists
  PROVE  IsWork(o)'
  <1> DEFINE x == cache[o][r]
  <1>1. worker' = [worker EXCEPT ![o] = [pc |-> "convert", req |-> r, obj |-> x]]
    BY DEF Begin
  <1>2. worker'[o] = [pc |-> "convert", req |-> r, obj |-> x]
    BY <1>1 DEF OperatorInv, OperatorTypeInv, TypeOK
  <1>3. IsCopy(r, x)
    BY DEF OperatorInv
  <1>4. UNCHANGED <<mreq, asked, pulls, content>>
    BY DEF Begin, gitVars, apiVars
  <1> HIDE DEF x
  <1> QED
    BY <1>2, <1>3, <1>4 DEF IsWork, IsCopy, IsAsked, PullHolds

LEMMA ConvertIsWork ==
  ASSUME OperatorInv, OperatorTypeInv', NEW o \in Operators, Convert(o)
  PROVE  IsWork(o)'
  <1>1. ConvertEnds(o) /\ UNCHANGED <<mreq, asked>>
    BY ConvertMoves DEF OperatorInv, Convert, apiVars
  <1>2. worker[o].pc = "convert" /\ IsWork(o)
    BY DEF Convert, OperatorInv, Reconciling
  <1>3. CASE worker'[o].pc = "fail"
    BY <1>1, <1>2, <1>3 DEF ConvertEnds, IsWork, IsAsked
  <1>4. CASE worker'[o].pc = "update"
    BY <1>1, <1>2, <1>4 DEF ConvertEnds, IsWork, IsAsked, SpeaksFor, PullHolds
  <1>5. CASE worker'[o].pc = "publish"
    <2>1. call'[o].manifest = worker'[o].obj.status.audit
      <3>1. \E n \in Names : Call(o, n, worker'[o].obj.status.audit, FALSE, worker[o].obj.spec.repo)
        BY <1>1, <1>5 DEF ConvertEnds
      <3>2. o \in DOMAIN call
        BY DEF OperatorInv, GitInv, GitTypeOK, Operators
      <3> QED
        BY <3>1, <3>2 DEF Call
    <2> QED
      BY <1>1, <1>2, <1>5, <2>1 DEF ConvertEnds, IsWork, IsAsked
  <1> QED
    BY <1>1, <1>3, <1>4, <1>5 DEF ConvertEnds

LEMMA PublishedIsWork ==
  ASSUME OperatorInv, OperatorTypeInv', NEW o \in Operators, Published(o)
  PROVE  IsWork(o)'
  <1>1. PublishedEnds(o) /\ UNCHANGED <<mreq, asked, pulls, content>>
    BY PublishedMoves DEF OperatorInv, Published, Return, repoVars, apiVars
  <1>2. worker[o].pc = "publish" /\ IsWork(o) /\ call[o].pc # "idle"
    BY DEF Published, OperatorInv, OperatorTypeInv, Reconciling
  <1>3. call[o].branch \in Branch /\ call[o].manifest \in Manifests
    BY <1>2 DEF OperatorInv, OperatorTypeInv, TypeOK, GitTypeOK, Operators
  <1>4. CASE call[o].pc = "opened" /\ worker'[o].pc = "update"
    <2>1. pulls[call[o].branch] # "none" /\ content[call[o].branch] = call[o].manifest
      BY <1>4 DEF OperatorInv, GitInv, Operators
    <2> QED
      BY <1>1, <1>2, <1>3, <1>4, <2>1 DEF PublishedEnds, IsWork, IsAsked, SpeaksFor, PullHolds
  <1>5. CASE call[o].pc = "dry_run" /\ worker'[o].pc = "update"
    BY <1>1, <1>2, <1>3, <1>5 DEF PublishedEnds, IsWork, IsAsked, SpeaksFor, PullHolds
  <1>6. CASE worker'[o].pc = "fail"
    BY <1>1, <1>2, <1>3, <1>6 DEF PublishedEnds, IsWork, IsAsked
  <1> QED
    BY <1>1, <1>4, <1>5, <1>6 DEF PublishedEnds

\* What a step does to o's Reconcile: nothing, or it begins, converts, takes the
\* result of its call, or is over.
LEMMA WorkerMoves ==
  ASSUME OperatorTypeInv, [Next]_vars, NEW o \in Operators
  PROVE  \/ /\ worker'[o] = worker[o]
            /\ call'[o].manifest = call[o].manifest /\ call'[o].branch = call[o].branch
         \/ \E r \in Requests : Begin(o, r) /\ cache[o][r].exists
         \/ Convert(o)
         \/ Published(o)
         \/ worker'[o].pc \in {"idle", "down"}
  <1>0. TypeOK /\ GitTypeOK /\ worker \in [Operators -> WorkerState]
    BY DEF OperatorTypeInv, TypeOK, WorkerState
  <1>1. CASE Replica(o)
    <2>1. ASSUME NEW r \in Requests, Begin(o, r), ~cache[o][r].exists PROVE UNCHANGED <<worker, call>>
      BY <2>1 DEF Begin, gitVars
    <2>2. CASE Publish(o)
      BY <1>0, <2>2, PublishingKeepsCalls DEF Publish, Operators, replicaVars
    <2>3. CASE Start(o) \/ ReplicaCrash(o) \/ UpdateStatus(o) \/ UpdateFails(o)
      <3>1. worker' = [worker EXCEPT ![o] = NoWork("idle")] \/ worker' = [worker EXCEPT ![o] = NoWork("down")]
        BY <2>3 DEF Start, ReplicaCrash, UpdateStatus, WriteStatus, UpdateFails, Done
      <3> QED
        BY <1>0, <3>1 DEF NoWork
    <2>4. \/ Start(o) \/ ReplicaCrash(o) \/ Convert(o) \/ Publish(o) \/ Published(o)
          \/ UpdateStatus(o) \/ UpdateFails(o) \/ \E r \in Requests : Begin(o, r)
          \/ UNCHANGED <<worker, call>>
      BY <1>1 DEF Replica, Reconcile, Deliver, Resync, DeliverIngress, gitVars
    <2> QED
      BY <2>1, <2>2, <2>3, <2>4
  <1>2. ASSUME NEW q \in Operators, q # o, Replica(q) PROVE worker'[o] = worker[o] /\ call'[o] = call[o]
    <2>1. worker'[o] = worker[o]
      <3>1. CASE Convert(q)
        BY <1>2, <3>1, ConvertMoves
      <3>2. CASE Published(q)
        BY <1>2, <3>2, PublishedMoves
      <3>3. CASE \E w : worker' = [worker EXCEPT ![q] = w]
        BY <1>0, <1>2, <3>3
      <3>4. Convert(q) \/ Published(q) \/ worker' = worker \/ \E w : worker' = [worker EXCEPT ![q] = w]
        BY <1>2 DEF Replica, Reconcile, Start, ReplicaCrash, Deliver, Resync, DeliverIngress, Begin, Publish,
                    UpdateStatus, WriteStatus, UpdateFails, Done, replicaVars
      <3> QED
        BY <3>1, <3>2, <3>3, <3>4
    <2>2. call'[o] = call[o]
      <3>1. CASE Publish(q)
        BY <1>0, <1>2, <3>1, PublishingKeepsCalls DEF Publish, Operators
      <3>2. CASE \E w : call' = [call EXCEPT ![q] = w]
        BY <1>0, <1>2, <3>2 DEF GitTypeOK, Operators
      <3>3. Publish(q) \/ call' = call \/ \E w : call' = [call EXCEPT ![q] = w]
        BY <1>2 DEF Replica, Reconcile, Start, ReplicaCrash, Deliver, Resync, DeliverIngress, Begin, Convert,
                    Published, UpdateStatus, WriteStatus, UpdateFails, Call, Return, gitVars
      <3> QED
        BY <3>1, <3>2, <3>3
    <2> QED
      BY <2>1, <2>2
  <1>3. User \/ Repository \/ UNCHANGED vars => UNCHANGED <<worker, call>>
    BY DEF User, Apply, Delete, ApplyIngress, DeleteIngress, Repository, Environment, Tick, Merge, ClosePull,
           vars, gitVars, replicaVars
  <1> QED
    BY <1>1, <1>2, <1>3 DEF Next

LEMMA WorkStaysTrue ==
  ASSUME OperatorInv, OperatorTypeInv', Onward, [Next]_vars
  PROVE  \A o \in Operators : worker'[o].pc \in Reconciling => IsWork(o)'
  <1> SUFFICES ASSUME NEW o \in Operators, worker'[o].pc \in Reconciling
               PROVE  IsWork(o)'
    OBVIOUS
  <1>1. OperatorTypeInv /\ (worker[o].pc \in Reconciling => IsWork(o))
    BY DEF OperatorInv
  <1>2. worker'[o].pc \notin {"idle", "down"}
    BY DEF Reconciling
  <1> QED
    BY <1>1, <1>2, WorkerMoves, WorkStays, BeginIsWork, ConvertIsWork, PublishedIsWork

\* Only the last call to GitHub opens a pull request, with the caller's manifest.
LEMMA PublishingOpensItsOwn ==
  ASSUME GitInv, NEW c \in Callers, Publishing(c), NEW b \in Branch, pulls'[b] # "none"
  PROVE  pulls[b] # "none" \/ content'[b] = call[c].manifest
  <1>1. CASE CreatePull(c)
    <2>1. pulls' = [pulls EXCEPT ![call[c].branch] = "open"] /\ content' = content
      BY <1>1 DEF CreatePull
    <2>2. content[call[c].branch] = call[c].manifest
      BY <1>1 DEF CreatePull, GitInv
    <2> QED
      BY <2>1, <2>2 DEF GitInv, GitTypeOK
  <1>2. CreatePull(c) \/ pulls' = pulls
    BY DEF Publishing, WriteManifest, WriteBody, DiskFails, GetRef, CreateRef, CreateFile, RequestLost, repoVars
  <1> QED
    BY <1>1, <1>2

LEMMA PullsStayAsked ==
  ASSUME OperatorInv, Onward, [Next]_vars
  PROVE  PullsOnlyWhenAsked'
  <1> SUFFICES ASSUME NEW b \in Branch, pulls'[b] # "none"
               PROVE  \E a \in asked' : a.source = content'[b].source /\ a.provider = content'[b].provider
    BY DEF PullsOnlyWhenAsked, WasAsked
  <1>1. CASE pulls[b] # "none"
    BY <1>1 DEF OperatorInv, PullsOnlyWhenAsked, WasAsked, Onward, PullsKeepTheirText
  <1>2. ASSUME NEW o \in Operators, Publish(o), pulls[b] = "none"
        PROVE  \E a \in asked' : a.source = content'[b].source /\ a.provider = content'[b].provider
    <2> DEFINE r == worker[o].req
               x == worker[o].obj
    <2>1. content'[b] = call[o].manifest
      BY <1>2, PublishingOpensItsOwn DEF Publish, OperatorInv, Operators
    <2>2. worker[o].pc = "publish" /\ IsWork(o) /\ x.exists
      BY <1>2 DEF Publish, OperatorInv, OperatorTypeInv, Reconciling
    <2>3. Asking(r, x.spec) \in asked' /\ Renders(call[o].manifest, r, x.spec)
      BY <2>2 DEF IsWork, IsAsked, Onward
    <2> QED
      BY <2>1, <2>3 DEF Asking, Renders
  <1>3. pulls[b] # "none" \/ \E o \in Operators : Publish(o)
    <2>1. ASSUME NEW o \in Operators, Replica(o) PROVE Publish(o) \/ pulls' = pulls
      BY <2>1 DEF Replica, Reconcile, Start, ReplicaCrash, Deliver, Resync, DeliverIngress, Begin, Convert,
                  Published, UpdateStatus, WriteStatus, UpdateFails, Call, Return, gitVars, repoVars
    <2>2. CASE Repository
      <3>1. ASSUME NEW a \in Branch, Merge(a) \/ ClosePull(a) PROVE pulls[b] # "none"
        BY <3>1 DEF Merge, ClosePull, OperatorInv, GitInv, GitTypeOK
      <3>2. CASE Tick
        BY <3>2 DEF Tick, repoVars
      <3> QED
        BY <2>2, <3>1, <3>2, GitOpsAssumption DEF Repository, Environment
    <2>3. User \/ UNCHANGED vars => pulls' = pulls
      BY DEF User, Apply, Delete, ApplyIngress, DeleteIngress, vars, gitVars
    <2> QED
      BY <2>1, <2>2, <2>3 DEF Next
  <1> QED
    BY <1>1, <1>2, <1>3

LEMMA OperatorInvInit == Init => OperatorInv
  <1> SUFFICES ASSUME Init PROVE OperatorInv
    OBVIOUS
  <1>1. OperatorTypeInv /\ GitInv
    BY OperatorInitTyped, GitInvInit DEF Init
  <1>2. \A b \in Branch : pulls[b] = "none"
    BY DEF Init, GitInit
  <1>3. /\ \A r \in Requests : mreq[r] = NoObject
        /\ \A o \in Operators, r \in Requests : cache[o][r] = NoObject
    BY DEF Init
  <1>4. \A o \in Operators : worker[o].pc = "down"
    BY DEF Init, NoWork
  <1>5. \A r \in Requests : IsCopy(r, NoObject)
    <2>1. NoObject.exists = FALSE /\ NoObject.status.phase = "" /\ NoObject.rv = 0
      BY DEF NoObject, NoStatus
    <2>2. \A r \in Requests : IsAsked(r, NoObject) /\ PullHolds(NoObject.status)
      BY <2>1 DEF IsAsked, PullHolds
    <2>3. NoObject.rv <= NoObject.rv
      BY NoObjectTyped DEF Object
    <2> QED
      BY <1>3, <2>2, <2>3 DEF IsCopy
  <1> QED
    BY <1>1, <1>2, <1>3, <1>4, <1>5 DEF OperatorInv, PullsOnlyWhenAsked, Reconciling

\* OperatorInv holds throughout.
THEOREM OperatorInvariant == Spec => []OperatorInv
  <1>1. OperatorInv /\ [Next]_vars => OperatorInv'
    <2> SUFFICES ASSUME OperatorInv, [Next]_vars PROVE OperatorInv'
      OBVIOUS
    <2>1. OperatorTypeInv' /\ GitInv' /\ Onward
      BY OperatorNextTyped, OperatorGitInv, OperatorOnward DEF OperatorInv
    <2>2. PullsOnlyWhenAsked'
      BY <2>1, PullsStayAsked
    <2>3. \A r \in Requests : IsCopy(r, mreq[r])'
      BY <2>1, ObjectsStayTrue
    <2>4. \A o \in Operators, r \in Requests : IsCopy(r, cache[o][r])'
      BY <2>1, CachesStayCopies
    <2>5. \A o \in Operators : worker'[o].pc \in Reconciling => IsWork(o)'
      BY <2>1, WorkStaysTrue
    <2> QED
      BY <2>1, <2>2, <2>3, <2>4, <2>5 DEF OperatorInv
  <1> QED
    BY OperatorInvInit, <1>1, PTL DEF Spec

\* prURL of a request that reports PRCreated is a pull request with the manifest
\* its audit counts (migrationrequest_controller.go:76-113).
THEOREM ReportedPullsHoldAudits == Spec => []ReportedPullHoldsAudit
  <1>1. OperatorInv => ReportedPullHoldsAudit
    BY DEF OperatorInv, IsCopy, ReportedPullHoldsAudit
  <1> QED
    BY OperatorInvariant, <1>1, PTL

\* Nothing is published that no request asked for (migrationrequest_controller.go:83).
THEOREM PullsAreAskedFor == Spec => []PullsOnlyWhenAsked
  <1>1. OperatorInv => PullsOnlyWhenAsked
    BY DEF OperatorInv
  <1> QED
    BY OperatorInvariant, <1>1, PTL

\* A status is written beside the spec it speaks for
\* (migrationrequest_controller.go:87, 113, 129).
THEOREM StatusesSpeakForSpecs == Spec => StatusSpeaksForSpec
  <1> DEFINE A == \A r \in Requests :
                    mreq'[r].status # mreq[r].status /\ mreq'[r].exists => SpeaksFor(r, mreq'[r])
  <1>1. OperatorInv /\ [Next]_vars => [A]_vars
    <2> SUFFICES ASSUME OperatorInv, Next, NEW r \in Requests,
                        mreq'[r].status # mreq[r].status, mreq'[r].exists
                 PROVE  SpeaksFor(r, mreq'[r])
      OBVIOUS
    <2>0. OperatorTypeInv /\ TypeOK /\ mreq \in [Requests -> Object]
      BY DEF OperatorInv, OperatorTypeInv, TypeOK
    <2>1. PICK o \in Operators : UpdateStatus(o) /\ worker[o].req = r
      <3>1. ASSUME NEW s \in UserSpecs, Apply(r, s) PROVE FALSE
        BY <2>0, <3>1 DEF Apply
      <3>2. ~Delete(r)
        BY <2>0 DEF Delete
      <3> QED
        BY <2>0, <3>1, <3>2, ObjectWriters
    <2> DEFINE x == worker[o].obj
    <2>2. /\ worker[o].pc \in {"update", "fail"}
          /\ mreq[r].rv = x.rv
          /\ mreq' = [mreq EXCEPT ![r] = Written(mreq[r], x.status)]
          /\ x.status \in Status
      BY <2>0, <2>1 DEF UpdateStatus, WriteStatus, IsCurrent, TypeOK, Object
    <2>3. mreq'[r].status = x.status /\ mreq'[r].spec = mreq[r].spec
      <3>1. mreq'[r] = Written(mreq[r], x.status)
        BY <2>0, <2>2
      <3> QED
        BY <2>0, <2>2, <3>1, WrittenMoves
    <2>4. IsWork(o) /\ x.spec = mreq[r].spec
      BY <2>1, <2>2 DEF OperatorInv, IsWork, Reconciling
    <2>5. SpeaksFor(r, x)
      BY <2>1, <2>2, <2>4 DEF IsWork, SpeaksFor
    <2> QED
      BY <2>3, <2>4, <2>5 DEF SpeaksFor
  <1> QED
    BY OperatorInvariant, <1>1, PTL DEF Spec, StatusSpeaksForSpec

-----------------------------------------------------------------------------
(***************************************************************************)
(* The refinement: the operator implements MigrationLedger.                *)
(***************************************************************************)
LEMMA WishTyped ==
  ASSUME NEW r \in Requests, NEW s \in UserSpecs, NEW x, x.exists, x.spec = s
  PROVE  /\ WishOf(r, x) \in Ledger!Wishes
         /\ WishOf(r, x) # None
         /\ WishOf(r, x).source = SourceKey(r, s)
         /\ WishOf(r, x).provider = NormalizeProvider(s.provider)
         /\ WishOf(r, x).publish = AsksForPull(s)
  <1>1. AsksForPull(s) \in BOOLEAN
    BY DEF AsksForPull
  <1>2. WishOf(r, x) \in [source : Ingresses, provider : KnownProviders, publish : BOOLEAN]
    BY <1>1, OperatorAssumption DEF WishOf
  <1> QED
    BY <1>2, OperatorAssumption DEF WishOf, Ledger!Wishes

\* A change of one request is a change of its wish and of what it is told.
LEMMA ObjectTells ==
  ASSUME mreq \in [Requests -> Object], NEW r \in Requests, NEW x, mreq' = [mreq EXCEPT ![r] = x]
  PROVE  /\ Wished' = [Wished EXCEPT ![r] = WishOf(r, x)]
         /\ Told' = [Told EXCEPT ![r] = ToldBy(x.status)]
  <1>1. \A p \in Requests : Wished'[p] = [Wished EXCEPT ![r] = WishOf(r, x)][p]
    BY DEF Wished
  <1>2. \A p \in Requests : Told'[p] = [Told EXCEPT ![r] = ToldBy(x.status)][p]
    BY DEF Told
  <1> QED
    BY <1>1, <1>2 DEF Wished, Told

LEMMA ApplyRefines ==
  ASSUME OperatorInv, NEW r \in Requests, NEW s \in UserSpecs, Apply(r, s)
  PROVE  Ledger!Wish(r)
  <1> DEFINE x == [exists |-> TRUE, gen |-> mreq[r].gen + 1, rv |-> mreq[r].rv + 1,
                   spec |-> s, status |-> mreq[r].status]
             w == WishOf(r, x)
  <1>0. mreq \in [Requests -> Object]
    BY DEF OperatorInv, OperatorTypeInv, TypeOK
  <1>1. x.exists /\ x.spec = s /\ x.status = mreq[r].status /\ mreq' = [mreq EXCEPT ![r] = x]
    BY DEF Apply
  <1> HIDE DEF x
  <1>2. Wished' = [Wished EXCEPT ![r] = w] /\ Told' = [Told EXCEPT ![r] = ToldBy(x.status)]
    BY <1>0, <1>1, ObjectTells
  <1>3. Told' = Told
    BY <1>1, <1>2 DEF Told
  <1>4. ProposalText' = ProposalText
    BY DEF Apply, gitVars, ProposalText
  <1>5. /\ w \in Ledger!Wishes
        /\ w.source = SourceKey(r, s) /\ w.provider = NormalizeProvider(s.provider)
        /\ w.publish = AsksForPull(s)
    BY <1>1, WishTyped
  <1> HIDE DEF w
  <1>6. asked' = asked \cup {[source |-> v.source, provider |-> v.provider] : v \in {u \in {w} : u.publish}}
    <2>1. asked' = IF AsksForPull(s) THEN asked \cup {Asking(r, s)} ELSE asked
      BY DEF Apply
    <2>2. Asking(r, s) = [source |-> w.source, provider |-> w.provider]
      BY <1>5 DEF Asking
    <2> QED
      BY <1>5, <2>1, <2>2
  <1> QED
    BY <1>2, <1>3, <1>4, <1>5, <1>6 DEF Ledger!Wish

LEMMA DeleteRefines ==
  ASSUME OperatorInv, NEW r \in Requests, Delete(r)
  PROVE  Ledger!Withdraw(r)
  <1> DEFINE x == [exists |-> FALSE, gen |-> mreq[r].gen + 1, rv |-> mreq[r].rv + 1,
                   spec |-> None, status |-> NoStatus]
  <1>0. mreq \in [Requests -> Object]
    BY DEF OperatorInv, OperatorTypeInv, TypeOK
  <1>1. ~x.exists /\ x.status = NoStatus /\ mreq' = [mreq EXCEPT ![r] = x]
    BY DEF Delete
  <1> HIDE DEF x
  <1>2. Wished' = [Wished EXCEPT ![r] = WishOf(r, x)] /\ Told' = [Told EXCEPT ![r] = ToldBy(x.status)]
    BY <1>0, <1>1, ObjectTells
  <1>3. WishOf(r, x) = None
    BY <1>1 DEF WishOf
  <1>4. ToldBy(x.status) = Ledger!Blank
    <2>1. ToldBy(NoStatus) = Ledger!Blank
      BY DEF ToldBy, NoStatus, Ledger!Blank
    <2> QED
      BY <1>1, <2>1
  <1>5. UNCHANGED <<asked, ProposalText>>
    BY DEF Delete, gitVars, ProposalText
  <1> QED
    BY <1>2, <1>3, <1>4, <1>5 DEF Ledger!Withdraw

\* A status write is a truthful report on the wish of that moment.
LEMMA UpdateRefines ==
  ASSUME OperatorInv, NEW o \in Operators, UpdateStatus(o)
  PROVE  worker[o].req \in Requests /\ Ledger!Report(worker[o].req)
  <1> DEFINE r   == worker[o].req
             x   == worker[o].obj
             st  == x.status
             w   == WishOf(r, mreq[r])
             rep == ToldBy(st)
  <1>0. /\ mreq \in [Requests -> Object]
        /\ worker[o].pc \in {"update", "fail"}
        /\ r \in Requests /\ st \in Status /\ IsWork(o)
        /\ mreq[r].exists /\ mreq[r].spec \in UserSpecs
        /\ x.rv = mreq[r].rv /\ x.spec = mreq[r].spec
    BY DEF UpdateStatus, WriteStatus, IsCurrent, OperatorInv, OperatorTypeInv, TypeOK, Reconciling, Object, IsWork
  <1>1. Wished' = Wished /\ Told' = [Told EXCEPT ![r] = rep]
    <2> DEFINE y == Written(mreq[r], st)
    <2>1. mreq' = [mreq EXCEPT ![r] = y]
      BY DEF UpdateStatus, WriteStatus
    <2>2. y.status = st /\ y.exists = mreq[r].exists /\ y.spec = mreq[r].spec
      BY <1>0, WrittenMoves
    <2> HIDE DEF y, st
    <2>3. Wished' = [Wished EXCEPT ![r] = WishOf(r, y)] /\ Told' = [Told EXCEPT ![r] = ToldBy(y.status)]
      BY <1>0, <2>1, ObjectTells
    <2>4. WishOf(r, y) = WishOf(r, mreq[r])
      BY <2>2 DEF WishOf
    <2> QED
      BY <2>2, <2>3, <2>4 DEF Wished
  <1>2. UNCHANGED <<asked, ProposalText>>
    BY DEF UpdateStatus, WriteStatus, gitVars, ProposalText
  <1>3. /\ w # None /\ w.publish = AsksForPull(x.spec)
        /\ w.source = SourceKey(r, x.spec) /\ w.provider = NormalizeProvider(x.spec.provider)
        /\ Wished[r] = w
    BY <1>0, WishTyped DEF Wished
  <1>4. rep \in Ledger!Reports
    BY <1>0 DEF ToldBy, Status, Phases, URL, File, Ledger!Reports
  <1>5. /\ rep.phase = st.phase /\ rep.url = st.url /\ rep.audit = st.audit
        /\ Told[r].url = mreq[r].status.url /\ Told[r].audit = mreq[r].status.audit
    BY <1>0 DEF ToldBy, Told
  <1>6. ASSUME st.audit \in Manifests, Renders(st.audit, r, x.spec)
        PROVE  rep.audit # None /\ Ledger!Answers(rep.audit, w)
    BY <1>3, <1>5, <1>6, GitOpsAssumption DEF Renders, Ledger!Answers
  <1>7. Ledger!Truthful(rep, w, Told[r])
    <2> HIDE DEF rep, w, st
    <2>1. CASE worker[o].pc = "fail"
      BY <1>0, <1>3, <1>5, <1>6, <2>1 DEF IsWork, Ledger!Truthful, st
    <2>2. CASE worker[o].pc = "update"
      <3>1. /\ st.phase \in {"Converted", "PRCreated", "PRDryRun"}
            /\ st.audit \in Manifests
            /\ SpeaksFor(r, x)
            /\ PullHolds(st)
            /\ st.phase = "PRDryRun" => st.url \in {DryRunURL(n) : n \in Names}
            /\ st.phase = "Converted" => st.url = mreq[r].status.url
        BY <1>0, <2>2 DEF IsWork, st
      <3>2. rep.audit # None /\ Ledger!Answers(rep.audit, w)
        BY <1>6, <3>1 DEF SpeaksFor, st
      <3>3. st.phase = "PRCreated" => st.url \in Branch /\ ProposalText[st.url] = st.audit
        BY <3>1 DEF PullHolds, ProposalText
      <3> QED
        BY <1>3, <1>5, <3>1, <3>2, <3>3 DEF SpeaksFor, Ledger!Truthful, st
    <2> QED
      BY <1>0, <2>1, <2>2
  <1> QED
    BY <1>0, <1>1, <1>2, <1>3, <1>4, <1>7 DEF Ledger!Report

\* To the ledger a replica's pull request is a proposal that somebody wished for; the
\* steps before it are not visible, as the refinement of ProposalBoard shows.
LEMMA PublishRefines ==
  ASSUME OperatorInv, NEW o \in Operators, Publish(o)
  PROVE  (\E b \in Branch : Ledger!Propose(b)) \/ UNCHANGED Ledger!ledgerVars
  <1> DEFINE b == call[o].branch
             m == call[o].manifest
             r == worker[o].req
             s == worker[o].obj.spec
  <1>1. GitInv /\ Publishing(o) /\ o \in Callers
    BY DEF Publish, OperatorInv, Operators
  <1>2. UNCHANGED <<Wished, Told, asked>>
    BY DEF Publish, apiVars, Wished, Told
  <1>3. CASE Board!Publish(o)
    <2>1. Outcomes[o].branch = b /\ Outcomes[o].manifest = m
      BY <1>1 DEF Outcomes
    <2>2. pulls[b] = "none" /\ ProposalText' = [ProposalText EXCEPT ![b] = m]
      BY <1>3, <2>1 DEF Board!Publish
    <2>3. b \in Branch /\ m \in Manifests
      BY <1>1, PublishingKeepsCalls DEF GitInv, GitTypeOK
    <2>4. IsWork(o) /\ worker[o].pc = "publish" /\ worker[o].obj.exists
      BY DEF Publish, OperatorInv, OperatorTypeInv, Reconciling
    <2>5. Asking(r, s) \in asked /\ Renders(m, r, s)
      BY <2>4 DEF IsWork, IsAsked
    <2>6. Ledger!Answers(m, Asking(r, s))
      BY <2>5 DEF Renders, Asking, Ledger!Answers
    <2>7. ProposalText[b] = None
      BY <2>2, <2>3 DEF ProposalText
    <2> HIDE DEF b, m
    <2> QED
      BY <1>2, <2>2, <2>3, <2>5, <2>6, <2>7 DEF Ledger!Propose
  <1>4. CASE Board!GiveUp(o) \/ UNCHANGED Board!boardVars
    BY <1>2, <1>4 DEF Board!GiveUp, Board!boardVars, Ledger!ledgerVars
  <1> QED
    BY <1>1, <1>3, <1>4, PublishingRefines

\* Informers, queues, caches, crashes and time are not visible.
LEMMA SilentSteps ==
  ASSUME UNCHANGED <<mreq, asked, ProposalText>>
  PROVE  UNCHANGED Ledger!ledgerVars
  BY DEF Ledger!ledgerVars, Wished, Told

\* The operator does what MigrationLedger allows
\* (migrationrequest_controller.go:38-131).
THEOREM OperatorRefinesLedger == Spec => ImplementsLedger
  <1>1. Init => Ledger!Init
    <2> SUFFICES ASSUME Init PROVE Ledger!Init
      OBVIOUS
    <2>1. ProposalText = [b \in Branch |-> None]
      BY DEF Init, GitInit, ProposalText
    <2>2. \A r \in Requests : mreq[r] = NoObject
      BY DEF Init
    <2>3. \A r \in Requests : WishOf(r, NoObject) = None
      BY DEF WishOf, NoObject
    <2>4. ToldBy(NoObject.status) = Ledger!Blank
      BY DEF ToldBy, NoObject, NoStatus, Ledger!Blank
    <2>5. Wished = [r \in Requests |-> None] /\ Told = [r \in Requests |-> Ledger!Blank]
      BY <2>2, <2>3, <2>4 DEF Wished, Told
    <2> QED
      BY <2>1, <2>5 DEF Init, Ledger!Init
  <1>2. OperatorInv /\ [Next]_vars => [Ledger!Next]_(Ledger!ledgerVars)
    <2> SUFFICES ASSUME OperatorInv, [Next]_vars PROVE [Ledger!Next]_(Ledger!ledgerVars)
      OBVIOUS
    <2>1. ASSUME NEW r \in Requests, NEW s \in UserSpecs, Apply(r, s) PROVE Ledger!Next
      BY <2>1, ApplyRefines DEF Ledger!Next
    <2>2. ASSUME NEW r \in Requests, Delete(r) PROVE Ledger!Next
      BY <2>2, DeleteRefines DEF Ledger!Next
    <2>3. ASSUME NEW o \in Operators, UpdateStatus(o) PROVE Ledger!Next
      BY <2>3, UpdateRefines DEF Ledger!Next
    <2>4. ASSUME NEW o \in Operators, Publish(o) PROVE Ledger!Next \/ UNCHANGED Ledger!ledgerVars
      BY <2>4, PublishRefines DEF Ledger!Next
    <2>5. ASSUME NEW o \in Operators, Replica(o)
          PROVE  UpdateStatus(o) \/ Publish(o) \/ UNCHANGED <<mreq, asked, ProposalText>>
      BY <2>5 DEF Replica, Reconcile, Start, ReplicaCrash, Deliver, Resync, DeliverIngress, Begin, Convert,
                  Published, UpdateFails, Call, Return, gitVars, repoVars, apiVars, ProposalText
    <2>6. CASE Repository
      <3>1. UNCHANGED ProposalText
        BY <2>6, EnvironmentRefines DEF Repository, OperatorInv, Board!Accept, Board!Reject, Board!boardVars
      <3> QED
        BY <2>6, <3>1, SilentSteps DEF Repository, apiVars
    <2>7. CASE UNCHANGED vars
      BY <2>7, SilentSteps DEF vars, apiVars, gitVars, ProposalText
    <2>8. ASSUME NEW k \in Ingresses, ApplyIngress(k) \/ DeleteIngress(k)
          PROVE  UNCHANGED <<mreq, asked, ProposalText>>
      BY <2>8 DEF ApplyIngress, DeleteIngress, gitVars, ProposalText
    <2> QED
      BY <2>1, <2>2, <2>3, <2>4, <2>5, <2>6, <2>7, <2>8, SilentSteps DEF Next, User
  <1> QED
    BY OperatorInvariant, <1>1, <1>2, PTL DEF Spec, ImplementsLedger, Ledger!LedgerSpec

-----------------------------------------------------------------------------
(***************************************************************************)
(* prURL moves forward, when the replicas all have a token or all have     *)
(* none, as the pods of one Deployment do.                                 *)
(***************************************************************************)
LEMMA DryRunNamesNoBranch ==
  ASSUME NEW n \in Names
  PROVE  DryRunURL(n) \notin Branch
  BY DEF DryRunURL, Branch

LEMMA PastStays ==
  ASSUME NEW url, NEW s \in Nat, NEW t \in Nat, s <= t, IsPast(url, s)
  PROVE  IsPast(url, t)
  <1>1. url \in Branch => url[2] \in Nat
    BY GitOpsAssumption DEF Branch
  <1> QED
    BY <1>1 DEF IsPast

LEMMA ClockGrows ==
  ASSUME GitTypeOK, [Next]_vars
  PROVE  clock \in Nat /\ (clock' = clock \/ clock' = clock + 1)
  <1>1. clock \in Nat
    BY GitOpsAssumption DEF GitTypeOK
  <1>2. Environment => clock' = clock \/ clock' = clock + 1
    BY DEF Environment, Tick, Merge, ClosePull
  <1>3. ASSUME NEW c \in Callers, Publishing(c) PROVE clock' = clock
    BY <1>3 DEF Publishing, WriteManifest, WriteBody, DiskFails, GetRef, CreateRef, CreateFile, CreatePull,
                RequestLost
  <1>4. ASSUME NEW o \in Operators, Replica(o) PROVE clock' = clock
    BY <1>3, <1>4 DEF Replica, Reconcile, Start, ReplicaCrash, Deliver, Resync, DeliverIngress, Begin, Convert,
                      Publish, Published, UpdateStatus, WriteStatus, UpdateFails, Call, Return, gitVars, Operators
  <1>5. User \/ UNCHANGED vars => clock' = clock
    BY DEF User, Apply, Delete, ApplyIngress, DeleteIngress, vars, gitVars
  <1> QED
    BY <1>1, <1>2, <1>4, <1>5 DEF Next, Repository

\* A call stays with the disk or with GitHub (pr.go:47, 60).
LEMMA PublishingKeepsMode ==
  ASSUME GitTypeOK, NEW c \in Callers, Publishing(c)
  PROVE  /\ call'[c].pc \in GitHubSteps \cup {"opened"} => call[c].pc \in GitHubSteps
         /\ call'[c].pc \in {"write_manifest", "write_body", "dry_run"}
              => call[c].pc \in {"write_manifest", "write_body"}
  <1>1. ASSUME NEW p, Goto(c, p) PROVE call'[c].pc = p
    BY <1>1, GotoMoves
  <1>2. CASE WriteManifest(c) \/ WriteBody(c) \/ DiskFails(c) \/ RequestLost(c)
    BY <1>1, <1>2 DEF WriteManifest, AfterManifest, WriteBody, DiskFails, RequestLost, GitHubSteps
  <1>3. CASE GetRef(c)
    <2>1. call'[c].pc \in {"create_ref", "failed"}
      BY <1>1, <1>3 DEF GetRef, GitTypeOK
    <2> QED
      BY <1>3, <2>1 DEF GetRef, GitHubSteps
  <1>4. CASE CreateRef(c) \/ CreateFile(c) \/ CreatePull(c)
    BY <1>1, <1>4 DEF CreateRef, CreateFile, CreatePull, Answer, GitHubSteps
  <1> QED
    BY <1>2, <1>3, <1>4 DEF Publishing

CallForward(o) ==
  /\ call[o].pc # "idle" => call[o].branch[2] <= clock
  /\ call[o].pc \in GitHubSteps \cup {"opened"} => o \in TokenHolders
  /\ call[o].pc \in {"write_manifest", "write_body", "dry_run"} => o \notin TokenHolders

LEMMA CallsGoForward ==
  ASSUME OperatorInv, OperatorTypeInv', ForwardInv, [Next]_vars, NEW o \in Operators
  PROVE  CallForward(o)'
  <1>0. /\ GitTypeOK /\ CallForward(o) /\ OperatorTypeInv
        /\ clock \in Nat /\ clock' \in Nat /\ clock <= clock'
        /\ call[o].pc # "idle" => call[o].branch[2] \in Nat
    <2>1. GitTypeOK /\ CallForward(o) /\ OperatorTypeInv
      BY DEF OperatorInv, OperatorTypeInv, TypeOK, ForwardInv, CallForward
    <2>2. call[o].pc # "idle" => call[o].branch[2] \in Nat
      BY <2>1, GitOpsAssumption DEF GitTypeOK, Branch, Operators
    <2> QED
      BY <2>1, <2>2, ClockGrows
  <1>1. CASE call'[o] = call[o]
    BY <1>0, <1>1 DEF CallForward
  <1>2. CASE call'[o] = NoCall
    BY <1>2 DEF NoCall, CallForward, GitHubSteps
  <1>3. ASSUME NEW n \in Names, NEW m, NEW repo, Call(o, n, m, FALSE, repo) PROVE CallForward(o)'
    <2>1. /\ call'[o].branch = <<n, clock>>
          /\ call'[o].pc = FirstStep(o, FALSE, repo)
          /\ clock' = clock
      BY <1>0, <1>3 DEF Call, BranchFor, GitTypeOK, Operators
    <2>2. call'[o].branch[2] = clock
      BY <2>1
    <2>3. /\ FirstStep(o, FALSE, repo) \in GitHubSteps \cup {"opened"} => o \in TokenHolders
          /\ FirstStep(o, FALSE, repo) \in {"write_manifest", "write_body", "dry_run"} => o \notin TokenHolders
      BY DEF FirstStep, GitHubSteps
    <2> QED
      BY <1>0, <2>1, <2>2, <2>3 DEF CallForward
  <1>4. CASE Publish(o)
    <2>1. /\ call[o].pc # "idle" /\ call'[o].branch = call[o].branch
          /\ call'[o].pc \in GitHubSteps \cup {"opened"} => call[o].pc \in GitHubSteps
          /\ call'[o].pc \in {"write_manifest", "write_body", "dry_run"}
               => call[o].pc \in {"write_manifest", "write_body"}
      BY <1>0, <1>4, PublishingKeepsCalls, PublishingKeepsMode DEF Publish, Operators
    <2> QED
      BY <1>0, <2>1 DEF CallForward
  <1>5. CASE Convert(o)
    <2>1. call' = call \/ \E n \in Names : \E m, repo : Call(o, n, m, FALSE, repo)
      BY <1>0, <1>5, ConvertMoves DEF ConvertEnds, gitVars
    <2> QED
      BY <1>1, <1>3, <2>1
  <1>6. CASE Published(o) \/ ReplicaCrash(o)
    BY <1>0, <1>2, <1>6 DEF Published, Return, ReplicaCrash, GitTypeOK, Operators
  <1>7. ASSUME NEW q \in Operators, Replica(q), q # o PROVE call'[o] = call[o]
    <2>1. CASE Publish(q)
      BY <1>0, <1>7, <2>1, PublishingKeepsCalls DEF Publish, Operators
    <2>2. CASE \E w : call' = [call EXCEPT ![q] = w]
      BY <1>0, <1>7, <2>2 DEF GitTypeOK, Operators
    <2>3. Publish(q) \/ call' = call \/ \E w : call' = [call EXCEPT ![q] = w]
      BY <1>7 DEF Replica, Reconcile, Start, ReplicaCrash, Deliver, Resync, DeliverIngress, Begin, Convert,
                  Published, UpdateStatus, WriteStatus, UpdateFails, Call, Return, gitVars
    <2> QED
      BY <2>1, <2>2, <2>3
  <1>8. ASSUME Replica(o)
        PROVE  Publish(o) \/ Convert(o) \/ Published(o) \/ ReplicaCrash(o) \/ call' = call
    BY <1>8 DEF Replica, Reconcile, Start, Deliver, Resync, DeliverIngress, Begin, UpdateStatus,
                WriteStatus, UpdateFails,
                gitVars
  <1>9. User \/ Repository \/ UNCHANGED vars => call' = call
    BY DEF User, Apply, Delete, ApplyIngress, DeleteIngress, Repository, Environment, Tick, Merge, ClosePull,
           vars, gitVars
  <1> QED
    BY <1>1, <1>4, <1>5, <1>6, <1>7, <1>8, <1>9 DEF Next

LEMMA ObjectsArePast ==
  ASSUME OperatorInv, ForwardInv, [Next]_vars, NEW r \in Requests
  PROVE  IsPast(mreq'[r].status.url, clock')
  <1>0. /\ OperatorTypeInv /\ TypeOK /\ mreq \in [Requests -> Object]
        /\ clock \in Nat /\ clock' \in Nat /\ clock <= clock'
    BY ClockGrows DEF OperatorInv, OperatorTypeInv, TypeOK
  <1>1. ASSUME IsPast(mreq'[r].status.url, clock) PROVE IsPast(mreq'[r].status.url, clock')
    BY <1>0, <1>1, PastStays
  <1>2. IsPast(mreq[r].status.url, clock)
    BY DEF ForwardInv
  <1>3. CASE mreq'[r].status = mreq[r].status
    BY <1>1, <1>2, <1>3
  <1>4. CASE mreq'[r].status = NoStatus
    <2>1. NoStatus.url = None
      BY DEF NoStatus
    <2>2. IsPast(NoStatus.url, clock)
      BY <2>1, GitOpsAssumption DEF IsPast
    <2> QED
      BY <1>1, <1>4, <2>2
  <1>5. ASSUME NEW s \in UserSpecs, Apply(r, s) PROVE mreq'[r].status = mreq[r].status
    BY <1>0, <1>5 DEF Apply
  <1>6. Delete(r) => mreq'[r].status = NoStatus
    <2> DEFINE x == [exists |-> FALSE, gen |-> mreq[r].gen + 1, rv |-> mreq[r].rv + 1,
                   spec |-> None, status |-> NoStatus]
    <2>1. x.status = NoStatus /\ (Delete(r) => mreq' = [mreq EXCEPT ![r] = x])
      BY DEF Delete
    <2> HIDE DEF x
    <2> QED
      BY <1>0, <2>1
  <1>7. ASSUME NEW o \in Operators, UpdateStatus(o), worker[o].req = r
        PROVE  IsPast(mreq'[r].status.url, clock)
    <2> DEFINE st == worker[o].obj.status
    <2>1. st \in Status /\ mreq' = [mreq EXCEPT ![r] = Written(mreq[r], st)]
      BY <1>0, <1>7 DEF UpdateStatus, WriteStatus, TypeOK, Object
    <2>2. Written(mreq[r], st).status = st
      BY <1>0, <2>1, WrittenMoves
    <2>3. IsPast(st.url, clock)
      BY <1>7 DEF UpdateStatus, WriteStatus, ForwardInv, GoesForward, Reconciling
    <2> HIDE DEF st
    <2> QED
      BY <1>0, <2>1, <2>2, <2>3
  <1> QED
    BY <1>0, <1>1, <1>3, <1>4, <1>5, <1>6, <1>7, ObjectWriters

LEMMA CachesArePast ==
  ASSUME OperatorInv, ForwardInv, [Next]_vars, NEW o \in Operators, NEW r \in Requests
  PROVE  IsPast(cache'[o][r].status.url, clock')
  <1>1. clock \in Nat /\ clock' \in Nat /\ clock <= clock'
    BY ClockGrows DEF OperatorInv, OperatorTypeInv, TypeOK
  <1>2. IsPast(cache[o][r].status.url, clock) /\ IsPast(mreq[r].status.url, clock)
    BY DEF ForwardInv
  <1> QED
    BY <1>1, <1>2, CachesFollow, PastStays DEF OperatorInv

\* A Reconcile that does not move stays behind the clock, and once its object has
\* changed it will not write.
LEMMA WorkStaysForward ==
  ASSUME OperatorInv, OperatorTypeInv', Onward, ForwardInv, [Next]_vars, NEW o \in Operators,
         worker[o].pc \in Reconciling, worker'[o] = worker[o], call'[o].branch = call[o].branch
  PROVE  GoesForward(o)'
  <1> DEFINE r   == worker[o].req
             x   == worker[o].obj
             url == x.status.url
  <1>0. /\ clock \in Nat /\ clock' \in Nat /\ clock <= clock'
        /\ r \in Requests
        /\ x.rv \in Nat /\ mreq[r].rv \in Nat /\ mreq'[r].rv \in Nat
        /\ x.rv <= mreq[r].rv
        /\ GoesForward(o)
    BY ClockGrows DEF OperatorInv, OperatorTypeInv, TypeOK, Object, ForwardInv, IsWork
  <1>1. worker'[o].pc # "publish" => IsPast(url, clock')
    BY <1>0, PastStays DEF GoesForward
  <1>2. worker'[o].pc = "publish" => IsPast(url, call'[o].branch[2])
    BY <1>0 DEF GoesForward
  <1>3. mreq'[r] = mreq[r] \/ mreq'[r].rv > x.rv
    BY <1>0 DEF Onward, RevisionsGrow
  <1>4. worker'[o].pc = "update" /\ x.rv = mreq'[r].rv /\ mreq'[r].status.url \in Branch
          => url \in Branch /\ url[2] >= mreq'[r].status.url[2]
    BY <1>0, <1>3 DEF GoesForward
  <1> QED
    BY <1>1, <1>2, <1>4 DEF GoesForward

LEMMA BeginGoesForward ==
  ASSUME OperatorInv, ForwardInv, NEW o \in Operators, NEW r \in Requests, Begin(o, r),
         cache[o][r].exists
  PROVE  GoesForward(o)'
  <1>1. worker' = [worker EXCEPT ![o] = [pc |-> "convert", req |-> r, obj |-> cache[o][r]]]
    BY DEF Begin
  <1>2. worker'[o].pc = "convert" /\ worker'[o].obj = cache[o][r]
    BY <1>1 DEF OperatorInv, OperatorTypeInv, TypeOK
  <1>3. IsPast(cache[o][r].status.url, clock) /\ clock' = clock
    BY DEF ForwardInv, Begin, gitVars
  <1> QED
    BY <1>2, <1>3 DEF GoesForward

LEMMA ConvertGoesForward ==
  ASSUME OperatorInv, ForwardInv, NEW o \in Operators, Convert(o)
  PROVE  GoesForward(o)'
  <1> DEFINE url == worker[o].obj.status.url
  <1>1. ConvertEnds(o) /\ UNCHANGED mreq
    BY ConvertMoves DEF OperatorInv, Convert, apiVars
  <1>2. /\ worker[o].pc = "convert" /\ IsWork(o) /\ IsPast(url, clock)
        /\ worker[o].obj.rv = mreq[worker[o].req].rv => url = mreq[worker[o].req].status.url
    BY DEF Convert, OperatorInv, Reconciling, IsWork, ForwardInv, GoesForward
  <1>3. /\ worker'[o].obj.status.url = url /\ worker'[o].req = worker[o].req
        /\ worker'[o].obj.rv = worker[o].obj.rv
    BY <1>1 DEF ConvertEnds
  <1>4. CASE worker'[o].pc = "publish"
    <2>1. PICK n \in Names : Call(o, n, worker'[o].obj.status.audit, FALSE, worker[o].obj.spec.repo)
      BY <1>1, <1>4 DEF ConvertEnds
    <2>2. o \in DOMAIN call
      BY DEF OperatorInv, GitInv, GitTypeOK, Operators
    <2>3. call'[o].branch = <<n, clock>>
      BY <2>1, <2>2 DEF Call, BranchFor
    <2>4. call'[o].branch[2] = clock
      BY <2>3
    <2> QED
      BY <1>2, <1>3, <1>4, <2>4 DEF GoesForward
  <1>5. CASE worker'[o].pc # "publish"
    <2>1. clock' = clock
      BY <1>1, <1>5 DEF ConvertEnds, gitVars
    <2>2. url \in Branch => url[2] >= url[2]
      <3>1. url \in Branch => url[2] \in Nat
        BY GitOpsAssumption DEF Branch
      <3> QED
        BY <3>1
    <2> HIDE DEF url
    <2> QED
      BY <1>1, <1>2, <1>3, <1>5, <2>1, <2>2 DEF GoesForward
  <1> QED
    BY <1>4, <1>5

\* The one place where a Branch could give way to a dry run, or to an earlier second.
LEMMA PublishedGoesForward ==
  ASSUME OperatorInv, ForwardInv, TokenHolders \in {{}, Operators}, NEW o \in Operators, Published(o)
  PROVE  GoesForward(o)'
  <1> DEFINE r   == worker[o].req
             url == worker[o].obj.status.url
             b   == call[o].branch
             old == mreq[r].status.url
  <1>1. PublishedEnds(o) /\ UNCHANGED <<mreq, clock>>
    BY PublishedMoves DEF OperatorInv, Published, Return, apiVars
  <1>2. /\ worker[o].pc = "publish" /\ call[o].pc # "idle"
        /\ r \in Requests
        /\ IsPast(url, b[2]) /\ IsPast(old, clock)
        /\ worker[o].obj.rv = mreq[r].rv => url = old
        /\ CallForward(o)
    BY DEF Published, OperatorInv, OperatorTypeInv, Reconciling, IsWork, ForwardInv, GoesForward, CallForward
  <1>3. /\ b \in Branch /\ b[2] \in Nat /\ clock \in Nat /\ b[2] <= clock
    BY <1>2, GitOpsAssumption
       DEF OperatorInv, OperatorTypeInv, TypeOK, GitTypeOK, Branch, Operators, CallForward
  <1>4. old \in Branch => old[2] \in Nat
    BY GitOpsAssumption DEF Branch
  <1>5. worker'[o].req = r /\ worker'[o].obj.rv = worker[o].obj.rv
    BY <1>1 DEF PublishedEnds
  <1> HIDE DEF r, url, b, old
  <1>6. CASE call[o].pc = "opened" /\ worker'[o].pc = "update" /\ worker'[o].obj.status.url = b
    <2>1. TokenHolders # {}
      BY <1>2, <1>6 DEF CallForward
    <2>2. IsPast(b, clock)
      BY <1>3, <2>1 DEF IsPast
    <2>3. worker[o].obj.rv = mreq[r].rv /\ old \in Branch => b[2] >= old[2]
      BY <1>2, <1>3, <1>4 DEF IsPast
    <2> QED
      BY <1>1, <1>3, <1>5, <1>6, <2>2, <2>3 DEF GoesForward, old
  <1>7. CASE call[o].pc = "dry_run" /\ worker'[o].pc = "update"
             /\ worker'[o].obj.status.url \in {DryRunURL(n) : n \in Names}
    <2>1. TokenHolders = {}
      BY <1>2, <1>7 DEF CallForward
    <2>2. old \notin Branch
      BY <1>2, <2>1 DEF IsPast
    <2>3. worker'[o].obj.status.url \notin Branch
      BY <1>7, DryRunNamesNoBranch
    <2> QED
      BY <1>1, <1>5, <1>7, <2>2, <2>3 DEF GoesForward, IsPast, old
  <1>8. CASE worker'[o].pc = "fail" /\ worker'[o].obj.status.url = url
    <2>1. IsPast(url, clock)
      BY <1>2, <1>3, PastStays
    <2> QED
      BY <1>1, <1>8, <2>1 DEF GoesForward
  <1> QED
    BY <1>1, <1>6, <1>7, <1>8 DEF PublishedEnds, b, url

LEMMA ForwardInvStays ==
  ASSUME OperatorInv, OperatorInv', ForwardInv, TokenHolders \in {{}, Operators}, [Next]_vars
  PROVE  ForwardInv'
  <1>1. OperatorTypeInv /\ OperatorTypeInv' /\ Onward
    BY OperatorOnward DEF OperatorInv
  <1>2. \A o \in Operators : CallForward(o)'
    BY <1>1, CallsGoForward
  <1>3. ASSUME NEW o \in Operators, worker'[o].pc \in Reconciling PROVE GoesForward(o)'
    <2>1. worker'[o].pc \notin {"idle", "down"}
      BY <1>3 DEF Reconciling
    <2> QED
      BY <1>1, <1>3, <2>1, WorkerMoves, WorkStaysForward, BeginGoesForward, ConvertGoesForward,
         PublishedGoesForward
  <1> QED
    BY <1>2, <1>3, ObjectsArePast, CachesArePast DEF ForwardInv, CallForward

\* The second inductive invariant: a pull request of a status, of a cached copy or of a
\* Reconcile was opened by a replica with a token, no later than now, and no Reconcile is
\* about to write an older one than the status has.
THEOREM PullsStayInThePast ==
  ASSUME TokenHolders \in {{}, Operators}
  PROVE  Spec => []ForwardInv
  <1>1. Init => ForwardInv
    <2> SUFFICES ASSUME Init PROVE ForwardInv
      OBVIOUS
    <2>1. NoObject.status.url = None /\ None \notin Branch
      BY GitOpsAssumption DEF NoObject, NoStatus
    <2>2. /\ \A r \in Requests : mreq[r] = NoObject
          /\ \A o \in Operators, r \in Requests : cache[o][r] = NoObject
          /\ \A o \in Operators : call[o].pc = "idle" /\ worker[o].pc = "down"
      BY DEF Init, GitInit, NoCall, NoWork, Operators
    <2> QED
      BY <2>1, <2>2 DEF ForwardInv, IsPast, Reconciling, GitHubSteps
  <1>2. OperatorInv /\ OperatorInv' /\ ForwardInv /\ [Next]_vars => ForwardInv'
    BY ForwardInvStays
  <1> QED
    BY OperatorInvariant, <1>1, <1>2, PTL DEF Spec

\* prURL never goes back to an earlier pull request and is never cleared, provided all
\* replicas run with a token or all without (migrationrequest_controller.go:107).
THEOREM ReportedPullsMoveForward ==
  ASSUME TokenHolders \in {{}, Operators}
  PROVE  Spec => ReportedPullMovesForward
  <1> DEFINE A == \A r \in Requests :
                    mreq[r].status.url \in Branch /\ mreq'[r].exists =>
                      /\ mreq'[r].status.url \in Branch
                      /\ mreq'[r].status.url[2] >= mreq[r].status.url[2]
  <1>1. OperatorInv /\ ForwardInv /\ [Next]_vars => [A]_vars
    <2> SUFFICES ASSUME OperatorInv, ForwardInv, Next, NEW r \in Requests,
                        mreq[r].status.url \in Branch, mreq'[r].exists
                 PROVE  /\ mreq'[r].status.url \in Branch
                        /\ mreq'[r].status.url[2] >= mreq[r].status.url[2]
      OBVIOUS
    <2> DEFINE old == mreq[r].status.url
    <2>0. /\ OperatorTypeInv /\ TypeOK /\ mreq \in [Requests -> Object]
          /\ old[2] \in Nat
      BY GitOpsAssumption DEF OperatorInv, OperatorTypeInv, TypeOK, Branch
    <2>1. CASE mreq'[r].status.url = old
      BY <2>0, <2>1
    <2>2. ASSUME NEW s \in UserSpecs, Apply(r, s) PROVE mreq'[r].status.url = old
      BY <2>0, <2>2 DEF Apply
    <2>3. ~Delete(r)
      BY <2>0 DEF Delete
    <2>4. ASSUME NEW o \in Operators, UpdateStatus(o), worker[o].req = r
          PROVE  /\ mreq'[r].status.url \in Branch
                 /\ mreq'[r].status.url[2] >= old[2]
      <3> DEFINE x == worker[o].obj
      <3>1. /\ worker[o].pc \in {"update", "fail"} /\ worker[o].pc \in Reconciling
            /\ mreq[r].rv = x.rv
            /\ mreq' = [mreq EXCEPT ![r] = Written(mreq[r], x.status)]
            /\ x.status \in Status
        BY <2>0, <2>4 DEF UpdateStatus, WriteStatus, IsCurrent, TypeOK, Object, Reconciling
      <3>2. mreq'[r].status = x.status
        <4>1. mreq'[r] = Written(mreq[r], x.status)
          BY <2>0, <3>1
        <4> QED
          BY <2>0, <3>1, <4>1, WrittenMoves
      <3>3. IsWork(o) /\ GoesForward(o)
        BY <3>1 DEF OperatorInv, ForwardInv
      <3>4. worker[o].pc = "fail" => x.status.url = old
        BY <2>4, <3>1, <3>3 DEF IsWork
      <3>5. worker[o].pc = "update" => x.status.url \in Branch /\ x.status.url[2] >= old[2]
        BY <2>4, <3>1, <3>3 DEF GoesForward
      <3> QED
        BY <2>0, <3>1, <3>2, <3>4, <3>5
    <2> QED
      BY <2>0, <2>1, <2>2, <2>3, <2>4, ObjectWriters
  <1> QED
    BY OperatorInvariant, PullsStayInThePast, <1>1, PTL DEF Spec, ReportedPullMovesForward

-----------------------------------------------------------------------------
(***************************************************************************)
(* The composition: what GitOps promises its callers and the reviewers, it *)
(* promises to replicas that call it from Reconcile and crash.             *)
(***************************************************************************)

\* Among replicas too a branch, a commit and a pull request are published as one, and
\* the first manifest merged for a name is the last (github.go:12-60).
THEOREM OperatorPublishesAtomically == Spec => PublicationIsAtomic
  <1>1. Init => Board!Init
    BY DEF Init, GitInit, Board!Init, Board!Idle, ProposalText, Outcomes, NoCall, AbstractPC
  <1>2. OperatorInv /\ [Next]_vars => [Board!Next]_(Board!boardVars)
    <2> SUFFICES ASSUME OperatorInv, [Next]_vars PROVE [Board!Next]_(Board!boardVars)
      OBVIOUS
    <2>0. GitInv /\ GitTypeOK /\ OperatorTypeInv
      BY DEF OperatorInv, GitInv
    <2>1. CASE Repository
      BY <2>0, <2>1, EnvironmentRefines DEF Repository, Board!Next
    <2>2. CASE UNCHANGED gitVars
      BY <2>2 DEF gitVars, Board!boardVars, ProposalText, Outcomes
    <2>3. ASSUME NEW o \in Operators, Replica(o)
          PROVE  Board!Next \/ UNCHANGED Board!boardVars
      <3>1. CASE Publish(o)
        BY <2>0, <3>1, PublishingRefines DEF Publish, Board!Next, Operators
      <3>2. CASE Published(o) \/ ReplicaCrash(o)
        BY <2>0, <3>2, ResetRefines DEF Published, Return, ReplicaCrash, Board!Next, Operators
      <3>3. CASE Convert(o)
        <4>1. ConvertEnds(o)
          BY <2>0, <3>3, ConvertMoves
        <4>2. CASE worker'[o].pc = "publish"
          <5>1. PICK n \in Names : Call(o, n, worker'[o].obj.status.audit, FALSE, worker[o].obj.spec.repo)
            BY <4>1, <4>2 DEF ConvertEnds
          <5>2. worker'[o].obj.status.audit \in Manifests
            BY <4>1, <4>2 DEF ConvertEnds
          <5> QED
            BY <2>0, <5>1, <5>2, CallRefines DEF Board!Next, Operators
        <4> QED
          BY <2>2, <4>1, <4>2 DEF ConvertEnds
      <3>4. \/ Convert(o) \/ Publish(o) \/ Published(o) \/ ReplicaCrash(o)
            \/ UNCHANGED gitVars
        BY <2>3 DEF Replica, Reconcile, Start, Deliver, Resync, DeliverIngress, Begin, UpdateStatus,
                    WriteStatus, UpdateFails
      <3> QED
        BY <2>2, <3>1, <3>2, <3>3, <3>4
    <2>4. User \/ UNCHANGED vars => UNCHANGED gitVars
      BY DEF User, Apply, Delete, ApplyIngress, DeleteIngress, vars
    <2> QED
      BY <2>1, <2>2, <2>3, <2>4 DEF Next
  <1> QED
    BY OperatorInvariant, <1>1, <1>2, PTL DEF Spec, PublicationIsAtomic, Board!BoardSpec
=============================================================================
