---------------------------- MODULE GitOps_proofs ----------------------------
(* Proofs about GitOps, for every set of callers, names and manifests.      *)
EXTENDS GitOps, TLAPS

(***************************************************************************)
(* Type correctness: the repository and the calls keep their types.        *)
(***************************************************************************)
LEMMA InitTyped == GitInit => GitTypeOK
  BY GitOpsAssumption DEF GitInit, GitTypeOK, NoCall, CallPC, File, Branch

\* A call starts in a typed state (pr.go:38-60).
LEMMA CallTyped ==
  ASSUME GitTypeOK, NEW c \in Callers, NEW n \in Names, NEW m \in Manifests,
         NEW dryRunDir, NEW repo, Call(c, n, m, dryRunDir, repo)
  PROVE  GitTypeOK'
  <1>1. <<n, clock>> \in Branch
    BY DEF GitTypeOK, Branch
  <1>2. FirstStep(c, dryRunDir, repo) \in CallPC \ {"idle"}
    BY DEF FirstStep, CallPC, GitHubSteps, Results
  <1>3. call'[c] \in [pc : CallPC, branch : Branch \cup {None}, manifest : File, seen : File]
    BY <1>1, <1>2 DEF Call, BranchFor, GitTypeOK, File
  <1> QED
    BY <1>1, <1>2, <1>3 DEF Call, BranchFor, GitTypeOK, repoVars

\* A step that only moves one call to a step other than idle keeps the types.
LEMMA GotoTyped ==
  ASSUME GitTypeOK, NEW c \in Callers, NEW p \in CallPC, call[c].pc # "idle", Goto(c, p)
  PROVE  /\ call' \in [Callers -> [pc : CallPC, branch : Branch \cup {None},
                                   manifest : File, seen : File]]
         /\ \A d \in Callers : call'[d].pc # "idle" => /\ call'[d].branch \in Branch
                                                       /\ call'[d].manifest \in Manifests
  BY DEF GitTypeOK, Goto

\* Writing one of the two files of a directory keeps the directories typed.
LEMMA ArtifactsTyped ==
  ASSUME NEW c \in Callers, NEW n \in Names, NEW m \in File,
         artifacts \in [Callers -> [Names -> [yaml : File, body : File]]]
  PROVE  /\ [artifacts EXCEPT ![c][n].yaml = m] \in [Callers -> [Names -> [yaml : File, body : File]]]
         /\ [artifacts EXCEPT ![c][n].body = m] \in [Callers -> [Names -> [yaml : File, body : File]]]
  <1> DEFINE d == artifacts[c][n]
  <1>1. d \in [yaml : File, body : File]
    OBVIOUS
  <1>2. /\ [d EXCEPT !.yaml = m] \in [yaml : File, body : File]
        /\ [d EXCEPT !.body = m] \in [yaml : File, body : File]
    BY <1>1
  <1>3. ASSUME NEW e \in [yaml : File, body : File]
        PROVE  [artifacts EXCEPT ![c] = [artifacts[c] EXCEPT ![n] = e]]
                 \in [Callers -> [Names -> [yaml : File, body : File]]]
    OBVIOUS
  <1> QED
    BY <1>2, <1>3

\* Every step of CreateMigrationPR and of createGitHubPR keeps the types.
LEMMA PublishingTyped ==
  ASSUME GitTypeOK, NEW c \in Callers, Publishing(c)
  PROVE  GitTypeOK'
  <1> USE DEF GitTypeOK, repoVars
  <1>0. "failed" \in CallPC /\ "write_body" \in CallPC /\ "dry_run" \in CallPC
        /\ "create_ref" \in CallPC /\ "create_file" \in CallPC
        /\ "create_pull" \in CallPC /\ "opened" \in CallPC
    BY DEF CallPC, GitHubSteps, Results
  <1>1. ASSUME call[c].pc # "idle" PROVE call[c].branch \in Branch /\ NameOf(c) \in Names
                                         /\ call[c].manifest \in File
    BY <1>1 DEF Branch, NameOf, File
  <1>2. CASE WriteManifest(c)
    <2>1. call[c].pc # "idle" /\ Goto(c, "write_body")
      BY <1>2 DEF WriteManifest, AfterManifest
    <2>2. artifacts' \in [Callers -> [Names -> [yaml : File, body : File]]]
      BY <1>1, <1>2, <2>1, ArtifactsTyped DEF WriteManifest
    <2> QED
      BY <1>0, <1>2, <2>1, <2>2, GotoTyped DEF WriteManifest, AfterManifest
  <1>3. CASE WriteBody(c)
    <2>1. call[c].pc # "idle" /\ Goto(c, "dry_run")
      BY <1>3 DEF WriteBody
    <2>2. artifacts' \in [Callers -> [Names -> [yaml : File, body : File]]]
      BY <1>1, <1>3, <2>1, ArtifactsTyped DEF WriteBody
    <2> QED
      BY <1>0, <1>3, <2>1, <2>2, GotoTyped DEF WriteBody
  <1>4. CASE DiskFails(c)
    BY <1>0, <1>4, GotoTyped DEF DiskFails
  <1>5. CASE GetRef(c)
    <2>1. CASE Goto(c, "failed")
      BY <1>0, <1>5, <2>1, GotoTyped DEF GetRef
    <2>2. CASE call' = [call EXCEPT ![c].pc = "create_ref", ![c].seen = base[NameOf(c)]]
      <3>1. base[NameOf(c)] \in File
        BY <1>1, <1>5 DEF GetRef
      <3>2. call[c].branch \in Branch /\ call[c].manifest \in Manifests
        BY <1>5 DEF GetRef
      <3>3. /\ call' \in [Callers -> [pc : CallPC, branch : Branch \cup {None},
                                      manifest : File, seen : File]]
            /\ \A d \in Callers : call'[d].pc # "idle" => /\ call'[d].branch \in Branch
                                                          /\ call'[d].manifest \in Manifests
        BY <1>0, <1>1, <2>2, <3>1, <3>2
      <3> QED
        BY <1>5, <3>3 DEF GetRef
    <2> QED
      BY <1>5, <2>1, <2>2 DEF GetRef
  <1>6. CASE CreateRef(c)
    <2>1. call[c].pc # "idle" /\ (Goto(c, "create_file") \/ Goto(c, "failed"))
      BY <1>6 DEF CreateRef, Answer
    <2> QED
      BY <1>0, <1>1, <1>6, <2>1, GotoTyped DEF CreateRef
  <1>7. CASE CreateFile(c)
    <2>1. call[c].pc # "idle" /\ (Goto(c, "create_pull") \/ Goto(c, "failed"))
      BY <1>7 DEF CreateFile, Answer
    <2> QED
      BY <1>0, <1>1, <1>7, <2>1, GotoTyped DEF CreateFile
  <1>8. CASE CreatePull(c)
    <2>1. call[c].pc # "idle" /\ (Goto(c, "opened") \/ Goto(c, "failed"))
      BY <1>8 DEF CreatePull, Answer
    <2> QED
      BY <1>0, <1>1, <1>8, <2>1, GotoTyped DEF CreatePull
  <1>9. CASE RequestLost(c)
    BY <1>0, <1>9, GotoTyped DEF RequestLost, GitHubSteps
  <1> QED
    BY <1>2, <1>3, <1>4, <1>5, <1>6, <1>7, <1>8, <1>9 DEF Publishing

LEMMA EnvironmentTyped ==
  ASSUME GitTypeOK, Environment
  PROVE  GitTypeOK'
  <1> USE DEF GitTypeOK, repoVars
  <1>1. CASE Tick
    BY <1>1, GitOpsAssumption DEF Tick
  <1>2. ASSUME NEW b \in Branch, Merge(b) PROVE GitTypeOK'
    <2>1. b[1] \in Names
      BY DEF Branch
    <2> QED
      BY <1>2, <2>1 DEF Merge
  <1>3. ASSUME NEW b \in Branch, ClosePull(b) PROVE GitTypeOK'
    BY <1>3 DEF ClosePull
  <1> QED
    BY <1>1, <1>2, <1>3, GitOpsAssumption DEF Environment

LEMMA ResetTyped ==
  ASSUME GitTypeOK, NEW c \in Callers, call' = [call EXCEPT ![c] = NoCall],
         UNCHANGED <<clock, repoVars, artifacts>>
  PROVE  GitTypeOK'
  BY DEF GitTypeOK, NoCall, CallPC, File, repoVars

THEOREM GitTypeCorrect == GitSpec => []GitTypeOK
  <1>1. GitTypeOK /\ [GitNext]_gitVars => GitTypeOK'
    <2> SUFFICES ASSUME GitTypeOK, [GitNext]_gitVars PROVE GitTypeOK'
      OBVIOUS
    <2>1. CASE Environment
      BY <2>1, EnvironmentTyped
    <2>2. ASSUME NEW c \in Callers, Caller(c) PROVE GitTypeOK'
      BY <2>2, CallTyped, PublishingTyped, ResetTyped DEF Caller, Return, Crash
    <2>3. CASE UNCHANGED gitVars
      BY <2>3 DEF gitVars, GitTypeOK
    <2> QED
      BY <2>1, <2>2, <2>3 DEF GitNext
  <1> QED
    BY InitTyped, <1>1, PTL DEF GitSpec

-----------------------------------------------------------------------------
(***************************************************************************)
(* The inductive invariant.  Each step is considered for the call c that   *)
(* makes it and for the other calls, which hold other branches.            *)
(***************************************************************************)
LEMMA GitInvInit == GitInit => GitInv
  BY InitTyped DEF GitInit, GitInv, OneCallPerBranch, HoldsBranch, NoCall

\* Starting, dropping or failing a call, and dry-run steps, touch no branch.
LEMMA QuietStep ==
  ASSUME GitInv, GitTypeOK', NEW c \in Callers, UNCHANGED repoVars,
         \A d \in Callers : d # c => call'[d] = call[d],
         call'[c].pc \notin {"create_file", "create_pull", "opened"}
  PROVE  GitInv'
  BY DEF GitInv, OneCallPerBranch, HoldsBranch, repoVars

\* Goto moves one call.
LEMMA GotoMoves ==
  ASSUME GitTypeOK, NEW c \in Callers, NEW p, Goto(c, p)
  PROVE  /\ call'[c] = [call[c] EXCEPT !.pc = p]
         /\ call'[c].pc = p
         /\ call'[c].branch = call[c].branch
         /\ call'[c].manifest = call[c].manifest
         /\ call'[c].seen = call[c].seen
         /\ \A d \in Callers : d # c => call'[d] = call[d]
  BY DEF Goto, GitTypeOK

LEMMA CreateRefInv ==
  ASSUME GitInv, GitTypeOK', NEW c \in Callers, CreateRef(c)
  PROVE  GitInv'
  <1> DEFINE b == call[c].branch
  <1>0. GitTypeOK /\ b \in Branch
    BY DEF GitInv, GitTypeOK, CreateRef
  <1>1. CASE ~RefIsFree(b)
    <2>1. Goto(c, "failed") /\ UNCHANGED repoVars
      BY <1>1 DEF CreateRef, repoVars
    <2>2. call'[c].pc = "failed" /\ \A d \in Callers : d # c => call'[d] = call[d]
      BY <1>0, <2>1, GotoMoves
    <2> QED
      BY <2>1, <2>2, QuietStep
  <1>2. CASE RefIsFree(b)
    <2>1. /\ b \notin refs
          /\ refs' = refs \cup {b}
          /\ forkedFrom' = [forkedFrom EXCEPT ![b] = call[c].seen]
          /\ content' = [content EXCEPT ![b] = call[c].seen]
          /\ pulls' = pulls
          /\ pulls[b] = "none"
      BY <1>0, <1>2 DEF CreateRef, RefIsFree, GitInv
    <2>2. /\ call'[c].pc \in {"create_file", "failed"}
          /\ call'[c].branch = b
          /\ call'[c].seen = call[c].seen
          /\ \A d \in Callers : d # c => call'[d] = call[d]
      BY <1>0, <1>2, GotoMoves DEF CreateRef, Answer
    <2>3. \A d \in Callers : HoldsBranch(d) => call[d].branch # b /\ call[d].branch \in Branch
      BY <2>1 DEF GitInv, GitTypeOK, HoldsBranch
    <2>4. OneCallPerBranch'
      BY <2>2, <2>3 DEF OneCallPerBranch, HoldsBranch, GitInv
    <2>5. \A a \in Branch : a # b => /\ content'[a] = content[a]
                                     /\ forkedFrom'[a] = forkedFrom[a]
      BY <1>0, <2>1 DEF GitTypeOK
    <2>6. content'[b] = call[c].seen /\ forkedFrom'[b] = call[c].seen
      BY <1>0, <2>1 DEF GitTypeOK
    <2>7. ASSUME NEW d \in Callers
          PROVE  LET a == call[d].branch
                 IN (/\ HoldsBranch(d) => a \in refs
                     /\ call[d].pc = "create_file" =>
                          pulls[a] = "none" /\ content[a] = call[d].seen /\ forkedFrom[a] = call[d].seen
                     /\ call[d].pc = "create_pull" =>
                          /\ pulls[a] = "none" /\ content[a] = call[d].manifest
                          /\ forkedFrom[a] = None /\ call[d].seen = None
                     /\ call[d].pc = "opened" =>
                          /\ pulls[a] # "none" /\ content[a] = call[d].manifest
                          /\ call[d].seen = None)'
      <3>1. CASE d = c
        BY <2>1, <2>2, <2>6, <3>1 DEF HoldsBranch
      <3>2. CASE d # c
        BY <2>1, <2>2, <2>3, <2>5, <3>2 DEF HoldsBranch, GitInv
      <3> QED
        BY <3>1, <3>2
    <2>8. \A a \in Branch :
            pulls'[a] # "none" => a \in refs' /\ content'[a] # None /\ forkedFrom'[a] = None
      BY <2>1, <2>5 DEF GitInv
    <2> QED
      BY <2>4, <2>7, <2>8 DEF GitInv
  <1> QED
    BY <1>1, <1>2

LEMMA CreateFileInv ==
  ASSUME GitInv, GitTypeOK', NEW c \in Callers, CreateFile(c)
  PROVE  GitInv'
  <1> DEFINE b == call[c].branch
  <1>0. GitTypeOK /\ b \in Branch /\ call[c].pc = "create_file"
    BY DEF GitInv, GitTypeOK, CreateFile
  <1>1. CASE ~FileIsNew(b)
    <2>1. Goto(c, "failed") /\ UNCHANGED repoVars
      BY <1>1 DEF CreateFile, repoVars
    <2>2. call'[c].pc = "failed" /\ \A d \in Callers : d # c => call'[d] = call[d]
      BY <1>0, <2>1, GotoMoves
    <2> QED
      BY <2>1, <2>2, QuietStep
  <1>2. CASE FileIsNew(b)
    <2>1. /\ content[b] = None
          /\ content' = [content EXCEPT ![b] = call[c].manifest]
          /\ pulls' = pulls /\ refs' = refs /\ forkedFrom' = forkedFrom
      BY <1>2 DEF CreateFile, FileIsNew
    <2>2. /\ call'[c].pc \in {"create_pull", "failed"}
          /\ call'[c].branch = b
          /\ call'[c].manifest = call[c].manifest
          /\ call'[c].seen = call[c].seen
          /\ \A d \in Callers : d # c => call'[d] = call[d]
      BY <1>0, <1>2, GotoMoves DEF CreateFile, Answer
    <2>3. /\ b \in refs
          /\ pulls[b] = "none"
          /\ forkedFrom[b] = None
          /\ call[c].seen = None
          /\ \A d \in Callers : HoldsBranch(d) /\ d # c => call[d].branch # b /\ call[d].branch \in Branch
      BY <1>0, <2>1 DEF GitInv, GitTypeOK, HoldsBranch, OneCallPerBranch
    <2>4. /\ content'[b] = call[c].manifest
          /\ \A a \in Branch : a # b => content'[a] = content[a]
      BY <1>0, <2>1 DEF GitTypeOK
    <2>5. OneCallPerBranch'
      BY <1>0, <2>2 DEF OneCallPerBranch, HoldsBranch, GitInv
    <2>6. ASSUME NEW d \in Callers
          PROVE  LET a == call[d].branch
                 IN (/\ HoldsBranch(d) => a \in refs
                     /\ call[d].pc = "create_file" =>
                          pulls[a] = "none" /\ content[a] = call[d].seen /\ forkedFrom[a] = call[d].seen
                     /\ call[d].pc = "create_pull" =>
                          /\ pulls[a] = "none" /\ content[a] = call[d].manifest
                          /\ forkedFrom[a] = None /\ call[d].seen = None
                     /\ call[d].pc = "opened" =>
                          /\ pulls[a] # "none" /\ content[a] = call[d].manifest
                          /\ call[d].seen = None)'
      <3>1. CASE d = c
        BY <2>1, <2>2, <2>3, <2>4, <3>1 DEF HoldsBranch
      <3>2. CASE d # c
        BY <2>1, <2>2, <2>3, <2>4, <3>2 DEF HoldsBranch, GitInv
      <3> QED
        BY <3>1, <3>2
    <2>7. \A a \in Branch :
            pulls'[a] # "none" => a \in refs' /\ content'[a] # None /\ forkedFrom'[a] = None
      BY <2>1, <2>3, <2>4 DEF GitInv
    <2> QED
      BY <2>5, <2>6, <2>7 DEF GitInv
  <1> QED
    BY <1>1, <1>2

LEMMA CreatePullInv ==
  ASSUME GitInv, GitTypeOK', NEW c \in Callers, CreatePull(c)
  PROVE  GitInv'
  <1> DEFINE b == call[c].branch
  <1>1. /\ GitTypeOK
        /\ b \in Branch
        /\ call[c].pc = "create_pull"
        /\ call[c].manifest \in Manifests
    BY DEF GitInv, GitTypeOK, CreatePull
  <1>2. /\ pulls' = [pulls EXCEPT ![b] = "open"]
        /\ refs' = refs /\ forkedFrom' = forkedFrom /\ content' = content
    BY DEF CreatePull
  <1>3. /\ call'[c].pc \in {"opened", "failed"}
        /\ call'[c].branch = b
        /\ call'[c].manifest = call[c].manifest
        /\ call'[c].seen = call[c].seen
        /\ \A d \in Callers : d # c => call'[d] = call[d]
    BY <1>1, GotoMoves DEF CreatePull, Answer
  <1>4. /\ b \in refs /\ content[b] = call[c].manifest
        /\ forkedFrom[b] = None /\ call[c].seen = None
        /\ \A d \in Callers : HoldsBranch(d) /\ d # c => call[d].branch # b /\ call[d].branch \in Branch
    BY <1>1 DEF GitInv, GitTypeOK, HoldsBranch, OneCallPerBranch
  <1>5. pulls'[b] = "open" /\ \A a \in Branch : a # b => pulls'[a] = pulls[a]
    BY <1>1, <1>2 DEF GitTypeOK
  <1>6. OneCallPerBranch'
    BY <1>1, <1>3 DEF OneCallPerBranch, HoldsBranch, GitInv
  <1>7. ASSUME NEW d \in Callers
        PROVE  LET a == call[d].branch
               IN (/\ HoldsBranch(d) => a \in refs
                   /\ call[d].pc = "create_file" =>
                        pulls[a] = "none" /\ content[a] = call[d].seen /\ forkedFrom[a] = call[d].seen
                   /\ call[d].pc = "create_pull" =>
                        /\ pulls[a] = "none" /\ content[a] = call[d].manifest
                        /\ forkedFrom[a] = None /\ call[d].seen = None
                   /\ call[d].pc = "opened" =>
                        /\ pulls[a] # "none" /\ content[a] = call[d].manifest
                        /\ call[d].seen = None)'
    <2>1. CASE d = c
      BY <1>2, <1>3, <1>4, <1>5, <2>1 DEF HoldsBranch
    <2>2. CASE d # c
      BY <1>2, <1>3, <1>4, <1>5, <2>2 DEF HoldsBranch, GitInv
    <2> QED
      BY <2>1, <2>2
  <1>8. content[b] # None
    BY <1>1, <1>4, GitOpsAssumption
  <1>9. \A a \in Branch :
          pulls'[a] # "none" => a \in refs' /\ content'[a] # None /\ forkedFrom'[a] = None
    BY <1>2, <1>4, <1>5, <1>8 DEF GitInv
  <1> QED
    BY <1>6, <1>7, <1>9 DEF GitInv

\* The maintainers act on pull requests, never on a branch without one.
LEMMA ReviewInv ==
  ASSUME GitInv, GitTypeOK', NEW b \in Branch, NEW s \in {"merged", "closed"},
         pulls[b] = "open", pulls' = [pulls EXCEPT ![b] = s],
         UNCHANGED <<refs, forkedFrom, content, call>>
  PROVE  GitInv'
  <1>1. pulls'[b] # "none" /\ \A a \in Branch : a # b => pulls'[a] = pulls[a]
    BY DEF GitInv, GitTypeOK
  <1>2. OneCallPerBranch'
    BY DEF GitInv, OneCallPerBranch, HoldsBranch
  <1>3. \A d \in Callers : HoldsBranch(d) => call[d].branch \in Branch
    BY DEF GitInv, GitTypeOK, HoldsBranch
  <1> QED
    BY <1>1, <1>2, <1>3 DEF GitInv, HoldsBranch

\* One step of CreateMigrationPR keeps the invariant.
LEMMA PublishingInv ==
  ASSUME GitInv, NEW c \in Callers, Publishing(c)
  PROVE  GitInv'
  <1>0. GitTypeOK /\ GitTypeOK'
    BY PublishingTyped DEF GitInv
  <1>1. CASE WriteManifest(c) \/ WriteBody(c) \/ DiskFails(c) \/ RequestLost(c)
    <2>1. \E p \in {"write_body", "dry_run", "failed"} : Goto(c, p)
      BY <1>1 DEF WriteManifest, AfterManifest, WriteBody, DiskFails, RequestLost
    <2>2. UNCHANGED repoVars
      BY <1>1 DEF WriteManifest, WriteBody, DiskFails, RequestLost, repoVars
    <2> QED
      BY <1>0, <2>1, <2>2, GotoMoves, QuietStep
  <1>2. CASE GetRef(c)
    <2>1. /\ call'[c].pc \in {"create_ref", "failed"}
          /\ \A d \in Callers : d # c => call'[d] = call[d]
      BY <1>0, <1>2, GotoMoves DEF GetRef, GitTypeOK
    <2> QED
      BY <1>0, <1>2, <2>1, QuietStep DEF GetRef
  <1> QED
    BY <1>0, <1>1, <1>2, CreateRefInv, CreateFileInv, CreatePullInv DEF Publishing

\* The environment keeps the invariant.
LEMMA EnvironmentInv ==
  ASSUME GitInv, Environment
  PROVE  GitInv'
  <1>0. GitTypeOK'
    BY EnvironmentTyped DEF GitInv
  <1>1. CASE Tick
    BY <1>0, <1>1 DEF Tick, GitInv, OneCallPerBranch, HoldsBranch, repoVars
  <1>2. ASSUME NEW b \in Branch, Merge(b) \/ ClosePull(b) PROVE GitInv'
    BY <1>0, <1>2, ReviewInv DEF Merge, ClosePull
  <1> QED
    BY <1>1, <1>2, GitOpsAssumption DEF Environment

\* A call begins, or is dropped by a caller that returns or dies.
LEMMA CallInv ==
  ASSUME GitInv, NEW c \in Callers, NEW n \in Names, NEW m \in Manifests,
         NEW dryRunDir, NEW repo, Call(c, n, m, dryRunDir, repo)
  PROVE  GitInv'
  <1>1. GitTypeOK /\ GitTypeOK'
    BY CallTyped DEF GitInv
  <1>2. /\ call'[c].pc \notin {"create_file", "create_pull", "opened"}
        /\ \A d \in Callers : d # c => call'[d] = call[d]
    BY <1>1 DEF Call, FirstStep, GitTypeOK
  <1> QED
    BY <1>1, <1>2, QuietStep DEF Call

LEMMA ResetInv ==
  ASSUME GitInv, NEW c \in Callers, call' = [call EXCEPT ![c] = NoCall],
         UNCHANGED repoVars, GitTypeOK'
  PROVE  GitInv'
  <1>1. /\ call'[c].pc \notin {"create_file", "create_pull", "opened"}
        /\ \A d \in Callers : d # c => call'[d] = call[d]
    BY DEF GitInv, GitTypeOK, NoCall
  <1> QED
    BY <1>1, QuietStep

\* GitInv holds throughout.
THEOREM GitInvariant == GitSpec => []GitInv
  <1>1. GitInv /\ [GitNext]_gitVars => GitInv'
    <2> SUFFICES ASSUME GitInv, [GitNext]_gitVars PROVE GitInv'
      OBVIOUS
    <2>1. CASE Environment
      BY <2>1, EnvironmentInv
    <2>2. ASSUME NEW c \in Callers, Caller(c) PROVE GitInv'
      BY <2>2, CallInv, PublishingInv, ResetInv, ResetTyped DEF Caller, Return, Crash, GitInv
    <2>3. CASE UNCHANGED gitVars
      BY <2>3 DEF gitVars, GitInv, GitTypeOK, OneCallPerBranch, HoldsBranch
    <2> QED
      BY <2>1, <2>2, <2>3 DEF GitNext
  <1> QED
    BY GitInvInit, <1>1, PTL DEF GitSpec

\* Once its pull request is open nothing touches a branch.
PullsKeepTheirText ==
  \A b \in Branch : pulls[b] # "none" => pulls'[b] # "none" /\ content'[b] = content[b]

LEMMA PublishingKeepsText ==
  ASSUME GitInv, NEW c \in Callers, Publishing(c)
  PROVE  PullsKeepTheirText
  <1> DEFINE a == call[c].branch
  <1>1. CASE UNCHANGED <<content, pulls>>
    BY <1>1 DEF PullsKeepTheirText
  <1>2. CASE CreateRef(c)
    <2>1. a \in Branch /\ pulls' = pulls /\ content \in [Branch -> File]
      BY <1>2 DEF CreateRef, GitInv, GitTypeOK
    <2>2. content' = content \/ (a \notin refs /\ content' = [content EXCEPT ![a] = call[c].seen])
      BY <1>2 DEF CreateRef, RefIsFree
    <2>3. a \notin refs => pulls[a] = "none"
      BY <2>1 DEF GitInv
    <2> QED
      BY <2>1, <2>2, <2>3 DEF PullsKeepTheirText
  <1>3. CASE CreateFile(c)
    <2>1. a \in Branch /\ pulls' = pulls /\ content \in [Branch -> File] /\ pulls[a] = "none"
      BY <1>3 DEF CreateFile, GitInv, GitTypeOK
    <2>2. content' = content \/ content' = [content EXCEPT ![a] = call[c].manifest]
      BY <1>3 DEF CreateFile
    <2> QED
      BY <2>1, <2>2 DEF PullsKeepTheirText
  <1>4. CASE CreatePull(c)
    <2>1. pulls \in [Branch -> {"none", "open", "merged", "closed"}]
      BY DEF GitInv, GitTypeOK
    <2>2. pulls' = [pulls EXCEPT ![a] = "open"] /\ content' = content
      BY <1>4 DEF CreatePull
    <2> QED
      BY <2>1, <2>2 DEF PullsKeepTheirText
  <1>5. CreateRef(c) \/ CreateFile(c) \/ CreatePull(c) \/ UNCHANGED <<content, pulls>>
    BY DEF Publishing, WriteManifest, WriteBody, DiskFails, GetRef, RequestLost, repoVars
  <1> QED
    BY <1>1, <1>2, <1>3, <1>4, <1>5

LEMMA EnvironmentKeepsText ==
  ASSUME GitInv, Environment
  PROVE  PullsKeepTheirText
  <1>1. pulls \in [Branch -> {"none", "open", "merged", "closed"}]
    BY DEF GitInv, GitTypeOK
  <1>2. ASSUME NEW b \in Branch, Merge(b) \/ ClosePull(b) PROVE PullsKeepTheirText
    BY <1>1, <1>2 DEF Merge, ClosePull, PullsKeepTheirText
  <1>3. CASE Tick
    BY <1>3 DEF Tick, repoVars, PullsKeepTheirText
  <1> QED
    BY <1>2, <1>3, GitOpsAssumption DEF Environment

\* No two calls ever work on the same branch (github.go:27).
THEOREM CallsOwnTheirBranches == GitSpec => []OneCallPerBranch
  <1>1. GitInv => OneCallPerBranch
    BY DEF GitInv
  <1> QED
    BY GitInvariant, <1>1, PTL

\* A returned URL is that of a pull request with the caller's manifest (github.go:54).
THEOREM OpenedPullsHoldManifests == GitSpec => []OpenedPullHoldsManifest
  <1>1. GitInv => OpenedPullHoldsManifest
    BY DEF GitInv, OpenedPullHoldsManifest
  <1> QED
    BY GitInvariant, <1>1, PTL

\* A base branch that holds the file is never proposed to again (github.go:36).
THEOREM MergedNamesStayMerged == GitSpec => []NoPullOnceMerged
  <1>1. GitInv => NoPullOnceMerged
    BY DEF GitInv, NoPullOnceMerged
  <1> QED
    BY GitInvariant, <1>1, PTL

\* The first manifest merged for a name is the last (github.go:36).
THEOREM FirstMergesAreFinal == GitSpec => FirstMergeIsFinal
  <1> DEFINE A == \A n \in Names : base[n] # None => base'[n] = base[n]
  <1>1. GitInv /\ [GitNext]_gitVars => [A]_gitVars
    <2> SUFFICES ASSUME GitInv, GitNext PROVE A
      OBVIOUS
    <2>1. ASSUME NEW b \in Branch, Merge(b) PROVE A
      <3>1. /\ base[b[1]] \in {None, content[b]}
            /\ base' = [base EXCEPT ![b[1]] = content[b]]
            /\ base \in [Names -> File]
        BY <2>1 DEF Merge, GitInv, GitTypeOK
      <3> QED
        BY <3>1
    <2>2. CASE UNCHANGED base
      BY <2>2
    <2>3. ASSUME NEW c \in Callers, Caller(c) PROVE UNCHANGED base
      BY <2>3 DEF Caller, Call, Publishing, WriteManifest, WriteBody, DiskFails, GetRef, CreateRef,
                  CreateFile, CreatePull, RequestLost, Return, Crash, repoVars
    <2>4. ASSUME NEW b \in Branch, ClosePull(b) PROVE UNCHANGED base
      BY <2>4 DEF ClosePull
    <2>5. CASE Tick
      BY <2>2, <2>5 DEF Tick, repoVars
    <2> QED
      BY <2>1, <2>2, <2>3, <2>4, <2>5, GitOpsAssumption DEF GitNext, Environment
  <1> QED
    BY GitInvariant, <1>1, PTL DEF GitSpec, FirstMergeIsFinal

-----------------------------------------------------------------------------
(***************************************************************************)
(* The dry run.  A directory belongs to one caller; between the two writes *)
(* the first file is already the new one, whatever was there before.       *)
(***************************************************************************)
FilesOf(c) ==
  /\ call[c].pc = "write_body" => artifacts[c][NameOf(c)].yaml = call[c].manifest
  /\ call[c].pc = "dry_run" =>
       artifacts[c][NameOf(c)] = [yaml |-> call[c].manifest, body |-> call[c].manifest]

LEMMA FilesStay ==
  ASSUME NEW c \in Callers, FilesOf(c), call'[c] = call[c], artifacts'[c] = artifacts[c]
  PROVE  FilesOf(c)'
  BY DEF FilesOf, NameOf

LEMMA PublishingKeepsFiles ==
  ASSUME GitTypeOK, NEW c \in Callers, FilesOf(c), Publishing(c)
  PROVE  FilesOf(c)' /\ \A d \in Callers : d # c => call'[d] = call[d] /\ artifacts'[d] = artifacts[d]
  <1> DEFINE n == NameOf(c)
             m == call[c].manifest
             dir == artifacts[c][n]
  <1>0. call[c].pc # "idle" => n \in Names /\ dir \in [yaml : File, body : File]
    BY DEF GitTypeOK, NameOf, Branch
  <1>1. ASSUME NEW p, Goto(c, p)
        PROVE  /\ call'[c].pc = p /\ NameOf(c)' = n /\ call'[c].manifest = m
               /\ \A d \in Callers : d # c => call'[d] = call[d]
    BY <1>1, GotoMoves DEF NameOf
  <1>2. ASSUME NEW p, Goto(c, p), p \notin {"write_body", "dry_run"}, UNCHANGED artifacts
        PROVE  FilesOf(c)' /\ \A d \in Callers : d # c => call'[d] = call[d] /\ artifacts'[d] = artifacts[d]
    BY <1>1, <1>2 DEF FilesOf
  <1>3. CASE WriteManifest(c)
    <2>1. /\ Goto(c, "write_body") /\ n \in Names
          /\ artifacts' = [artifacts EXCEPT ![c] = [artifacts[c] EXCEPT ![n] = [dir EXCEPT !.yaml = m]]]
      BY <1>0, <1>3 DEF WriteManifest, AfterManifest
    <2>2. artifacts'[c][n].yaml = m
      BY <1>0, <1>3, <2>1 DEF WriteManifest, GitTypeOK
    <2>3. \A d \in Callers : d # c => artifacts'[d] = artifacts[d]
      BY <2>1 DEF GitTypeOK
    <2> QED
      BY <1>1, <2>1, <2>2, <2>3 DEF FilesOf
  <1>4. CASE WriteBody(c)
    <2>1. /\ Goto(c, "dry_run") /\ n \in Names /\ dir.yaml = m
          /\ artifacts' = [artifacts EXCEPT ![c] = [artifacts[c] EXCEPT ![n] = [dir EXCEPT !.body = m]]]
      BY <1>0, <1>4 DEF WriteBody, FilesOf
    <2>2. [dir EXCEPT !.body = m] = [yaml |-> m, body |-> m]
      BY <1>0, <1>4, <2>1 DEF WriteBody
    <2>3. artifacts'[c][n] = [yaml |-> m, body |-> m]
      BY <2>1, <2>2 DEF GitTypeOK
    <2>4. \A d \in Callers : d # c => artifacts'[d] = artifacts[d]
      BY <2>1 DEF GitTypeOK
    <2> QED
      BY <1>1, <2>1, <2>3, <2>4 DEF FilesOf
  <1>5. CASE GetRef(c) /\ ~Goto(c, "failed")
    <2>1. /\ call'[c].pc = "create_ref"
          /\ \A d \in Callers : d # c => call'[d] = call[d]
          /\ artifacts' = artifacts
      BY <1>5 DEF GetRef, GitTypeOK
    <2> QED
      BY <2>1 DEF FilesOf
  <1>6. Publishing(c) =>
          \/ WriteManifest(c) \/ WriteBody(c) \/ (GetRef(c) /\ ~Goto(c, "failed"))
          \/ UNCHANGED artifacts /\ \E p \in {"failed", "create_file", "create_pull", "opened"} : Goto(c, p)
    BY DEF Publishing, DiskFails, GetRef, CreateRef, CreateFile, CreatePull, RequestLost, Answer
  <1> QED
    BY <1>2, <1>3, <1>4, <1>5, <1>6

\* A dry run that reports success leaves both files, of one manifest (pr.go:67-79).
THEOREM DryRunsLeaveBothFiles == GitSpec => []DryRunLeavesBothFiles
  <1> DEFINE Inv == \A c \in Callers : FilesOf(c)
  <1>1. GitInit => Inv
    <2> SUFFICES ASSUME GitInit, NEW c \in Callers PROVE FilesOf(c)
      OBVIOUS
    <2>1. call[c].pc = "idle"
      BY DEF GitInit, NoCall
    <2> QED
      BY <2>1 DEF FilesOf
  <1>2. GitTypeOK /\ Inv /\ [GitNext]_gitVars => Inv'
    <2> SUFFICES ASSUME GitTypeOK, Inv, [GitNext]_gitVars, NEW d \in Callers PROVE FilesOf(d)'
      OBVIOUS
    <2>1. ASSUME NEW c \in Callers, Publishing(c) PROVE FilesOf(d)'
      BY <2>1, PublishingKeepsFiles, FilesStay
    <2>2. ASSUME NEW c \in Callers, Return(c) \/ Crash(c) PROVE FilesOf(d)'
      BY <2>2, FilesStay DEF Return, Crash, NoCall, FilesOf, GitTypeOK
    <2>3. ASSUME NEW c \in Callers, NEW n \in Names, NEW m \in Manifests, NEW dryRunDir, NEW repo,
                 Call(c, n, m, dryRunDir, repo)
          PROVE  FilesOf(d)'
      <3>1. CASE d = c
        <4>1. call'[c].pc = FirstStep(c, dryRunDir, repo)
          BY <2>3 DEF Call, GitTypeOK
        <4> QED
          BY <3>1, <4>1 DEF FirstStep, FilesOf
      <3>2. CASE d # c
        BY <2>3, <3>2, FilesStay DEF Call, GitTypeOK
      <3> QED
        BY <3>1, <3>2
    <2>4. Environment \/ UNCHANGED gitVars => UNCHANGED <<call, artifacts>>
      BY DEF Environment, Tick, Merge, ClosePull, gitVars
    <2> QED
      BY <2>1, <2>2, <2>3, <2>4, FilesStay DEF GitNext, Caller
  <1>3. Inv => DryRunLeavesBothFiles
    BY DEF FilesOf, DryRunLeavesBothFiles
  <1> QED
    BY GitTypeCorrect, <1>1, <1>2, <1>3, PTL DEF GitSpec

-----------------------------------------------------------------------------
(***************************************************************************)
(* The refinement: GitOps implements ProposalBoard.                        *)
(***************************************************************************)

\* Moving a call moves its outcome.
LEMMA GotoTells ==
  ASSUME GitTypeOK, NEW c \in Callers, NEW p, Goto(c, p)
  PROVE  Outcomes' = [Outcomes EXCEPT ![c].pc = AbstractPC(p)]
  <1>1. \A d \in Callers : d # c => call'[d] = call[d]
    BY GotoMoves
  <1>2. /\ call'[c].pc = p
        /\ call'[c].branch = call[c].branch
        /\ call'[c].manifest = call[c].manifest
    BY GotoMoves
  <1>3. \A d \in Callers : Outcomes'[d] = [Outcomes EXCEPT ![c].pc = AbstractPC(p)][d]
    BY <1>1, <1>2 DEF Outcomes
  <1> QED
    BY <1>3 DEF Outcomes

\* A move between steps that look the same from outside changes no outcome.
LEMMA SilentGoto ==
  ASSUME GitTypeOK, NEW c \in Callers, NEW p, Goto(c, p), AbstractPC(p) = AbstractPC(call[c].pc)
  PROVE  Outcomes' = Outcomes
  <1>1. Outcomes' = [Outcomes EXCEPT ![c].pc = AbstractPC(call[c].pc)]
    BY GotoTells
  <1> QED
    BY <1>1 DEF Outcomes

\* A branch without a pull request shows nothing.
LEMMA TextUnchanged ==
  ASSUME GitTypeOK, NEW b \in Branch, pulls[b] = "none", UNCHANGED pulls,
         \A a \in Branch : a # b => content'[a] = content[a]
  PROVE  ProposalText' = ProposalText
  BY DEF ProposalText

LEMMA CallRefines ==
  ASSUME GitTypeOK, NEW c \in Callers, NEW n \in Names, NEW m \in Manifests,
         NEW dryRunDir, NEW repo, Call(c, n, m, dryRunDir, repo)
  PROVE  Board!Ask(c)
  <1> DEFINE b == <<n, clock>>
             pc == AbstractPC(FirstStep(c, dryRunDir, repo))
             ask == [pc |-> pc, branch |-> b, manifest |-> m]
  <1>1. b \in Branch
    BY DEF GitTypeOK, Branch
  <1>2. pc \in {"busy", "failed"}
    BY DEF FirstStep, AbstractPC
  <1>3. Outcomes[c].pc = "idle"
    BY DEF Call, Outcomes, AbstractPC
  <1>4. /\ call'[c] = [pc |-> FirstStep(c, dryRunDir, repo), branch |-> b, manifest |-> m,
                       seen |-> None]
        /\ \A d \in Callers : d # c => call'[d] = call[d]
    BY DEF Call, BranchFor, GitTypeOK
  <1>5. \A d \in Callers : Outcomes'[d] = [Outcomes EXCEPT ![c] = ask][d]
    BY <1>4 DEF Outcomes
  <1>6. Outcomes' = [Outcomes EXCEPT ![c] = ask]
    BY <1>5 DEF Outcomes
  <1>7. UNCHANGED <<base, ProposalText, pulls>>
    BY DEF Call, ProposalText, repoVars
  <1> HIDE DEF b, pc
  <1> QED
    BY <1>1, <1>2, <1>3, <1>6, <1>7 DEF Board!Ask

LEMMA PublishingRefines ==
  ASSUME GitInv, NEW c \in Callers, Publishing(c)
  PROVE  Board!Publish(c) \/ Board!GiveUp(c) \/ UNCHANGED Board!boardVars
  <1> DEFINE b == call[c].branch
  <1>0. GitTypeOK
    BY DEF GitInv
  <1>1. ASSUME call[c].pc \in GitHubSteps \cup {"write_manifest", "write_body"}
        PROVE  /\ Outcomes[c].pc = "busy"
               /\ AbstractPC(call[c].pc) = "busy"
               /\ b \in Branch
    BY <1>0, <1>1 DEF Outcomes, AbstractPC, GitHubSteps, GitTypeOK
  <1>2. ASSUME call[c].pc \in GitHubSteps \cup {"write_manifest", "write_body"},
               NEW p \in {"failed", "dry_run"}, Goto(c, p), UNCHANGED <<base, ProposalText, pulls>>
        PROVE  Board!GiveUp(c)
    <2>1. Outcomes' = [Outcomes EXCEPT ![c].pc = p]
      BY <1>0, <1>2, GotoTells DEF AbstractPC
    <2> QED
      BY <1>1, <1>2, <2>1 DEF Board!GiveUp, Board!Tell
  <1>3. ASSUME call[c].pc \in GitHubSteps \cup {"write_manifest", "write_body"},
               NEW p \in GitHubSteps \cup {"write_body"}, Goto(c, p),
               UNCHANGED <<base, ProposalText, pulls>>
        PROVE  UNCHANGED Board!boardVars
    <2>1. AbstractPC(p) = "busy"
      BY <1>3 DEF AbstractPC, GitHubSteps
    <2>2. Outcomes' = Outcomes
      BY <1>0, <1>1, <1>3, <2>1, SilentGoto
    <2> QED
      BY <1>3, <2>2 DEF Board!boardVars
  <1>4. CASE WriteManifest(c) \/ WriteBody(c) \/ DiskFails(c) \/ RequestLost(c)
    <2>1. /\ call[c].pc \in GitHubSteps \cup {"write_manifest", "write_body"}
          /\ UNCHANGED repoVars
      BY <1>4 DEF WriteManifest, WriteBody, DiskFails, RequestLost
    <2>2. UNCHANGED <<base, ProposalText, pulls>>
      BY <2>1 DEF repoVars, ProposalText
    <2>3. Goto(c, "write_body") \/ Goto(c, "dry_run") \/ Goto(c, "failed")
      BY <1>4 DEF WriteManifest, AfterManifest, WriteBody, DiskFails, RequestLost
    <2> QED
      BY <1>2, <1>3, <2>1, <2>2, <2>3
  <1>5. CASE GetRef(c)
    <2>1. call[c].pc \in GitHubSteps /\ UNCHANGED <<base, ProposalText, pulls>>
      BY <1>5 DEF GetRef, GitHubSteps, repoVars, ProposalText
    <2>2. CASE Goto(c, "failed")
      BY <1>2, <2>1, <2>2
    <2>3. CASE call' = [call EXCEPT ![c].pc = "create_ref", ![c].seen = base[NameOf(c)]]
      <3>1. \A d \in Callers : Outcomes'[d] = Outcomes[d]
        BY <1>0, <1>1, <2>1, <2>3 DEF Outcomes, AbstractPC, GitTypeOK
      <3>2. Outcomes' = Outcomes
        BY <3>1 DEF Outcomes
      <3> QED
        BY <2>1, <3>2 DEF Board!boardVars
    <2> QED
      BY <1>5, <2>2, <2>3 DEF GetRef
  <1>6. CASE CreateRef(c)
    <2>1. call[c].pc \in GitHubSteps /\ UNCHANGED <<base, pulls>>
      BY <1>6 DEF CreateRef, GitHubSteps
    <2>2. CASE b \in refs
      BY <1>2, <1>6, <2>1, <2>2 DEF CreateRef, RefIsFree, ProposalText
    <2>3. CASE b \notin refs
      <3>1. /\ content' = [content EXCEPT ![b] = call[c].seen]
            /\ Goto(c, "create_file") \/ Goto(c, "failed")
        BY <1>6, <2>3 DEF CreateRef, RefIsFree, Answer
      <3>2. pulls[b] = "none"
        BY <1>1, <2>1, <2>3 DEF GitInv
      <3>3. UNCHANGED ProposalText
        BY <1>0, <1>1, <2>1, <3>1, <3>2, TextUnchanged DEF GitTypeOK
      <3> QED
        BY <1>2, <1>3, <2>1, <3>1, <3>3 DEF GitHubSteps
    <2> QED
      BY <2>2, <2>3
  <1>7. CASE CreateFile(c)
    <2>1. /\ call[c].pc \in GitHubSteps
          /\ UNCHANGED <<base, pulls>>
          /\ pulls[b] = "none"
          /\ Goto(c, "create_pull") \/ Goto(c, "failed")
          /\ content' = content \/ content' = [content EXCEPT ![b] = call[c].manifest]
      BY <1>7 DEF CreateFile, GitHubSteps, GitInv, Answer
    <2>2. UNCHANGED ProposalText
      BY <1>0, <1>1, <2>1, TextUnchanged DEF GitTypeOK
    <2> QED
      BY <1>2, <1>3, <2>1, <2>2 DEF GitHubSteps
  <1>8. CASE CreatePull(c)
    <2>1. /\ call[c].pc = "create_pull"
          /\ pulls[b] = "none"
          /\ content[b] = call[c].manifest
          /\ call[c].manifest \in Manifests
          /\ pulls' = [pulls EXCEPT ![b] = "open"]
          /\ UNCHANGED <<base, content>>
          /\ Goto(c, "opened") \/ Goto(c, "failed")
      BY <1>8 DEF CreatePull, GitInv, GitTypeOK, Answer
    <2>2. Outcomes[c].pc = "busy" /\ b \in Branch
      BY <1>1, <2>1 DEF GitHubSteps
    <2>3. Outcomes' = [Outcomes EXCEPT ![c].pc = "opened"] \/ Outcomes' = [Outcomes EXCEPT ![c].pc = "failed"]
      BY <1>0, <2>1, GotoTells DEF AbstractPC
    <2>4. \A a \in Branch : ProposalText'[a] = [ProposalText EXCEPT ![b] = call[c].manifest][a]
      <3> SUFFICES ASSUME NEW a \in Branch
                   PROVE  ProposalText'[a] = [ProposalText EXCEPT ![b] = call[c].manifest][a]
        OBVIOUS
      <3>1. CASE a = b
        BY <1>0, <2>1, <2>2, <3>1 DEF ProposalText, GitTypeOK
      <3>2. CASE a # b
        BY <1>0, <2>1, <2>2, <3>2 DEF ProposalText, GitTypeOK
      <3> QED
        BY <3>1, <3>2
    <2>5. ProposalText' = [ProposalText EXCEPT ![b] = call[c].manifest]
      BY <2>4 DEF ProposalText
    <2>6. Outcomes[c].branch = b /\ Outcomes[c].manifest = call[c].manifest
      BY DEF Outcomes
    <2> QED
      BY <2>1, <2>2, <2>3, <2>5, <2>6 DEF Board!Publish, Board!Tell
  <1> QED
    BY <1>4, <1>5, <1>6, <1>7, <1>8 DEF Publishing

LEMMA ResetRefines ==
  ASSUME GitTypeOK, NEW c \in Callers, call' = [call EXCEPT ![c] = NoCall],
         UNCHANGED repoVars
  PROVE  Board!Leave(c)
  <1>1. \A d \in Callers : Outcomes'[d] = [Outcomes EXCEPT ![c] = Board!Idle][d]
    BY DEF Outcomes, NoCall, AbstractPC, Board!Idle, GitTypeOK
  <1>2. Outcomes' = [Outcomes EXCEPT ![c] = Board!Idle]
    BY <1>1 DEF Outcomes
  <1> QED
    BY <1>2 DEF Board!Leave, repoVars, ProposalText

LEMMA EnvironmentRefines ==
  ASSUME GitInv, Environment
  PROVE  (\E b \in Branch : Board!Accept(b) \/ Board!Reject(b)) \/ UNCHANGED Board!boardVars
  <1>0. GitTypeOK
    BY DEF GitInv
  <1>1. CASE Tick
    BY <1>1 DEF Tick, repoVars, Board!boardVars, ProposalText, Outcomes
  <1>2. ASSUME NEW b \in Branch, NEW s \in {"merged", "closed"}, pulls[b] = "open",
               pulls' = [pulls EXCEPT ![b] = s], UNCHANGED <<content, call>>
        PROVE  UNCHANGED <<ProposalText, Outcomes>>
    <2>1. \A a \in Branch : ProposalText'[a] = ProposalText[a]
      BY <1>0, <1>2 DEF ProposalText, GitTypeOK
    <2> QED
      BY <1>2, <2>1 DEF ProposalText, Outcomes
  <1>3. ASSUME NEW b \in Branch, Merge(b) PROVE Board!Accept(b)
    <2>1. forkedFrom[b] = None /\ ProposalText[b] = content[b]
      BY <1>3 DEF Merge, GitInv, ProposalText
    <2> QED
      BY <1>2, <1>3, <2>1 DEF Merge, Board!Accept
  <1>4. ASSUME NEW b \in Branch, ClosePull(b) PROVE Board!Reject(b)
    BY <1>2, <1>4 DEF ClosePull, Board!Reject
  <1> QED
    BY <1>1, <1>3, <1>4, GitOpsAssumption DEF Environment

\* CreateMigrationPR, with its lost answers and its crashes, publishes
\* atomically (github.go:12-60).
THEOREM PublicationRefinesBoard == GitSpec => PublicationIsAtomic
  <1>1. GitInit => Board!Init
    BY DEF GitInit, Board!Init, Board!Idle, ProposalText, Outcomes, NoCall, AbstractPC
  <1>2. GitInv /\ [GitNext]_gitVars => [Board!Next]_(Board!boardVars)
    <2> SUFFICES ASSUME GitInv, [GitNext]_gitVars PROVE [Board!Next]_(Board!boardVars)
      OBVIOUS
    <2>0. GitTypeOK
      BY DEF GitInv
    <2>1. CASE Environment
      BY <2>1, EnvironmentRefines DEF Board!Next
    <2>2. ASSUME NEW c \in Callers, Caller(c)
          PROVE  Board!Next \/ UNCHANGED Board!boardVars
      <3>1. CASE Publishing(c)
        BY <3>1, PublishingRefines DEF Board!Next
      <3>2. CASE Return(c) \/ Crash(c)
        BY <2>0, <3>2, ResetRefines DEF Return, Crash, Board!Next
      <3>3. ASSUME NEW n \in Names, NEW m \in Manifests, NEW dryRunDir \in BOOLEAN,
                   NEW repo \in RepoRefs, Call(c, n, m, dryRunDir, repo)
            PROVE  Board!Next
        BY <2>0, <3>3, CallRefines DEF Board!Next
      <3> QED
        BY <2>2, <3>1, <3>2, <3>3 DEF Caller
    <2>3. CASE UNCHANGED gitVars
      BY <2>3 DEF gitVars, Board!boardVars, ProposalText, Outcomes
    <2> QED
      BY <2>1, <2>2, <2>3 DEF GitNext
  <1> QED
    BY GitInvariant, <1>1, <1>2, PTL DEF GitSpec, PublicationIsAtomic, Board!BoardSpec
=============================================================================
