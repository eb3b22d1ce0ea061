------------------------------- MODULE GitOps -------------------------------
(***************************************************************************)
(* pkg/gitops: CreateMigrationPR, the four GitHub calls it makes when a    *)
(* token is present, and the two files it writes when none is.  The        *)
(* callers are the processes that call it: operator replicas               *)
(* (internal/controller) and runs of `gateshift migrate` (internal/cli).   *)
(*                                                                         *)
(* GitHub is external and modelled as the calls see it: a call may be      *)
(* refused, may be lost before it takes effect, or may take effect and     *)
(* lose its answer.  One repository and one base branch stand for the      *)
(* configured ones; the branch prefix, the same for every call, is left    *)
(* out of branch names.                                                    *)
(***************************************************************************)
EXTENDS Naturals

CONSTANTS
  Callers,        \* processes that call CreateMigrationPR
  TokenHolders,   \* the callers started with GITHUB_TOKEN set
  Names,          \* Ingress names after sanitize()
  Manifests,      \* rendered gateway-api.yaml contents
  None,           \* no file, no branch
  Unreliable,     \* do calls to GitHub and to the API server get lost
  DisksFail,      \* do file writes fail
  MaxSeconds,     \* bound: the clock stops at this second
  Reviewed        \* bound: the branches whose pull requests maintainers act on

RepoRefs == {"owner/name", "malformed"}
Branch   == Names \X (0..MaxSeconds)
File     == Manifests \cup {None}

ASSUME GitOpsAssumption ==
  /\ TokenHolders \subseteq Callers
  /\ None \notin Manifests
  /\ None \notin Branch
  /\ {Unreliable, DisksFail} \subseteq BOOLEAN
  /\ MaxSeconds \in Nat
  /\ Reviewed \subseteq Branch

VARIABLES
  clock,       \* time.Now() in whole seconds
  base,        \* base[n]: gateway-api/<n>.yaml on the base branch
  refs,        \* the branches that exist besides the base branch
  forkedFrom,  \* forkedFrom[b]: the file in the base commit b was created at
  content,     \* content[b]: the file at the head of b
  pulls,       \* pulls[b]: the pull request whose head is b
  artifacts,   \* artifacts[c][n]: the dry-run directory of n in c's file system
  call         \* call[c]: c's CreateMigrationPR call in progress

repoVars == <<base, refs, forkedFrom, content, pulls>>
gitVars  == <<clock, base, refs, forkedFrom, content, pulls, artifacts, call>>

GitHubSteps == {"get_ref", "create_ref", "create_file", "create_pull"}
Results     == {"opened", "dry_run", "failed"}
CallPC      == {"idle", "write_manifest", "write_body"} \cup GitHubSteps \cup Results

NoCall == [pc |-> "idle", branch |-> None, manifest |-> None, seen |-> None]

NameOf(c)  == call[c].branch[1]
Goto(c, p) == call' = [call EXCEPT ![c].pc = p]

\* What the caller gets back: the next step, or an error when the answer is lost.
Answer(c, p) == \/ Goto(c, p)
                \/ Unreliable /\ Goto(c, "failed")

GitInit ==
  /\ clock = 0
  /\ base = [n \in Names |-> None]
  /\ refs = {}
  /\ forkedFrom = [b \in Branch |-> None]
  /\ content = [b \in Branch |-> None]
  /\ pulls = [b \in Branch |-> "none"]
  /\ artifacts = [c \in Callers |-> [n \in Names |-> [yaml |-> None, body |-> None]]]
  /\ call = [c \in Callers |-> NoCall]

-----------------------------------------------------------------------------
(* CreateMigrationPR up to its first outside call. *)

\* splitRepo's verdict on --repo or spec.gitops.githubRepo.
RepoIsValid(repo) == repo = "owner/name"

FirstStep(c, dryRunDir, repo) ==
  IF c \notin TokenHolders \/ dryRunDir THEN "write_manifest"
  ELSE IF RepoIsValid(repo) THEN "get_ref"
  ELSE "failed"

\* The branch is named after the Ingress and the current second.
BranchForSkewed(n) == <<n, clock + 1>>  \* mutant: a second ahead
BranchFor(n) == <<n, clock>>

Call(c, n, m, dryRunDir, repo) ==
  /\ call[c].pc = "idle"
  /\ call' = [call EXCEPT ![c] = [pc |-> FirstStep(c, dryRunDir, repo),
                                  branch |-> BranchFor(n), manifest |-> m, seen |-> None]]
  /\ UNCHANGED <<clock, repoVars, artifacts>>

-----------------------------------------------------------------------------
(* Dry run: MkdirAll, then the two files one after the other. *)

AfterManifestNothing == "dry_run"  \* mutant: the body is not written
AfterManifest == "write_body"

WriteManifest(c) ==
  /\ call[c].pc = "write_manifest"
  /\ artifacts' = [artifacts EXCEPT ![c][NameOf(c)].yaml = call[c].manifest]
  /\ Goto(c, AfterManifest)
  /\ UNCHANGED <<clock, repoVars>>

WriteBody(c) ==
  /\ call[c].pc = "write_body"
  /\ artifacts' = [artifacts EXCEPT ![c][NameOf(c)].body = call[c].manifest]
  /\ Goto(c, "dry_run")
  /\ UNCHANGED <<clock, repoVars>>

\* MkdirAll or WriteFile returns an error; what was written before stays.
DiskFails(c) ==
  /\ DisksFail
  /\ call[c].pc \in {"write_manifest", "write_body"}
  /\ Goto(c, "failed")
  /\ UNCHANGED <<clock, repoVars, artifacts>>

-----------------------------------------------------------------------------
(* createGitHubPR: each call reads or changes the repository at once, and   *)
(* nothing undoes an earlier call when a later one fails.                   *)

\* Git.GetRef: the head of the base branch, with the file it holds.
GetRef(c) ==
  /\ call[c].pc = "get_ref"
  /\ \/ call' = [call EXCEPT ![c].pc = "create_ref", ![c].seen = base[NameOf(c)]]
     \/ Unreliable /\ Goto(c, "failed")
  /\ UNCHANGED <<clock, repoVars, artifacts>>

\* Git.CreateRef refuses a ref that exists.
RefIsForced(b) == TRUE  \* mutant: a forced ref update
RefIsFree(b) == b \notin refs

CreateRef(c) ==
  LET b == call[c].branch
  IN  /\ call[c].pc = "create_ref"
      /\ \/ /\ RefIsFree(b)
            /\ refs' = refs \cup {b}
            /\ forkedFrom' = [forkedFrom EXCEPT ![b] = call[c].seen]
            /\ content' = [content EXCEPT ![b] = call[c].seen]
            /\ Answer(c, "create_file")
         \/ /\ ~RefIsFree(b)
            /\ Goto(c, "failed")
            /\ UNCHANGED <<refs, forkedFrom, content>>
      /\ UNCHANGED <<clock, base, pulls, artifacts>>

\* Repositories.CreateFile carries no blob SHA, so it refuses a file that exists.
FileIsOverwritten(b) == TRUE  \* mutant: CreateFile sends the SHA of the file it replaces
FileIsNew(b) == content[b] = None

CreateFile(c) ==
  LET b == call[c].branch
  IN  /\ call[c].pc = "create_file"
      /\ \/ /\ FileIsNew(b)
            /\ content' = [content EXCEPT ![b] = call[c].manifest]
            /\ Answer(c, "create_pull")
         \/ /\ ~FileIsNew(b)
            /\ Goto(c, "failed")
            /\ UNCHANGED content
      /\ UNCHANGED <<clock, base, refs, forkedFrom, pulls, artifacts>>

CreatePull(c) ==
  /\ call[c].pc = "create_pull"
  /\ pulls' = [pulls EXCEPT ![call[c].branch] = "open"]
  /\ Answer(c, "opened")
  /\ UNCHANGED <<clock, base, refs, forkedFrom, content, artifacts>>

\* A call that never reaches GitHub, or that GitHub answers with an error.
RequestLost(c) ==
  /\ Unreliable
  /\ call[c].pc \in GitHubSteps
  /\ Goto(c, "failed")
  /\ UNCHANGED <<clock, repoVars, artifacts>>

Publishing(c) ==
  \/ WriteManifest(c) \/ WriteBody(c) \/ DiskFails(c)
  \/ GetRef(c) \/ CreateRef(c) \/ CreateFile(c) \/ CreatePull(c)
  \/ RequestLost(c)

-----------------------------------------------------------------------------
(* The maintainers of the repository, and time. *)

\* Git merges the file cleanly when the base branch still holds what the
\* branch started from, or already holds what it adds.
Merge(b) ==
  /\ pulls[b] = "open"
  /\ base[b[1]] \in {forkedFrom[b], content[b]}
  /\ base' = [base EXCEPT ![b[1]] = content[b]]
  /\ pulls' = [pulls EXCEPT ![b] = "merged"]
  /\ UNCHANGED <<clock, refs, forkedFrom, content, artifacts, call>>

ClosePull(b) ==
  /\ pulls[b] = "open"
  /\ pulls' = [pulls EXCEPT ![b] = "closed"]
  /\ UNCHANGED <<clock, base, refs, forkedFrom, content, artifacts, call>>

Tick ==
  /\ clock < MaxSeconds
  /\ clock' = clock + 1
  /\ UNCHANGED <<repoVars, artifacts, call>>

Environment == Tick \/ \E b \in Reviewed : Merge(b) \/ ClosePull(b)

-----------------------------------------------------------------------------
(* The component on its own: callers that call with any arguments, use the  *)
(* result and call again, and die at any point.  `gateshift migrate` is     *)
(* such a caller: it passes a dry-run directory unless --auto-pr is given.  *)

Return(c) ==
  /\ call[c].pc \in Results
  /\ call' = [call EXCEPT ![c] = NoCall]
  /\ UNCHANGED <<clock, repoVars, artifacts>>

Crash(c) ==
  /\ call[c].pc \notin Results \cup {"idle"}
  /\ call' = [call EXCEPT ![c] = NoCall]
  /\ UNCHANGED <<clock, repoVars, artifacts>>

Caller(c) ==
  \/ \E n \in Names, m \in Manifests, dryRunDir \in BOOLEAN, repo \in RepoRefs :
        Call(c, n, m, dryRunDir, repo)
  \/ Publishing(c)
  \/ Return(c)
  \/ Crash(c)

GitNext == Environment \/ \E c \in Callers : Caller(c)

GitSpec == GitInit /\ [][GitNext]_gitVars

-----------------------------------------------------------------------------
(* Properties *)

\* Type invariant of the repository and of the calls.
GitTypeOK ==
  /\ clock \in 0..MaxSeconds
  /\ base \in [Names -> File]
  /\ refs \subseteq Branch
  /\ forkedFrom \in [Branch -> File]
  /\ content \in [Branch -> File]
  /\ pulls \in [Branch -> {"none", "open", "merged", "closed"}]
  /\ artifacts \in [Callers -> [Names -> [yaml : File, body : File]]]
  /\ call \in [Callers -> [pc : CallPC, branch : Branch \cup {None},
                           manifest : File, seen : File]]
  /\ \A c \in Callers : call[c].pc # "idle" => /\ call[c].branch \in Branch
                                               /\ call[c].manifest \in Manifests

HoldsBranch(c) == call[c].pc \in {"create_file", "create_pull", "opened"}

\* Branch names repeat within a second, yet two calls never work on the same
\* branch: Git.CreateRef, which fails on a ref that exists, decides between
\* them (pkg/gitops/pr.go:45, github.go:27).
OneCallPerBranch ==
  \A c, d \in Callers :
    /\ HoldsBranch(c)
    /\ HoldsBranch(d)
    /\ call[c].branch = call[d].branch
    => c = d

\* A URL that CreateMigrationPR returns is that of a pull request whose branch
\* holds the caller's own manifest, whatever other calls did meanwhile
\* (github.go:54).
OpenedPullHoldsManifest ==
  \A c \in Callers :
    call[c].pc = "opened" =>
      /\ pulls[call[c].branch] # "none"
      /\ content[call[c].branch] = call[c].manifest

\* The first merged manifest of a name stays: CreateFile sends no blob SHA, so
\* no later pull request, opened before or after the merge, can replace it
\* (github.go:36-40).
FirstMergeIsFinal ==
  [][\A n \in Names : base[n] # None => base'[n] = base[n]]_gitVars

\* Once a call has read a base branch that holds the manifest's file, it opens
\* no pull request: it leaves a branch behind and fails (github.go:35-43).
NoPullOnceMerged ==
  \A c \in Callers :
    call[c].pc \in {"create_pull", "opened"} => call[c].seen = None

\* The inductive invariant: a branch belongs to the one call that created it until
\* the pull request is open, and pull requests start from a base without the file.
GitInv ==
  /\ GitTypeOK
  /\ OneCallPerBranch
  /\ \A c \in Callers :
       LET b == call[c].branch
       IN  /\ HoldsBranch(c) => b \in refs
           /\ call[c].pc = "create_file" =>
                /\ pulls[b] = "none"
                /\ content[b] = call[c].seen
                /\ forkedFrom[b] = call[c].seen
           /\ call[c].pc = "create_pull" =>
                /\ pulls[b] = "none"
                /\ content[b] = call[c].manifest
                /\ forkedFrom[b] = None
                /\ call[c].seen = None
           /\ call[c].pc = "opened" =>
                /\ pulls[b] # "none"
                /\ content[b] = call[c].manifest
                /\ call[c].seen = None
  /\ \A b \in Branch :
       pulls[b] # "none" => b \in refs /\ content[b] # None /\ forkedFrom[b] = None

\* A dry run that reports success leaves both of its files in the directory,
\* for the same manifest, even after earlier runs that died between the two
\* writes (pr.go:67-79).
DryRunLeavesBothFiles ==
  \A c \in Callers :
    call[c].pc = "dry_run" =>
      artifacts[c][NameOf(c)] = [yaml |-> call[c].manifest, body |-> call[c].manifest]

\* The refinement: to everyone else a branch is its pull request, and the calls
\* before the last one are not visible.
AbstractPC(pc) ==
  IF pc \in {"idle", "opened", "dry_run", "failed"} THEN pc ELSE "busy"

ProposalText == [b \in Branch |-> IF pulls[b] = "none" THEN None ELSE content[b]]

Outcomes == [c \in Callers |-> [pc |-> AbstractPC(call[c].pc), branch |-> call[c].branch,
                                manifest |-> call[c].manifest]]

Board == INSTANCE ProposalBoard
           WITH Proposals <- Branch, approved <- base, text <- ProposalText,
                state <- pulls, outcome <- Outcomes

\* CreateMigrationPR publishes atomically: of the branch, the commit and the
\* pull request it makes one after the other, with failures and crashes in
\* between, reviewers only ever see complete proposals (github.go:12-60).
PublicationIsAtomic == Board!BoardSpec
=============================================================================
