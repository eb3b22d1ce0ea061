--------------------------- MODULE MigrationLedger ---------------------------
(***************************************************************************)
(* What the author of a MigrationRequest may rely on, with no caches, no    *)
(* queues and no replicas.  A request wishes for an Ingress to be translated *)
(* for a provider, and perhaps published.  A proposal is made only for what  *)
(* somebody once wished to be published, and keeps its text.  A report is    *)
(* about the wish of that moment: it says Converted to those who did not     *)
(* want to publish, and PRCreated with a proposal that has the very text the *)
(* report has.  An error leaves the last known proposal in place.            *)
(***************************************************************************)
CONSTANTS
  Requests,
  Sources,    \* what can be translated
  Providers,  \* for whom
  Proposals,  \* identities of proposals
  Texts,      \* translations: records with source and provider among others
  DryRuns,    \* what a report names in place of a proposal
  None

VARIABLES
  wishes,    \* wishes[r]: the wish of request r, or None
  wanted,    \* what was ever wished to be published
  proposals, \* proposals[b]: its text, or None
  reports    \* reports[r]: what r is told

ledgerVars == <<wishes, wanted, proposals, reports>>

Wishes  == [source : Sources, provider : Providers, publish : BOOLEAN]
Reports == [phase : {"", "Converted", "PRCreated", "PRDryRun", "Error"},
            url : Proposals \cup DryRuns \cup {None}, audit : Texts \cup {None}]
Blank   == [phase |-> "", url |-> None, audit |-> None]

Init ==
  /\ wishes = [r \in Requests |-> None]
  /\ wanted = {}
  /\ proposals = [b \in Proposals |-> None]
  /\ reports = [r \in Requests |-> Blank]

Wish(r) ==
  \E w \in Wishes :
    /\ wishes' = [wishes EXCEPT ![r] = w]
    /\ wanted' = wanted \cup {[source |-> v.source, provider |-> v.provider] : v \in {u \in {w} : u.publish}}
    /\ UNCHANGED <<proposals, reports>>

Withdraw(r) ==
  /\ wishes' = [wishes EXCEPT ![r] = None]
  /\ reports' = [reports EXCEPT ![r] = Blank]
  /\ UNCHANGED <<wanted, proposals>>

Answers(text, w) == text.source = w.source /\ text.provider = w.provider

Propose(b) ==
  /\ proposals[b] = None
  /\ \E t \in Texts :
       /\ \E w \in wanted : Answers(t, w)
       /\ proposals' = [proposals EXCEPT ![b] = t]
  /\ UNCHANGED <<wishes, wanted, reports>>

\* What may be said of wish w after the report old.
Truthful(rep, w, old) ==
  \/ /\ rep.phase = "Converted" /\ ~w.publish
     /\ rep.audit # None /\ Answers(rep.audit, w)
     /\ rep.url = old.url
  \/ /\ rep.phase = "PRCreated" /\ w.publish
     /\ rep.audit # None /\ Answers(rep.audit, w)
     /\ rep.url \in Proposals /\ proposals[rep.url] = rep.audit
  \/ /\ rep.phase = "PRDryRun" /\ w.publish
     /\ rep.audit # None /\ Answers(rep.audit, w)
     /\ rep.url \in DryRuns
  \/ /\ rep.phase = "Error"
     /\ \/ rep.audit = old.audit
        \/ rep.audit # None /\ w.publish /\ Answers(rep.audit, w)
     /\ rep.url = old.url

Report(r) ==
  /\ wishes[r] # None
  /\ \E rep \in Reports :
       /\ Truthful(rep, wishes[r], reports[r])
       /\ reports' = [reports EXCEPT ![r] = rep]
  /\ UNCHANGED <<wishes, wanted, proposals>>

Next ==
  \/ \E r \in Requests : Wish(r) \/ Withdraw(r) \/ Report(r)
  \/ \E b \in Proposals : Propose(b)

LedgerSpec == Init /\ [][Next]_ledgerVars
=============================================================================
