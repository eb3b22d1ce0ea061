---------------------------- MODULE ProposalBoard ----------------------------
(***************************************************************************)
(* What callers of CreateMigrationPR and reviewers may rely on, with no    *)
(* branches and no commits: a proposal appears in one step, complete, with *)
(* a text that stays, and only a caller that was told so or an error tells *)
(* of it.  An error may hide a proposal that was made (the answer of the   *)
(* last call got lost); a success never comes without one.                 *)
(***************************************************************************)
CONSTANTS
  Callers,
  Names,      \* what is proposed for
  Proposals,  \* identities of proposals: pairs whose first element is a name
  Manifests,
  None

VARIABLES
  approved,  \* approved[n]: the accepted text for n
  text,      \* text[b]: what proposal b proposes
  state,     \* state[b]
  outcome    \* outcome[c]: what c asked for and what it was told

boardVars == <<approved, text, state, outcome>>

Idle == [pc |-> "idle", branch |-> None, manifest |-> None]

Init ==
  /\ approved = [n \in Names |-> None]
  /\ text = [b \in Proposals |-> None]
  /\ state = [b \in Proposals |-> "none"]
  /\ outcome = [c \in Callers |-> Idle]

Tell(c, pc) == outcome' = [outcome EXCEPT ![c].pc = pc]

Ask(c) ==
  /\ outcome[c].pc = "idle"
  /\ \E b \in Proposals, m \in Manifests, pc \in {"busy", "failed"} :
       outcome' = [outcome EXCEPT ![c] = [pc |-> pc, branch |-> b, manifest |-> m]]
  /\ UNCHANGED <<approved, text, state>>

Publish(c) ==
  LET b == outcome[c].branch
  IN  /\ outcome[c].pc = "busy"
      /\ state[b] = "none"
      /\ state' = [state EXCEPT ![b] = "open"]
      /\ text' = [text EXCEPT ![b] = outcome[c].manifest]
      /\ Tell(c, "opened") \/ Tell(c, "failed")
      /\ UNCHANGED approved

GiveUp(c) ==
  /\ outcome[c].pc = "busy"
  /\ Tell(c, "dry_run") \/ Tell(c, "failed")
  /\ UNCHANGED <<approved, text, state>>

Leave(c) ==
  /\ outcome' = [outcome EXCEPT ![c] = Idle]
  /\ UNCHANGED <<approved, text, state>>

\* What is accepted for a name is accepted for good.
Accept(b) ==
  /\ state[b] = "open"
  /\ approved[b[1]] \in {None, text[b]}
  /\ approved' = [approved EXCEPT ![b[1]] = text[b]]
  /\ state' = [state EXCEPT ![b] = "merged"]
  /\ UNCHANGED <<text, outcome>>

Reject(b) ==
  /\ state[b] = "open"
  /\ state' = [state EXCEPT ![b] = "closed"]
  /\ UNCHANGED <<approved, text, outcome>>

Next ==
  \/ \E c \in Callers : Ask(c) \/ Publish(c) \/ GiveUp(c) \/ Leave(c)
  \/ \E b \in Proposals : Accept(b) \/ Reject(b)

BoardSpec == Init /\ [][Next]_boardVars
=============================================================================
