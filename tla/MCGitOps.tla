------------------------------ MODULE MCGitOps ------------------------------
(* Two callers that share a repository, and may share a second.            *)
EXTENDS GitOps, TLC

CONSTANTS c1, c2, m1, m2

MCCallers      == {c1, c2}
MCTokenHolders == {c1, c2}
MCNames        == {"web"}
MCManifests    == {m1, m2}
MCReviewed     == Branch
MCSymmetry     == Permutations({c1, c2}) \cup Permutations({m1, m2})
=============================================================================
