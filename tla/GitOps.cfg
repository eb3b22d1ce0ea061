CONSTANTS
  c1 = c1
  c2 = c2
  m1 = m1
  m2 = m2
  None = None
  Callers <- MCCallers
  TokenHolders <- MCTokenHolders
  Names <- MCNames
  Manifests <- MCManifests
  Unreliable = TRUE
  DisksFail = TRUE
  MaxSeconds = 1
  Reviewed <- MCReviewed

SYMMETRY MCSymmetry
SPECIFICATION GitSpec

INVARIANT GitTypeOK
INVARIANT OneCallPerBranch
INVARIANT OpenedPullHoldsManifest
INVARIANT NoPullOnceMerged
INVARIANT DryRunLeavesBothFiles
PROPERTY FirstMergeIsFinal
PROPERTY PublicationIsAtomic
