SPECIFICATION FairSpec
CONSTANTS
  Writers = {"g1", "g2"}
  Names <- AllNames
  Position <- Places
  Request <- TwoGateways
  Initial <- EmptyOrLeftover
  MaxFaults = 2
  MaxCrashes = 2
INVARIANTS
  TypeOK
  NoMixedBundle
  PublishedIsWhole
  CommittedIsDurable
PROPERTIES
  ResidueIsReported
  NeverReplaced
  OneRenderCommits
CHECK_DEADLOCK FALSE
