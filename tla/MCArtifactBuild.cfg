\* Two artifacts of one version, two builders, a completion from outside, a channel
\* of one entry, a crash or a failing update.
SPECIFICATION FairSpec
CONSTANTS
  Count = 2
  Artifacts <- MCArtifacts
  Version <- MCVersion
  Format <- MCFormat
  Builders = {b1, b2}
  Completers = {c1}
  QueueSize = 1
  MaxFailures = 1
INVARIANTS
  ReadyHoldsItsPackage
  NoBuildForgotten
PROPERTIES
  EveryBuildEnds
CHECK_DEADLOCK FALSE
