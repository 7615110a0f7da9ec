SPECIFICATION FairPullSpec
CONSTANTS
  yolo = yolo
  coco = coco
  v1 = v1
  w1 = w1
  w2 = w2
  Damaged = Damaged
  Served = {yolo, coco}
  Ranged = {yolo}
  SnapshotVersions = {v1}
  Workers = {w1, w2}
  VersionOf <- MCVersionOf
  FilesOf <- MCFilesOf
  ManifestAt <- MCManifestAt
  PathOf <- MCPathOf
  MaxPulls = 3
  MaxKills = 2
INVARIANTS
  PulledIsVerified
  ReportIsTrue
PROPERTIES
  EveryPullEnds
\* The number of commands is bounded, and after the last one nothing runs.
CHECK_DEADLOCK FALSE
