SPECIFICATION FairSpec
CONSTANTS
  noKey = noKey
  null = null
  NoKey <- noKey
  Null <- null
  Uids <- MCUids
  Rests <- MCRests
  Plain <- MCPlain
  OldUid = 0
  Foreign = 9
  MaxVersion = 2
  Placements = {"p1", "p2"}
  Replicas = {1, 2}
  CrAnnotations = {"absent", "true", "garbled"}
  MaxUid = 2
  Plans <- LivenessPlans
PROPERTIES
  EventuallyDeployed
  ReportsAvailable
  ReportsDegraded
  PauseStopsPlays
  LeavesNothing
CHECK_DEADLOCK FALSE
