SPECIFICATION FairSpec
CONSTANTS
  noKey = noKey
  null = null
  NoKey <- noKey
  Null <- null
  Uids <- MCUids
  Rests = {"plain"}
  Plain = "plain"
  Kinds <- MCKinds
  MaxUid = 2
  OldUids = {0}
  InitialOld <- MCInitialOld
  Nodes = 1
  MaxEdits = 2
  MaxFaults = 1
INVARIANTS ReportCoherent AdoptedWhenReported
PROPERTIES Settles
CHECK_DEADLOCK FALSE
