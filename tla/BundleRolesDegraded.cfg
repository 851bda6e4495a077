SPECIFICATION Spec
CONSTANTS
  noKey = noKey
  null = null
  NoKey <- noKey
  Null <- null
  Uids <- MCUids
  Rests = {"plain"}
  Plain = "plain"
  Kinds <- MCKinds
  MaxUid = 2
  OldUids = {0}
  InitialOld <- MCInitialOld
  Nodes = 1
  MaxEdits = 2
  MaxFaults = 1
INVARIANTS TemplatesHaveNoDegraded
CHECK_DEADLOCK FALSE
