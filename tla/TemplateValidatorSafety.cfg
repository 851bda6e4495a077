SPECIFICATION Spec
CONSTANTS
  noKey = noKey
  null = null
  NoKey <- noKey
  Null <- null
  Uids <- MCUids
  Rests <- MCRests
  Plain <- MCPlain
  OldUid = 0
  Foreign = 9
  MaxVersion = 2
  Placements = {"p1"}
  Replicas = {2}
  CrAnnotations = {"absent"}
  MaxUid = 2
  Plans <- SafetyPlans
INVARIANTS
  TypeOK
  ReportCoherent
  AdoptedWhenReported
  ObservedNotAhead
PROPERTIES
  OwnersKept
  WebhookBacked
CHECK_DEADLOCK FALSE
