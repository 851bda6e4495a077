SPECIFICATION Spec
CONSTANTS
  noKey = noKey
  null = null
  NoKey <- noKey
  Null <- null
  Uids <- MCUids
  Rests <- MCRests
  Plain <- MCPlain
  OldUid = 0
  Foreign = 9
  MaxVersion = 1
  Placements = {"p1"}
  Replicas = {2}
  CrAnnotations = {"absent"}
  MaxUid = 1
  Plans <- ObservedPlans
PROPERTIES
  ObservedMeansDeployed
