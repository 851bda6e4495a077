SPECIFICATION Spec
CONSTANTS
  noKey = noKey
  null = null
  a = a
  b = b
  c = c
  NoKey <- noKey
  Null <- null
  Uids <- MCUids
  Rests = {"plain", "controller"}
  Plain = "plain"
  Initial <- MCInitial
INVARIANTS
  TypeOK
  OwnersDistinct
  AdoptedFound
PROPERTIES
  OthersKept
