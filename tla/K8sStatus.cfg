SPECIFICATION Spec
CONSTANTS
  w1 = w1
  w2 = w2
  t1 = t1
  no = no
  Writers <- MCWriters
  Types <- MCTypes
  Payloads <- MCPayloads
  Times <- MCTimes
  Fields <- MCFields
  Values <- MCValues
  Absent <- no
  Requests <- MCRequests
  OperatorMarks <- MCMarks
  MaxRv = 3
INVARIANTS
  TypeOK
  UniqueTypes
  FreshIfAccepted
PROPERTIES
  NoLostUpdate
  KeepsTransitionTime
  Linearizable
SYMMETRY Symmetry
