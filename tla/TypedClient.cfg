SPECIFICATION Spec
CONSTANTS
  NoStatus = NoStatus
  Nothing = Nothing
  Callers = {"p", "q"}
  Nobody = Nobody
  Slots = {s1, s2}
  Programs <- MCPrograms
  MaxRevision = 3
  MaxRetries = 2
PROPERTIES MethodsKept SeenBeforeWritten
SYMMETRY Symmetry
