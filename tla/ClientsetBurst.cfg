SPECIFICATION LiveSpec
CONSTANTS
  Parts = {"limits"}
  NoStatus = NoStatus
  Nothing = Nothing
  Nil = Nil
  Informers <- MCInformers
  MaxFaults = 2
  CacheNamespaces = {"n", "m"}
  CacheNames = {"a"}
  CacheLabels = {"x", "y"}
  CacheRevisions = 4
  Variables = {"cached", "mine"}
  Allocations <- MCAllocations
  Sent = "a"
  Changed = {"b"}
  MaxItems = 2
  MaxEdits = 1
  FakeResources = {"kubevirtcommontemplatesbundles", "kubevirtnodelabellerbundles"}
  Data = {"c"}
  Selectors <- MCSelectors
  MaxCalls = 2
  FakeNamespaces = {"n", ""}
  FakeNames = {"a", ""}
  FakeLabels = {"x", "y"}
  Cases <- MCCases
  DefaultQPS = 1
  DefaultBurst = 2
PROPERTIES RequestsSent
CHECK_DEADLOCK FALSE
