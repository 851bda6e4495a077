SPECIFICATION LiveSpec
CONSTANTS
  Parts = {"cache", "copies", "fakes", "limits"}
  NoStatus = NoStatus
  Nothing = Nothing
  Nil = Nil
  Informers <- MCInformers
  MaxFaults = 1
  CacheNamespaces = {"n", "m"}
  CacheNames = {"a"}
  CacheLabels = {"x", "y"}
  CacheRevisions = 4
  Variables = {"cached", "mine"}
  Allocations <- MCAllocations
  Sent = "a"
  Changed = {"b"}
  MaxItems = 2
  MaxEdits = 1
  FakeResources = {"kubevirtcommontemplatesbundles", "kubevirtnodelabellerbundles"}
  Data = {"c"}
  Selectors <- MCSelectors
  MaxCalls = 2
  FakeNamespaces = {"n", ""}
  FakeNames = {"a", ""}
  FakeLabels = {"x", "y"}
  Cases <- MCCases
  DefaultQPS = 1
  DefaultBurst = 2
INVARIANTS ListersAgree SharesOnlySpec NothingHidden FakeParity
PROPERTIES Converges CopiesEqual SentIfBurst
CHECK_DEADLOCK FALSE
