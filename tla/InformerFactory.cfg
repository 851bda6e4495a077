SPECIFICATION LiveSpec
CONSTANTS
  Procs = {"p", "q"}
  Kinds = {"kubevirttemplatevalidators", "kubevirtnodelabellerbundles",
    "kubevirtcommontemplatesbundles", "kubevirtmetricsaggregations"}
  OtherResource = "virtualmachines"
  Channels = {"ch", "other"}
  Programs <- MCPrograms
  DefaultResync = "default"
  AllNamespaces = ""
  None = None
INVARIANTS OneInformer RunOnce WaitMeansFilled Configured
PROPERTIES CallsReturn
