SPECIFICATION FairSpec
CONSTANTS
  VMs = {v1, v2}
  Cfgs = {c1}
  Changes = 2
  Delay = 2
  Failures = 1
  Breaks = 1
  ProbeErrors = 1
INVARIANTS
  TypeOK
PROPERTIES
  FeedSpec
  Delivered
  LookupsSpaced
