SPECIFICATION Spec
CONSTANTS
  VMs = {v1}
  Cfgs = {c1, c2}
  Changes = 2
  Delay = 2
  Failures = 1
  Breaks = 1
  ProbeErrors = 1
INVARIANTS
  ListHasAllVMs
