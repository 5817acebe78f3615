CHECK_DEADLOCK FALSE
SPECIFICATION Spec
CONSTANTS
  vm = vm
  m1 = m1
  m2 = m2
  n1 = n1
  n2 = n2
  d1 = d1
  d2 = d2
  g1 = g1
  g2 = g2
  a = a
  b = b
  VMs = {vm}
  CN = CN
  Admin = Admin
  Foreign = Foreign
  Cfgs = {c1}
  Routes <- NetFields
  Etags = {1}
  HasEtags = FALSE
  None = None
  NicOrder <- TwoNics
  Networks = {n1, n2}
  NetOf <- TwoNetworks
  Destinations = {d1, d2}
  Gateways = {g1, g2}
  Addresses = {a, b}
  StartNet <- FirstFields
  Starts <- ChangesAndMoves
INVARIANTS
  TypeOK
  RestsRouted
PROPERTIES
  VmUpdatesOrdered
