SPECIFICATION Spec
CONSTANTS
  v1 = v1
  v2 = v2
  c1 = c1
  c2 = c2
  r1 = r1
  VMs = {v1}
  CN = CN
  Admin = Admin
  Foreign = Foreign
  Cfgs = {c1, c2}
  Routes = {r1}
  Etags = {1, 2, 3, 4, 5}
  HasEtags = TRUE
  None = None
  Starts <- LifeStarts
  ZoneMoves <- LifeMoves
  NapiMoves <- Rewritten
INVARIANTS
  TypeOK
  RestsInSync
  DeletesReleasedOnly
