SPECIFICATION FairStoreSpec
CONSTANTS
  o1 = o1
  o2 = o2
  Order <- MCOrder
  Stars <- MCStars
  Track = {}
  Poor <- MCPoor
  PointSet = {0, 40}
  Subscription = {"NONE", "STANDARD"}
  AdminStatus = {"ACTIVE", "SUSPENDED"}
  Client = {c1}
  Job = {j1}
INVARIANTS
  StoreInv
PROPERTIES
  RenewalIsSpared
  SuspensionEnds
  TierCatchesUp
