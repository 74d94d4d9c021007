SPECIFICATION FairSpec
CONSTANTS
  o1 = o1
  f1 = f1
  s1 = s1
  s2 = s2
  p1 = p1
  NoOffer = NoOffer
  Order <- MCOrder
  Offer <- MCOffer
  Store <- MCStore
  Part <- MCPart
  OrderOf <- MCOrderOf
  StoreOf <- MCStoreOf
  PartOf <- MCPartOf
  Warranted <- MCWarranted
  Client = {c1}
  Job = {j1}
  Ops <- LiveOps
  Targets <- LiveTargets
  MaxRenewals = 0
  StatCap = 0
INVARIANTS
  SelectionIsTimed
PROPERTIES
  PhasesEnd
