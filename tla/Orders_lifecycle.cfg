SPECIFICATION Spec
CONSTANTS
  o1 = o1
  f1 = f1
  s1 = s1
  s2 = s2
  p1 = p1
  NoOffer = NoOffer
  Order <- MCOrder
  Offer <- MCOffer
  Store <- MCStore
  Part <- MCPart
  OrderOf <- MCOrderOf
  StoreOf <- MCStoreOf
  PartOf <- MCPartOf
  Warranted <- MCWarranted
  Client = {c1}
  Job = {c1}
  Ops <- LifeOps
  Targets <- Status
  MaxRenewals = 1
  StatCap = 2
INVARIANTS
  SecondRejectionCancels
PROPERTIES
  StatusChangesAreLegal
