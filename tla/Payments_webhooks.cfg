SPECIFICATION PaySpec
CONSTANTS
  o1 = o1
  f1 = f1
  s1 = s1
  s2 = s2
  p1 = p1
  p2 = p2
  NoOffer = NoOffer
  NoIntent = NoIntent
  Order <- OneOrder
  Offer <- OneOffer
  Store <- TwoStores
  Part <- Parts
  OrderOf <- OrderOfOne
  StoreOf <- StoreOfOne
  PartOf <- PartOfOne
  Warranted <- NoWarranty
  Client = {c1}
  Job = {c1}
  Ops <- WebhookOps
  Targets <- NoTargets
  MaxRenewals = 0
  StatCap = 0
  Intent = {i1, i2}
  Handler = {h1, h2}
  Price <- PricesOneTwo
INVARIANTS
  BookedOnce
  HeldWasCharged
  SuccessIsHeld
PROPERTIES
  KeepsThePromise
