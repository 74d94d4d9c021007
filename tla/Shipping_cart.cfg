SPECIFICATION FairShipSpec
CONSTANTS
  o1 = o1
  f1 = f1
  f2 = f2
  NoWaybill = NoWaybill
  Order <- MCOrder
  Offer <- MCOffer
  OrderOf <- MCOrderOf
  Waybill = {w1}
  Client = {c1}
  Job = {j1}
  Targets <- CartTargets
  Reports <- CartReports
INVARIANTS
  ShipTypeOK
PROPERTIES
  CartShipsWhole
  AgedLeavesCart
