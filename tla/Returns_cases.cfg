SPECIFICATION FairReturnSpec
CONSTANTS
  o1 = o1
  p1 = p1
  k1 = k1
  k2 = k2
  Order <- MCOrder
  Item <- MCItem
  Case <- MCCase
  OrderOf <- MCOrderOf
  ItemOf <- MCItemOf
  Disputes = {k2}
  Covered = {o1}
  Client = {c1}
  Job = {j1}
  Rulings <- MCRulings
  Targets <- MCTargets
  Opening <- MCOpening
  MaxVerdicts = 2
  MaxTaken = 1

  
PROPERTIES
  OnlyTransitionsStrand
  SilenceEnds
  HandoverEnds
