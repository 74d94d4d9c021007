SPECIFICATION FairPayoutSpec
CONSTANTS
  e1 = e1
  e2 = e2
  r1 = r1
  r2 = r2
  a1 = a1
  a2 = a2
  NoItem = NoItem
  Escrow <- TwoEscrows
  Request = {r1}
  Account <- OneStore
  Customers <- NoCustomers
  OwnerOf <- OwnerOfBoth
  Share <- ShareOfTwo
  Opening <- NothingYet
  Owed <- OwedTwo
  Connected <- OneStore
  Amount <- OneAmount
  Fine = 1
  Handler = {cron, h1}
  Cron = cron
  Rank <- InOrder
  Ops <- RaceOps
  MaxTransfers = 1
  MaxDebit = 1
CHECK_DEADLOCK FALSE
INVARIANTS
  NoUpdateLost
  RecordedWasSent
PROPERTIES
  RipeIsReleased
