SPECIFICATION PayoutSpec
CONSTANTS
  e1 = e1
  e2 = e2
  r1 = r1
  r2 = r2
  a1 = a1
  a2 = a2
  NoItem = NoItem
  Escrow <- OneEscrow
  Request = {r1, r2}
  Account <- TwoAccounts
  Customers <- OneCustomer
  OwnerOf <- OwnerOfOne
  Share <- ShareOfOne
  Opening <- RewardOnly
  Owed <- OwedStore
  Connected <- TwoAccounts
  Amount <- OneAmount
  Fine = 1
  Handler = {cron}
  Cron = cron
  Rank <- RankOfOne
  Ops <- SerialOps
  MaxTransfers = 2
  MaxDebit = 1
CHECK_DEADLOCK FALSE
INVARIANTS
  OverdrawnByFinesOnly
  TransferredOnce
PROPERTIES
  KeepsTheWallet
