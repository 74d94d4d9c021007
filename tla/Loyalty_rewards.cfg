SPECIFICATION LoyaltySpec
CONSTANTS
  Order = {o1}
  Run = {r1, r2}
  Target = {"COMPLETED", "WARRANTY_ACTIVE", "WARRANTY_EXPIRED"}
  Worth = 30
  TierStart <- MCTierStart
  Reward <- MCReward
  Cap <- MCCap
  Commission = 1
  MaxCompletions = 3
SYMMETRY Symmetry
INVARIANTS
  LoyaltyInv
  ReferralPaidPerOverlap
  TierFitsSpent
  CapIsNearlyKept
