SPECIFICATION FairPenaltySpec
CONSTANTS
  t1 = t1
  Threshold <- MCThreshold
  Level <- MCLevel
  Points = {1}
  Key = {k1}
  NoKey = NoKey
  Ruling = {"APPROVED", "DELAYED"}
  Client = {c1}
  Job = {j1}
  MaxViolations = 2
INVARIANTS
  PointsAreOwed
  ThresholdAnswered
PROPERTIES
  
  PointsDecay
