SPECIFICATION InspectionSpec
CONSTANTS
  Officer = {w1, w2}
  NoOfficer = NoOfficer
  Client = {c1}
  Job = {j1}
  MaxTasks = 2
  MaxLinks = 1
  Targets <- MCTargets
SYMMETRY Symmetry
INVARIANTS
  
  
  DecidedByStarter
PROPERTIES
  ClosedStaysClosed
