SPECIFICATION Spec
CONSTANTS
  Sub = {s1, s2}
  Service = {v1, v2}
  NoService = NoService
  EventTypes = {t1}
  None = None
  Late = FALSE
  StopsBusy = FALSE
  FaultKinds = {"api", "ems", "gateway", "delivery"}
  MaxEdits = 3
  MaxFaults = 1
  MaxStarts = 1
  MaxRules = 3
  MaxAuth = 1
SYMMETRY Symmetry
CHECK_DEADLOCK FALSE
INVARIANTS
  TypeOK
  ReadyMeansExposed
  OneRulePerService
  NothingLeftOnEventMesh
