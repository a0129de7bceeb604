SPECIFICATION Spec
CONSTANTS
  Sub = {s1}
  Service = {v1}
  NoService = NoService
  EventTypes = {t1}
  None = None
  Late = TRUE
  StopsBusy = FALSE
  FaultKinds = {}
  MaxEdits = 2
  MaxFaults = 0
  MaxStarts = 1
  MaxRules = 1
  MaxAuth = 1
SYMMETRY Symmetry
CHECK_DEADLOCK FALSE
INVARIANTS
  NothingLeftOnEventMesh
