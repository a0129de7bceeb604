SPECIFICATION FairSpec
CONSTANTS
  Sub = {s1}
  Service = {v1}
  NoService = NoService
  EventTypes = {t1, t2}
  None = None
  Late = FALSE
  StopsBusy = FALSE
  FaultKinds = {"ems", "crash", "status", "server"}
  MaxEdits = 3
  MaxFaults = 1
  MaxStarts = 2
  MaxRules = 2
  MaxAuth = 2
CHECK_DEADLOCK FALSE
INVARIANTS
  ReadyMeansCurrentAuth
PROPERTIES
  NoNeedlessDeletion
  EndsReady
  SubscriptionDeletionCompletes
