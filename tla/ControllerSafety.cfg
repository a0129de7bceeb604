\* Three changes by users; a status update, a Start or the publisher proxy may fail.
SPECIFICATION Spec
CONSTANTS
  Built = {d1, d2}
  Env = {e1}
  NoConfig = NoConfig
  Creds = {k1, k2}
  NoCreds = NoCreds
  CachedReads = TRUE
  FaultKinds = {"status", "start", "proxy"}
  MaxEdits = 3
  MaxFaults = 1
  MaxCrashes = 0
SYMMETRY Symmetry
CHECK_DEADLOCK FALSE
INVARIANTS
  TypeOK
  OneControllerPerBackend
  CredentialsInUse
  NoClusterRolesLeftBehind
  ReadyMeansPublisherDeployed
  ReadyMeansControllerRuns
