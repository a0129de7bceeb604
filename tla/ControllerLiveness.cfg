\* Every kind of failure, Stop included; one failure, one crash.
SPECIFICATION FairSpec
CONSTANTS
  Built = {d1}
  Env = {e1}
  NoConfig = NoConfig
  Creds = {k1}
  NoCreds = NoCreds
  CachedReads = TRUE
  FaultKinds = {"api", "status", "proxy", "stop", "start", "module", "secret", "connect", "outage", "lag"}
  MaxEdits = 2
  MaxFaults = 1
  MaxCrashes = 1
CHECK_DEADLOCK FALSE
PROPERTIES
  DeletionCompletes
  EndsReady
  FinalizerHeldUntilCleanedUp
INVARIANTS
  ReadyIsConsistent
  OneControllerPerBackend
