\* A status update fails and a user edits the backend before the retry.
SPECIFICATION Spec
CONSTANTS
  Built = {d1}
  Env = {e1}
  NoConfig = NoConfig
  Creds = {k1}
  NoCreds = NoCreds
  CachedReads = FALSE
  FaultKinds = {"status"}
  MaxEdits = 2
  MaxFaults = 1
  MaxCrashes = 0
CHECK_DEADLOCK FALSE
INVARIANT OnlyActiveBackendRuns
