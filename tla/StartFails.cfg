\* One Start of a subscription manager fails.
SPECIFICATION Spec
CONSTANTS
  Built = {d1, d2}
  Env = {e1}
  NoConfig = NoConfig
  Creds = {k1}
  NoCreds = NoCreds
  CachedReads = FALSE
  FaultKinds = {"start"}
  MaxEdits = 2
  MaxFaults = 1
  MaxCrashes = 0
CHECK_DEADLOCK FALSE
INVARIANT ControllerRunsSpecConfig
