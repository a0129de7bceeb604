SPECIFICATION Spec
CONSTANTS
  Subject = {a}
  Sink = {k1}
  NoSink = NoSink
  MaxInFlight = {n1}
  NoConsumer = NoConsumer
  CachedReads = FALSE
  FaultKinds = {}
  MaxEdits = 1
  MaxFaults = 0
  MaxStarts = 1
  MaxStops = 1
  MaxCrashes = 0
CHECK_DEADLOCK FALSE
INVARIANT StoppedManagerIsQuiet
