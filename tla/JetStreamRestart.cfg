SPECIFICATION Spec
CONSTANTS
  Subject = {a}
  Sink = {k1}
  NoSink = NoSink
  MaxInFlight = {n1}
  NoConsumer = NoConsumer
  CachedReads = FALSE
  FaultKinds = {"api", "status", "nats", "outage", "storage", "service"}
  MaxEdits = 2
  MaxFaults = 1
  MaxStarts = 2
  MaxStops = 1
  MaxCrashes = 1
CHECK_DEADLOCK FALSE
PROPERTY NoMessageLoss
