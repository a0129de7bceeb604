SPECIFICATION Spec
CONSTANTS
  Subject = {a, b}
  Sink = {k1, k2}
  NoSink = NoSink
  MaxInFlight = {n1, n2}
  NoConsumer = NoConsumer
  CachedReads = TRUE
  FaultKinds = {"status", "outage"}
  MaxEdits = 3
  MaxFaults = 1
  MaxStarts = 1
  MaxStops = 0
  MaxCrashes = 0
SYMMETRY Symmetry
CHECK_DEADLOCK FALSE
INVARIANTS
  TypeOK
  ReadyMeansDelivering
  ReadyMeansNoStaleConsumer
  SinkKnown
  ConsumersGoWithSubscription
