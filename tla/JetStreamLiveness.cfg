SPECIFICATION FairSpec
CONSTANTS
  Subject = {a}
  Sink = {k1}
  NoSink = NoSink
  MaxInFlight = {n1}
  NoConsumer = NoConsumer
  CachedReads = TRUE
  FaultKinds = {"api", "status", "nats", "outage", "service"}
  MaxEdits = 3
  MaxFaults = 1
  MaxStarts = 2
  MaxStops = 0
  MaxCrashes = 1
CHECK_DEADLOCK FALSE
PROPERTIES
  EndsDelivering
  SubscriptionDeletionCompletes
