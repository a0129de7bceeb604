SPECIFICATION FairSpec
CONSTANTS
  Msg = {m1, m2, p}
  Bad = {p}
  MaxInFlight = 2
  MaxDeliver = 2
  FaultKinds = {"slow", "info", "send", "answer", "service", "crash"}
  MaxFaults = 2
CHECK_DEADLOCK FALSE
INVARIANTS
  TypeOK
  GivenUpOnlyAfterFailures
PROPERTIES
  DeliversAtLeastOnce
  EventsSettle
