SPECIFICATION Spec
CONSTANTS
  Notifications = {n1, n2}
  Mailed = {n1}
  Workers = {v1, v2}
  Attempts = 3
  MaxStalled = 1
  MaxFaults = 2
INVARIANTS SentMeansDelivered CompletedMeansSent SendsAreBounded
PROPERTIES HandedOverIsReported JobsSettle
CHECK_DEADLOCK FALSE
