SPECIFICATION SessionSpec
CHECK_DEADLOCK FALSE
CONSTANTS
  r1 = r1
  w1 = w1
  w2 = w2
  w3 = w3
  d1 = d1
  d2 = d2
  NoOne = NoOne
  Reads <- OneReads
  Writes <- ThreeWrites
  Retries <- BothRetries
  Daemons = {d1, d2}
  DaemonOf <- OneEach
  Faults = {"statement", "commit", "commit stays open", "crash"}
PROPERTIES FailureIsFinal
