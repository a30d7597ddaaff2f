SPECIFICATION FairSessionSpec
CHECK_DEADLOCK FALSE
CONSTANTS
  r1 = r1
  w1 = w1
  w2 = w2
  w3 = w3
  d1 = d1
  d2 = d2
  NoOne = NoOne
  Reads <- OneReads
  Writes <- TwoWrites
  Retries <- BothRetries
  Daemons = {d1}
  DaemonOf <- AllToOne
  Faults = {"statement", "commit", "read back", "panic", "drop", "crash"}
INVARIANTS SessionTypeOK AcknowledgedIsCommitted OnlyCommittedIsSeen
PROPERTIES EveryRequestIsAnswered ImplementsAtomic
