SPECIFICATION ClientsSpec
CHECK_DEADLOCK FALSE
CONSTANTS
  NodeIds = {wp, t1, t2, n4}
  ProjectIds = {travel, docs}
  Wp = wp
  Task1 = t1
  Task2 = t2
  Travel = travel
  Docs = docs
  NoNode = NoNode
  NoProject = NoProject
  NoPayload = NoPayload
  NoImage = NoImage
  Keys = {k1}
  NoKey = NoKey
  MaxSeq = 4
  MaxClock = 0
  MaxSends = 3
  PollDefault = 2
  RecentLimit = 1
VIEW ClientsView
INVARIANTS RetriesAreSafe NothingIsMissed NoNewsIsNoChange SnapshotIsOfOneMoment
PROPERTIES UndoRestoresGraph NothingComesTwice
