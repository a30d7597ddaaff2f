SPECIFICATION SeedSpec
CONSTANTS
  NodeIds = {wp, t1, t2}
  ProjectIds = {travel, docs}
  Wp = wp
  Task1 = t1
  Task2 = t2
  Travel = travel
  Docs = docs
  NoNode = NoNode
  NoProject = NoProject
  NoPayload = NoPayload
  NoImage = NoImage
  Keys = {k1}
  NoKey = NoKey
  MaxSeq = 4
  MaxClock = 0
PROPERTIES RetryIsAnswered
