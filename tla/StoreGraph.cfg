SPECIFICATION ConcernSpec
CONSTANTS
  NodeIds = {wp, t1, t2, n4, n5}
  ProjectIds = {travel, docs}
  Wp = wp
  Task1 = t1
  Task2 = t2
  Travel = travel
  Docs = docs
  NoNode = NoNode
  NoProject = NoProject
  NoPayload = NoPayload
  NoImage = NoImage
  Keys = {}
  NoKey = NoKey
  MaxSeq = 4
  MaxClock = 2
VIEW ConcernView
SYMMETRY Symmetry
INVARIANTS NoCircularWait TablesAreSound
PROPERTIES ChangesAreTold VerificationsHold ImplementsWorkGraph ImplementsEventLog
