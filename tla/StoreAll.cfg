SPECIFICATION ErrorSpec
CONSTANTS
  NodeIds = {n1, n2, n3}
  ProjectIds = {p1, p2}
  NoNode = NoNode
  NoProject = NoProject
  NoPayload = NoPayload
  NoImage = NoImage
  Keys = {k1}
  NoKey = NoKey
  MaxSeq = 3
  MaxClock = 0
VIEW StoreView
SYMMETRY Alike
INVARIANTS TypeOK
PROPERTIES LedgerHolds 
