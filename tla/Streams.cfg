SPECIFICATION StreamsSpec
CONSTANTS
  Projects = {travel, docs}
  Watched = travel
  Seqs = {0, 1, 2, 3, 4}
  Handlers = 2
  Capacity = 1
  Slots = 2
  ReplayLimit = 1
  MaxOpens = 1
INVARIANTS WatchTypeOK StreamHasNoGap JsStreamIsWhole
PROPERTIES ChangesArrive
