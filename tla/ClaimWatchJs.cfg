SPECIFICATION JsSpec
CONSTANTS
  Projects = {travel, docs}
  Watched = travel
  Seqs = {0, 1, 2, 3, 4, 5}
  Slots = 1
  ReplayLimit = 1
INVARIANTS ReconnectGetsEverything
