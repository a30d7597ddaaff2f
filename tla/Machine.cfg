SPECIFICATION MachineSpec
CHECK_DEADLOCK FALSE
CONSTANTS
  Doors = {c1, c2}
  Daemons = {d1, d2}
  NoSession = NoSession
  Nobody = Nobody
  MaxSignals = 1
  Faults = {"crash", "door dies", "user starts", "slow"}
  Openers = {f1, f2, j1, j2}
  Native = {f1, f2}
  Seeders = {f2, j2}
  Statements = 3
  Inserts = 2
INVARIANTS MachineTypeOK  ServesWholeSchema ServesWholeFixture
PROPERTIES DoorsGetThrough FailsOnlyInCompany SomebodyServes
