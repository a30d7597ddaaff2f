SPECIFICATION ScreensSpec
CHECK_DEADLOCK FALSE
CONSTANTS
  Projects = {p, q}
  Home = p
  Commands = {c1, c2}
  Nothing = Nothing
  MaxRev = 1
  Faults = {"no answer", "lost reply"}
  Tasks = {t, u}
  Task1 = t
  Step1 = s1
  Owner <- OneStep
  None = None
  Answers = {"close", "leave"}
  Keys = {"delete"}
  UndoFaults = {"error"}
  Ops = {o1}
  Timers = {t1, t2}
  WebFaults = {"down", "error"}
INVARIANTS ScreensTypeOK CacheHasOwnWrites LoadsGoForward RefreshShowsTheWrite 
PROPERTIES CommandsEnd ClosesStepsFirst StaysReachable
