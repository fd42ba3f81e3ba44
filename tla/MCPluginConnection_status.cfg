\* A client replaced by the reconnect command reports its close late.
SPECIFICATION Spec
CONSTANTS
  Clients = {c1, c2}
  Tasks = {t1, t2}
  MaxCommands = 1
  Main = Main
  NoClient = NoClient
  NoTask = NoTask
INVARIANT StatusIsShown
CHECK_DEADLOCK FALSE
