\* Three clients, four tasks; the plugin stops after onDisable.
SPECIFICATION FairSpec
CONSTANTS
  Clients = {c1, c2, c3}
  Tasks = {t1, t2, t3, t4}
  MaxCommands = 2
  Main = Main
  NoClient = NoClient
  NoTask = NoTask
INVARIANTS
  TypeOK
  NeverStranded
PROPERTY ComesBack
CHECK_DEADLOCK FALSE
