SPECIFICATION Spec
CONSTANTS
  m1 = m1
  m2 = m2
  Modules = {m1, m2}
  MustConnect = {m1}
  RequireRoutes = TRUE
  Declarers = {"user", "applier", "main"}
  Faults = {"drop", "hang", "badConfig"}
  MaxConns = 1
  MaxConfigs = 1
  MaxDeclares = 1
INVARIANTS RequiredModulesGate NoMissedReady
CHECK_DEADLOCK FALSE
