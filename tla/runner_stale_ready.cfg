SPECIFICATION Spec
CONSTANTS
  m1 = m1
  m2 = m2
  Modules = {}
  MustConnect = {}
  RequireRoutes = FALSE
  Declarers = {}
  Faults = {"drop"}
  MaxConns = 2
  MaxConfigs = 1
  MaxDeclares = 0
PROPERTIES ReadyOnlyWhenConditionsHold
CHECK_DEADLOCK FALSE
