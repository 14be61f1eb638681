SPECIFICATION LoopSpec
CONSTANTS
  m1 = m1
  m2 = m2
  Modules = {}
  MustConnect = {}
  RequireRoutes = FALSE
  Declarers = {}
  Faults = {"drop", "hang", "refuse", "signal"}
  MaxConns = 1
  MaxConfigs = 2
  MaxDeclares = 0
PROPERTIES LossNoticed 
CHECK_DEADLOCK FALSE
