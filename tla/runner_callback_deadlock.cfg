SPECIFICATION FairSpec
CONSTANTS
  m1 = m1
  m2 = m2
  Modules = {}
  MustConnect = {}
  RequireRoutes = FALSE
  Declarers = {"applier"}
  Faults = {}
  MaxConns = 1
  MaxConfigs = 3
  MaxDeclares = 1
PROPERTY DeclareRoutesReturns
CHECK_DEADLOCK FALSE
