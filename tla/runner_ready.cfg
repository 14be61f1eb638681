SPECIFICATION FairSpec
CONSTANTS
  m1 = m1
  m2 = m2
  Modules = {}
  MustConnect = {}
  RequireRoutes = FALSE
  Declarers = {"user"}
  Faults = {}
  MaxConns = 1
  MaxConfigs = 3
  MaxDeclares = 1
PROPERTIES EventuallyReady NewestConfigApplied DeclareRoutesReturns
