SPECIFICATION Spec
CONSTANTS
  m1 = m1
  m2 = m2
  Modules = {}
  MustConnect = {}
  RequireRoutes = FALSE
  Declarers = {}
  Faults = {"drop", "refuse"}
  MaxConns = 2
  MaxConfigs = 2
  MaxDeclares = 0
INVARIANTS OneLiveConnection ReadyOncePerConnection FirstHandshakeInOrder
PROPERTIES ConfigsAppliedInOrder
CHECK_DEADLOCK FALSE
