SPECIFICATION FairSpec
CONSTANTS
  m1 = m1
  m2 = m2
  c1 = c1
  Callers = {c1}
  k1 = k1
  k2 = k2
  Controllers = {k1, k2}
  Nobody = Nobody
  NoMethod = NoMethod
  Methods = {m1, m2}
  AskingMethods = {m2}
  Faults = {"listen", "serve", "lose"}
  MaxOps = 2
  MaxLosses = 1
  EndpointLists <- MCEndpointLists
INVARIANTS EndpointsServed PostProcessorsSeeOutcome StopDrains UnavailableAfterRetries
PROPERTY CallsReturn
CHECK_DEADLOCK FALSE
