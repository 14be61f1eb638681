SPECIFICATION FairSpec
CONSTANTS
  h1 = h1
  h2 = h2
  Nobody = Nobody
  MaxAgents = 2
  MaxRequests = 4
  MaxEdits = 2
  MaxSignals = 1
  MaxRemotes = 2
  Executions = {1, 2, 3}
  Vms = {"v1", "v2"}
  Looping = {2}
  MaxClients = 3
  Callers = {"a", "b"}
  Addresses = {"p", "q"}
  Groups = {"gc", "memory"}
  Checks = {"db"}
  MaxServers = 2
  MaxChanges = 2
INVARIANTS
  ProfilesInTurn ConfigsSound RuntimesAreOwn
  ClientsAccounted MetricsAsConfigured
PROPERTIES CallsReturn NewestPrevails
CHECK_DEADLOCK FALSE
