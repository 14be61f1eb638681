SPECIFICATION FairSpec
CONSTANTS
  h1 = h1
  h2 = h2
  Nobody = Nobody
  MaxAgents = 1
  MaxRequests = 1
  MaxEdits = 1
  MaxSignals = 0
  MaxRemotes = 0
  Executions = {1}
  Vms = {"v1", "v2"}
  Looping = {}
  MaxClients = 1
  Callers = {"a", "b"}
  Addresses = {"p", "q"}
  Groups = {"gc", "memory"}
  Checks = {"db"}
  MaxServers = 1
  MaxChanges = 1
PROPERTIES ChangesApplied
CHECK_DEADLOCK FALSE
