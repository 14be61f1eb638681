SPECIFICATION FairSpec
CONSTANTS
  c1 = c1
  HookSets = {{}, {"mw"}, {"errorHandler"}, {"unimplErrorMapper", "interceptor"}}
  MaxRegistrations = 3
  MaxSize = 2
  Window = 1
  MaxRecords = 3
  BatchSizes = {0, 1, 2}
INVARIANTS TableAsRegistered FailuresTold FileArrives RowsAccounted
PROPERTY BothEnd
CHECK_DEADLOCK FALSE
