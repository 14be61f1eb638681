SPECIFICATION AllSpec
CONSTANTS
  Users = {u1, u2}
  Receivers = {r1}
  Closers = {c1}
  Configs = {conf1, conf2, zero}
  SchemaConfigs = {conf1}
  ZeroConfig = zero
  NoGoroutine = nobody
  MaxCalls = 3
  MaxSignals = 3
  Skips = {0, 1, 3}
  UnmarshalerCounts = {1, 3}
  BatchSize = 2
INVARIANTS VisitorsPoolOpen NothingLeftOpen LinesAccounted
PROPERTIES
  WorkingPoolKept FailedConfigTriedAgain CallsReturn KeepsClientPromise
  KeepsPromise PatientExit
  DeliversLines PipelineEnds
\* the process ends: no step is possible after exit; the pipeline's goroutines end
CHECK_DEADLOCK FALSE
