SPECIFICATION Spec
CONSTANTS
  d1 = d1
  d2 = d2
  Daemons = {d1, d2}
  NoConfig = NoConfig
  NoTask = NoTask
  IntMax = 127
  WordMax = 255
  MaxFaults = 1
  Number <- MCNumber
  Scenarios <- MCScenarios
INVARIANTS
  ConfigurationEffective
  
  TypeOK
  TasksAccounted
  CircuitFaithful
PROPERTIES
  ImplementsTaskLine
  PipelineDelivers
CHECK_DEADLOCK FALSE
