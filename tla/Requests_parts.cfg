\* Two requests at a time on two sources, and two on one ZeroBus target; two pages.
SPECIFICATION RequestsSpec
CONSTANTS
  Names = {s1, s2}
  Requests = {q1, q2}
  Calls = {q1, q2}
  Operations = {"stop", "remove", "update"}
  MaxTasks = 3
  NumTargets = 1
  MaxClients = 2
  MaxProcessors = 2
  MaxConfigs = 2
  Sockets = {w1, w2}
  Later = {w2}
  FactoryTasks = 2
  FullFault = 1
  MaxStops = 1
  MaxFaults = 1
  MaxResets = 1
CHECK_DEADLOCK FALSE
INVARIANTS SourcesSound ControlSound
PROPERTIES StopMeansStopped EveryRequestReturns ShutdownEndsProcessors PagesCatchUp
