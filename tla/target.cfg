\* Every deployment of two BFF endpoints, three services in two layers, an external
\* one and two scenarios, with nothing or the metrics' latents observed.
SPECIFICATION Spec
CONSTANTS
  BffOps = {1, 2}
  ServiceOps = {3, 4, 5, 6}
  ExternalOps = {7}
  Services = {1, 2, 3}
  ServiceOf <- ThreeServices
  Levels = 2
  FanOut = {1}
  Steps <- UnevenScenarios
  StopVectors = {0, 1}
  ClosedForm = 0
  Measured <- SomeMeasures
  Close = 0
  MaxSteps = 2
  Marked <- TwoCalls
  ExternalCallers = {2}
  Retries = 1
  ClientRetries <- OneRetry
  Outcomes <- ThreeOutcomes
  Repertoire <- ThreeOutcomes
  BffMask <- SecondIsNeverSlow
  ClientMask <- ClientMasks
  Slowing <- TimesThatTell
  Profiles <- LatentAndMetrics
INVARIANTS TypeOK EveryOpOnJourney ShippedIsBest RequestTargetIsPrior JourneyEdgesAcyclic
  GroupsGrainIndependent SelfCheckPerfect
CHECK_DEADLOCK FALSE
