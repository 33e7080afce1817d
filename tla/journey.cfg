\* Two sessions of one device over a scenario of two steps with a retry and one of a
\* single step.
SPECIFICATION Spec
CONSTANTS
  Sessions = {0, 1}
  Scenarios = {1, 2}
  Steps <- TwoScenarios
  MaxRetries <- OneRetry
  RetryOn <- OnFailure
  BffMask <- Masks
  Flaky = {1}
  LoggedIn = {0}
  Device <- OneDevice
  Durations = {5}
  Gaps = {0}
  KeyParts = {2}
  BitOr <- OrOf
  Some <- AllOrLast
INVARIANTS JourneyInOrder ClientLinksOwnRequest AttributedTruthfully RequestStaysTogether
CHECK_DEADLOCK FALSE
