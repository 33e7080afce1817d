\* Every request over a diamond of calls, own times of a quarter and of 1000.75 ms,
\* retried failures, and at most one line of a pod whose clock is off by three milliseconds.
SPECIFICATION Spec
CONSTANTS
  Order <- Endpoints
  Calls <- Diamond
  Optional = {2, 3, 4}
  Critical = {1}
  ServiceOf <- TwoOfOneService
  Ms = 8
  OwnTimes = {2, 8006}
  Threshold <- Limits
  Classes = {"ok", "5xx"}
  Mask = {"ok", "4xx", "5xx", "err", "slow"}
  Propagates <- OntoFailures
  Retries = 1
  RetryOn = {"5xx"}
  Backoff = 6
  Lossy <- ReadShort
  Skews <- Ahead
  SpanIdOf <- SomeIds
  MaxSkewed = 1
  SkewTolerance = 5
INVARIANTS ChildInsideCaller TrueCallerFound OutcomesRecovered ViewsAreCausal
CHECK_DEADLOCK FALSE
