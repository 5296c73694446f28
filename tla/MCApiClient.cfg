CONSTANTS
  get = get
  post = post
  Calls = {get, post}
  SiteCalls = {get}
  Codes = {"200", "404", "429", "503"}
  Success = {"200"}
  RetryPolicy <- Configured
  GosipPolicy <- Default
  MaxAttempt = 1
  Requests <- Attempts
  Idempotent <- Gets
  maxRetries = 1
  retryBackoffs <- Backoffs
  throttlePause = 1
  RetryAfter = {2}
SPECIFICATION ClientFairSpec
INVARIANTS AllTypesOK GateRespected RetriesBounded StatusesRecordedOnce SignalsTruthful GateIsSignalled AttemptsAccounted
PROPERTIES NoCountFalls ExecuteReturns
