SPECIFICATION Spec
CONSTANTS
  SessionEvents = TRUE
  MaxRetry = 2
  CounterSize = 4
  Api = {"Register", "Login", "Logout", "Deregister", "Refresh"}
  MaxPending = 1
  MaxTimers = 3
  MaxTokens = 2
  Answers <- MCAnswers
  MaxEvents = 1
INVARIANTS TypeOK LoggedInRegistered Persisted
CHECK_DEADLOCK FALSE
