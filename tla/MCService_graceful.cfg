\* internal/http/server.go: Shutdown gracefully stops the HTTP server.
SPECIFICATION Spec
CONSTANTS
  Clients = {c1}
  IntervalPositive = TRUE
  QuickRequests = TRUE
CHECK_DEADLOCK FALSE
INVARIANTS ShutdownIsGraceful
