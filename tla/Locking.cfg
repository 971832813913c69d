CONSTANTS
  Nobody = Nobody
  Goroutine <- MCGoroutine
  Handlers <- MCHandlers
SPECIFICATION Spec
INVARIANTS
  LockingTypeOK
  OnlyLedgerCallbackDeadlocks
  LocalBeforeMe
CHECK_DEADLOCK FALSE
