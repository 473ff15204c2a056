SPECIFICATION Spec
CONSTANTS
  queueThread = queueThread
  sessionThread = sessionThread
  queueTimer = queueTimer
  heartbeat = heartbeat
  Clients <- MCClients
  Handlers = {handler1, handler2}
  Nobody = Nobody
  Waiters <- MCWaiters
  Restartable <- MCRestartable
  OwnerOf <- MCOwnerOf
  MaxCount = 1
  MaxCalls = 2
INVARIANT RegisteredKeepsTimerFiring
CHECK_DEADLOCK FALSE
