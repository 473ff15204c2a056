SPECIFICATION FairSpec
CONSTANTS
  queueThread = queueThread
  sessionThread = sessionThread
  queueTimer = queueTimer
  heartbeat = heartbeat
  Clients <- MCClients
  Handlers = {handler1, handler2}
  Nobody = Nobody
  Waiters <- MCWaiters
  Restartable <- MCRestartable
  OwnerOf <- MCOwnerOf
  MaxCount = 1
  MaxCalls = 3
INVARIANTS TypeOK
PROPERTIES ImplementsTickService IteratorStaysValid RestartedCounterRejoins
CHECK_DEADLOCK FALSE
