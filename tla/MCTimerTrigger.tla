--------------------------- MODULE MCTimerTrigger ---------------------------
\* TimerTrigger with a queue thread that owns one IOQueue timer and a session
\* thread that owns one heartbeat counter.
EXTENDS TimerTrigger, TLC

CONSTANTS queueThread, sessionThread, queueTimer, heartbeat

MCClients == {queueThread, sessionThread}
MCWaiters == {queueTimer, heartbeat}
MCRestartable == {heartbeat}
MCOwnerOf == (queueTimer :> queueThread) @@ (heartbeat :> sessionThread)
=============================================================================
