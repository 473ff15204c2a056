---------------------------- MODULE MCHeartBeat ----------------------------
\* Two sessions to one server.
EXTENDS HeartBeat, TLC

CONSTANTS server, s1, s2

MCSessions == {s1, s2}
MCRemotes == {server}
MCRemoteOf == [s \in MCSessions |-> server]
=============================================================================
