----------------------------- MODULE MCIOQueue -----------------------------
EXTENDS IOQueue

CONSTANTS w1, w2
MCWriters == {w1, w2}
MCOneWriter == {w1}
=============================================================================
