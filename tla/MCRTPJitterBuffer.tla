------------------------- MODULE MCRTPJitterBuffer -------------------------
EXTENDS RTPJitterBuffer

\* A packet sent ahead, three of voice and two of the three end packets.
MCPreamble == {0}
MCAudio == 1 .. 3
MCEnd == {4, 5}

\* No holding, and holding below and above the minimum.
MCEstimates == {0, 1, 3}
=============================================================================
