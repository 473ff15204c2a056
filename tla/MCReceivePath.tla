--------------------------- MODULE MCReceivePath ---------------------------
\* A stream of one packet and its end, and a packet of another stream that raises
\* no transaction.
EXTENDS ReceivePath

CONSTANTS voice, end, stray

MCPackets == {voice, end, stray}
MCSsrcOf == [p \in MCPackets |-> IF p = stray THEN 2 ELSE 1]
MCMarked == {end}
MCBare == {stray}
=============================================================================
