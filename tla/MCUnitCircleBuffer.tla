------------------------ MODULE MCUnitCircleBuffer ------------------------
EXTENDS UnitCircleBuffer

\* Two sample values tell every misplaced copy apart.
MCSamples == {0, 1}
=============================================================================
