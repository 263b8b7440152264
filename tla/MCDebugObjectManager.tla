------------------------ MODULE MCDebugObjectManager ------------------------
EXTENDS DebugObjectManager

MCDurations == {0, 1}
=============================================================================
