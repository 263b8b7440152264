------------------------- MODULE MCConnectableAuxVM -------------------------
EXTENDS ConnectableAuxVM

CONSTANTS ch1, ch2

MCChannelIds == {ch1, ch2}
=============================================================================
