--------------------------- MODULE MCGatewayLive ---------------------------
EXTENDS GatewayLive

CONSTANTS r1, t1, s1, s2, o
=============================================================================
