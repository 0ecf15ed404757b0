----------------------------- MODULE MCSoclUdp -----------------------------
EXTENDS SoclUdp
=============================================================================
