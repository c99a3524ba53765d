----------------------------- MODULE MCStopping -----------------------------
EXTENDS Stopping

CONSTANTS a1, a2, a3, r1, r2, privateRoot, publicRoot
=============================================================================
