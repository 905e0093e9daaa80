----------------------------- MODULE MCTaskMap -----------------------------
EXTENDS TaskMap

CONSTANTS g1, g2, r1
=============================================================================
