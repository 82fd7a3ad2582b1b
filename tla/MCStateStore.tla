---------------------------- MODULE MCStateStore ----------------------------
EXTENDS StateStore

CONSTANTS m1, m2, w1, r1, x1
=============================================================================
