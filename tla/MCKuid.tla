------------------------------ MODULE MCKuid ------------------------------
EXTENDS Kuid, TLC

CONSTANTS c1, c2, s1, s2
============================================================================
