---------------------------- MODULE MCWorldSocket ----------------------------
EXTENDS WorldSocket

CONSTANTS s1

MCSockets == {s1}
=============================================================================
