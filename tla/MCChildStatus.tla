---------------------------- MODULE MCChildStatus ----------------------------
EXTENDS ChildStatus

MCChild == {101, 102}
MCCodes == {0, 1}
MCSignals == {9, 15}
=============================================================================
