---------------------------- MODULE MCTreeHandles ----------------------------
EXTENDS TreeHandles

MCHandle == 1..4
=============================================================================
