---------------------------- MODULE MCPlayerSessions ----------------------------
EXTENDS PlayerSessions
=============================================================================
