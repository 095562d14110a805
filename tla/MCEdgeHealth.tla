---------------------------- MODULE MCEdgeHealth ----------------------------
EXTENDS EdgeHealth
OneSensor == {{"liveness"}, {"probe"}}
=============================================================================
