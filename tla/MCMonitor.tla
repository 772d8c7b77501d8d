------------------------------- MODULE MCMonitor -------------------------------
EXTENDS Monitor

CONSTANTS f1, h1, h2
=============================================================================
