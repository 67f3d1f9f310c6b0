---------------------------- MODULE MCDebugServer ----------------------------
\* The instance of DebugServer that TLC checks.
EXTENDS DebugServer

CONSTANTS jdb, jdb2, nobody
=============================================================================
