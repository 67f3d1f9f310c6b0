---------------------------- MODULE MCSocketZero ----------------------------
\* TLC instances of SocketZero: see the cfg files for the constants.
EXTENDS SocketZero, TLC

CONSTANTS m1, m2

Interchangeable == Permutations(Modes \ DesktopModes)
=============================================================================
