---------------------------- MODULE MCJavaLoader ----------------------------
\* TLC instance of JavaLoader over SocketZero: see the cfg file for the constants.
EXTENDS JavaLoader

CONSTANTS m1
=============================================================================
