----------------------------- MODULE MCOpenSync -----------------------------
EXTENDS OpenSync
MCBlank == <<"blank", 0>>
MCHostUids == {<<"foreign", 1>>, <<"number", 2>>, MCBlank}
=============================================================================
