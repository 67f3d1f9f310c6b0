--------------------------- MODULE MCRoutingQueue ---------------------------
\* TLC instances of RoutingQueue: see the cfg files for the constants.
EXTENDS RoutingQueue, TLC

\* Clients, buffers, entries, devices and sockets are all interchangeable.
Interchangeable ==
  Permutations(Clients) \cup Permutations(Buffers) \cup Permutations(Entries)
    \cup Permutations(Devices) \cup Permutations(Sockets)
=============================================================================
