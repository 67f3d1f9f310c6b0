---- MODULE MCDataQueue ----
\* TLC instances of DataQueue: see the cfg files for the constants.
EXTENDS DataQueue, TLC

CONSTANTS q1, q2

NoPairs == {}
OnePair == {<<q1, q2>>}

\* Threads and messages are interchangeable; the queues are not (OnePair).
Interchangeable == Permutations(Threads) \cup Permutations(Data)
====
