------------------------------ MODULE MCBackup ------------------------------
\* TLC instance of Backup: the handheld has databases a and b, the file at
\* hand one of a third, x, too.
EXTENDS Backup

CONSTANTS a, b, x

MCDatabases == {a, b, x}
MCOnDevice == {a, b}
MCLists == {<<b, a>>, <<a, x>>}
MCContents == {[d \in MCOnDevice |-> IF d = a THEN {1} ELSE {2}]}
MCFiles == {<<Entry(a, 2), Entry(x, 1), Entry(b, 1), Entry(b, 2)>>}
=============================================================================
