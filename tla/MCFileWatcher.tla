---------------------------- MODULE MCFileWatcher ----------------------------
\* Two documents that arrive under one name.
EXTENDS FileWatcher

CONSTANTS d1, d2, n1
MCNameOf == [d \in {d1, d2} |-> n1]
=============================================================================
