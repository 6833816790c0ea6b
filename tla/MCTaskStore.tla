---------------------------- MODULE MCTaskStore ----------------------------
\* Small instances of TaskStore for TLC.
EXTENDS TaskStore

TaskNumbers == 1..2
=============================================================================
