----------------------------- MODULE MCDaemonHost -----------------------------
\* An instance of DaemonHost: two wakes of one Run.
EXTENDS DaemonHost, TLC

OneRun == [w \in Wake |-> CHOOSE r \in Run : TRUE]
===============================================================================
