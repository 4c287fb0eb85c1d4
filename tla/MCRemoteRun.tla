---------------------------- MODULE MCRemoteRun -----------------------------
EXTENDS RemoteRun
=============================================================================
