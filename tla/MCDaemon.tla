----------------------------- MODULE MCDaemon -----------------------------
EXTENDS Daemon
=============================================================================
