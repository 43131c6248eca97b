--------------------------- MODULE MCNotifyThread ---------------------------
EXTENDS NotifyThread
=============================================================================
