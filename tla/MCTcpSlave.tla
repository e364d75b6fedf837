------------------------------ MODULE MCTcpSlave ------------------------------
EXTENDS MbTcpSlave

\* One client may send its second request before the first is answered; the third
\* competes for a slot only.
MCAsks == <<2, 1, 0>>
================================================================================
