-------------------------------- MODULE MCSlave --------------------------------
EXTENDS MbSlave

\* What was executed guides no step: the runs about other things leave it out of
\* the state, and of the answers keep which requests got one.
ControlView == <<enabled, queue, errType, busFree, buf, rcvAddr, pollPc, wire, asked,
                 {answered[i].id : i \in DOMAIN answered}>>
===============================================================================
