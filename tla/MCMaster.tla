------------------------------- MODULE MCMaster -------------------------------
EXTENDS MbMaster

\* The history of the requests and the result of the last call guide no step: the
\* runs about other things leave them out of the state.
ControlView == <<enabled, queue, core, frameBcast, rcvFrame, timer, pollPc, reqPc, n, bcast, wire>>
===============================================================================
