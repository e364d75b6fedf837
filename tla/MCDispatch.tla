------------------------------ MODULE MCDispatch ------------------------------
(***************************************************************************)
(* Two function codes, the first of which takes ranges, one register and   *)
(* two handlers: every interleaving of a caller, the poll task and the     *)
(* operations of the API.  A request of length 0 misses every range.       *)
(***************************************************************************)
EXTENDS MbDispatch

CONSTANTS c1, c2, h1, h2

MCStarts == {0}
MCLengths == 0..1
===============================================================================
