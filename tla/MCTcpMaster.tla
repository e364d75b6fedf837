------------------------------ MODULE MCTcpMaster ------------------------------
(****************************************************************************)
(* Two slaves with four identifiers, the second's range beginning one later *)
(* than the first's, so that both ranges end within three requests.         *)
(****************************************************************************)
EXTENDS MbTcpMaster
================================================================================
