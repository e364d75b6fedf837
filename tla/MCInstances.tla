---------------------------- MODULE MCInstances ----------------------------
(* Six instances, one of each kind, at most two of them at a time, so that   *)
(* a TCP slave and a TCP master meet, and share the loop; calls on these two *)
(* run at the same time.                                                     *)
EXTENDS MbInstances
=============================================================================
