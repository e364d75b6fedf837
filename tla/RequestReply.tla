------------------------------ MODULE RequestReply ----------------------------
(***************************************************************************)
(* What mbc_master_send_request promises its caller                        *)
(* (esp_modbus_master.h:286-303): it returns once per request, it returns  *)
(* ESP_OK only if the function of this very request was executed, and an   *)
(* error only if the caller's data was left alone.                         *)
(***************************************************************************)
EXTENDS Integers

VARIABLES busy,     (* a request is in progress                             *)
          served,   (* its function has been executed                       *)
          outcome   (* what the last request returned                       *)

vars == <<busy, served, outcome>>

Errors == {"ETIMEDOUT", "ERECVDATA", "EILLFUNC", "EBUSY"}

Init == busy = FALSE /\ served = FALSE /\ outcome = "none"

Issue == ~busy /\ busy' = TRUE /\ served' = FALSE /\ outcome' = "none"

Serve == busy /\ ~served /\ served' = TRUE /\ UNCHANGED <<busy, outcome>>

Succeed == busy /\ served /\ busy' = FALSE /\ outcome' = "ENOERR" /\ UNCHANGED served

Fail == busy /\ ~served /\ busy' = FALSE /\ outcome' \in Errors /\ UNCHANGED served

\* The resource was not to be had: the request was not even sent.
Refuse == ~busy /\ outcome' = "EBUSY" /\ UNCHANGED <<busy, served>>

Next == Issue \/ Serve \/ Succeed \/ Fail \/ Refuse

Spec == Init /\ [][Next]_vars
===============================================================================
