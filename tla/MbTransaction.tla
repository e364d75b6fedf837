----------------------------- MODULE MbTransaction -----------------------------
(***************************************************************************)
(* The list of transactions of a TCP slave (mb_transaction.c), oldest      *)
(* first.  An item holds a request, the slot of the connection it came on  *)
(* and how far it has got.  The list knows a request by its MBAP           *)
(* identifier alone, which is unique on one connection only.               *)
(*                                                                         *)
(* A frame is the identifier tid and the connection conn it came on; the   *)
(* list never looks at conn.  The clock is abstracted to old, which says   *)
(* that the item was received longer ago than MB_DROP_TRANSACTION_TIME_US. *)
(***************************************************************************)
EXTENDS Integers, Sequences, FiniteSets

States == {"QUEUED", "ACKNOWLEDGED", "CONFIRMED", "REPLIED", "TRANSMITTED"}

\* transaction_enqueue
Enqueue(list, frame, node) ==
    Append(list, [frame |-> frame, node |-> node, state |-> "QUEUED", old |-> FALSE])

\* transaction_get_first, asked for its state
FirstIs(list, states) == list # <<>> /\ Head(list).state \in states

\* The items at the places S stay, in their order.
Kept(list, S) ==
    [n \in 1..Cardinality(S) |-> list[CHOOSE i \in S : Cardinality({j \in S : j < i}) = n - 1]]

Without(list, i) == Kept(list, DOMAIN list \ {i})

\* transaction_get: the oldest item with this identifier, whatever connection it is of
Having(list, tid) == {i \in DOMAIN list : list[i].frame.tid = tid}
Get(list, tid) == CHOOSE i \in Having(list, tid) : \A j \in Having(list, tid) : i =< j

\* transaction_delete
Delete(list, tid) ==
    IF Having(list, tid) = {} THEN list ELSE Without(list, Get(list, tid))

\* transaction_set_state
SetState(list, tid, state) ==
    IF Having(list, tid) = {} THEN list ELSE [list EXCEPT ![Get(list, tid)].state = state]

\* transaction_delete_item and transaction_item_set_state go by the item itself.  An
\* item that has been freed is in the list no more, and nothing happens to the list.
Place(list, item) == {i \in DOMAIN list : list[i].frame = item.frame}

DeleteItem(list, item) == Kept(list, DOMAIN list \ Place(list, item))

ItemSetState(list, item, state) ==
    [i \in DOMAIN list |-> IF i \in Place(list, item) THEN [list[i] EXCEPT !.state = state]
                                                      ELSE list[i]]

\* A mutant: nothing is deleted.
DeleteByNodeKeeps(list, node) == list

\* transaction_delete_by_node_id
DeleteByNode(list, node) == Kept(list, {i \in DOMAIN list : list[i].node # node})

\* transaction_delete_expired
DeleteExpired(list) == Kept(list, {i \in DOMAIN list : ~list[i].old})
================================================================================
