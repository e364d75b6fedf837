------------------------------- MODULE RegisterMap -------------------------------
(***************************************************************************)
(* What a slave promises about its registers: a map from cells, each a     *)
(* register type and an address, to values, and one request at a time that *)
(* works on it.  A request names the cells it reads and the cells it       *)
(* writes.  It writes all of them at one instant and reads all of them at  *)
(* one instant, the writing first when it does both.  It is answered       *)
(* without exception only when all of this has been done, and then with    *)
(* the values that were read.  A request that is refused has written       *)
(* nothing, or was still to read after its write.                          *)
(*                                                                         *)
(* The map grows as the application registers areas; a cell it has keeps   *)
(* its value until a request or the application writes it.                 *)
(***************************************************************************)
EXTENDS Integers, Sequences

CONSTANT Updates  \* pairs of a cell and a value the application may write there

VARIABLES map,    \* the pairs of a cell and its value
          job,    \* the request at work [read, write, data, wrote, got], or none
          reply   \* the answer to send: refused or not, and the values read

vars == <<map, job, reply>>

NoJob == [read |-> <<>>, write |-> <<>>, data |-> <<>>, wrote |-> FALSE, got |-> <<>>]
NoReply == [ok |-> FALSE, got |-> <<>>]

Known(cell) == \E entry \in map : entry[1] = cell

\* The map after the entries given have replaced those of the same cells
Replaced(entries) ==
    {entry \in map : \A new \in entries : new[1] # entry[1]} \cup entries

Init ==
    /\ map = {}
    /\ job = NoJob
    /\ reply = NoReply

Grow ==
    /\ UNCHANGED <<job, reply>>
    /\ map \subseteq map'
    /\ \A new \in map' \ map : ~Known(new[1])

Update ==
    /\ UNCHANGED <<job, reply>>
    /\ \E entry \in Updates : Known(entry[1]) /\ map' = Replaced({entry})

Begin ==
    /\ job = NoJob
    /\ ~job'.wrote
    /\ job'.got = <<>>
    /\ UNCHANGED <<map, reply>>

Write ==
    /\ job.write # <<>> /\ ~job.wrote
    /\ job' = [job EXCEPT !.wrote = TRUE]
    /\ \A i \in DOMAIN job.write : Known(job.write[i])
    /\ map' = Replaced({<<job.write[i], job.data[i]>> : i \in DOMAIN job.write})
    /\ UNCHANGED reply

Read ==
    /\ job.read # <<>> /\ job.got = <<>>
    /\ job.write # <<>> => job.wrote
    /\ job' = [job EXCEPT !.got = job'.got]
    /\ DOMAIN job'.got = DOMAIN job.read
    /\ \A i \in DOMAIN job.read : <<job.read[i], job'.got[i]>> \in map
    /\ UNCHANGED <<map, reply>>

Succeed ==
    /\ job.write # <<>> => job.wrote
    /\ job.read # <<>> => job.got # <<>>
    /\ reply' = [ok |-> TRUE, got |-> job.got]
    /\ job' = NoJob
    /\ UNCHANGED map

Refuse ==
    /\ job.wrote => (job.read # <<>> /\ job.got = <<>>)
    /\ reply' = NoReply
    /\ job' = NoJob
    /\ UNCHANGED map

\* The answer is sent.
Deliver ==
    /\ reply' = NoReply
    /\ UNCHANGED <<map, job>>

Next == Grow \/ Update \/ Begin \/ Write \/ Read \/ Succeed \/ Refuse \/ Deliver

Spec == Init /\ [][Next]_vars
================================================================================
