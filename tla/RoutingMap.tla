------------------------------ MODULE RoutingMap ------------------------------
(***************************************************************************)
(* What the range router promises its callers (mb_wrap_router.h and        *)
(* RANGE_ROUTER_USAGE.md, section 1): for every function code one fallback *)
(* handler, or none, and a set of disjoint register ranges, each with a    *)
(* handler.  An operation either takes effect and answers MB_ENOERR, or    *)
(* leaves the map alone and answers an error.  Neither the dispatcher nor  *)
(* the size of the handler table is visible here.                          *)
(***************************************************************************)
EXTENDS Integers

CONSTANTS FuncCodes,  (* the function codes callers pass                    *)
          Handlers,   (* the handlers callers register                      *)
          None,       (* the NULL handler                                   *)
          Starts,     (* first registers of the ranges callers register     *)
          Lengths     (* their lengths                                      *)

VARIABLES fallback,   (* function code -> handler or None                   *)
          ranges,     (* function code -> set of registered ranges          *)
          res         (* the status the last operation returned             *)

vars == <<fallback, ranges, res>>

Range == [start: Starts, len: Lengths \ {0}, handler: Handlers]

\* Two ranges meet in some register.
Meet(a, b) == a.start < b.start + b.len /\ b.start < a.start + a.len

Init == /\ fallback \in [FuncCodes -> Handlers \cup {None}]
        /\ ranges = [c \in FuncCodes |-> {}]
        /\ res = "ENOERR"

SetFallback(c, h) == /\ fallback' = [fallback EXCEPT ![c] = h]
                     /\ UNCHANGED ranges
                     /\ res' = "ENOERR"

ClearFallback(c) == SetFallback(c, None)

AddRange(c, r) == /\ \A q \in ranges[c] : ~Meet(q, r)
                  /\ ranges' = [ranges EXCEPT ![c] = @ \cup {r}]
                  /\ UNCHANGED fallback
                  /\ res' = "ENOERR"

RemoveRange(c, r) == /\ r \in ranges[c]
                     /\ ranges' = [ranges EXCEPT ![c] = @ \ {r}]
                     /\ UNCHANGED fallback
                     /\ res' = "ENOERR"

Refuse == /\ UNCHANGED <<fallback, ranges>>
          /\ res' \in {"EINVAL", "ENORES", "ENOTSUP"}

\* The object is deleted and created anew.
Recreate == /\ fallback' \in [FuncCodes -> Handlers \cup {None}]
            /\ ranges' = [c \in FuncCodes |-> {}]
            /\ res' = "ENOERR"

Next == \/ \E c \in FuncCodes :
             \/ \E h \in Handlers : SetFallback(c, h)
             \/ ClearFallback(c)
             \/ \E r \in Range : AddRange(c, r) \/ RemoveRange(c, r)
        \/ Refuse
        \/ Recreate

Spec == Init /\ [][Next]_vars
===============================================================================
