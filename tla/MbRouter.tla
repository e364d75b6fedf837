------------------------------- MODULE MbRouter -------------------------------
(***************************************************************************)
(* The handler table (mbfunc_handling.c) and the range router wrapped      *)
(* around it (mb_wrap_router.c) of one Modbus object.  Every operation     *)
(* runs under handler_descriptor.sema (mb_master.c:60-178, mb_slave.c:     *)
(* 121-225), so each is one atomic action.                                 *)
(*                                                                         *)
(* The lists are functions over the function codes: an entry of the table  *)
(* is a handler or None, a bucket is the membership of its code in         *)
(* `buckets' with the fallback and the routes kept beside it.  The routes  *)
(* of a bucket are a set; a search may find any of the routes that match.  *)
(***************************************************************************)
EXTENDS Integers, FiniteSets

CONSTANTS FuncCodes,    (* the function codes callers pass                  *)
          ValidCodes,   (* those in MB_FUNC_CODE_MIN..MB_FUNC_CODE_MAX      *)
          BuiltinCodes, (* codes with a handler registered at creation      *)
          RangeCodes,   (* codes whose ranges the API lets through          *)
          Handlers,     (* the handlers of the library and of the user      *)
          Builtin,      (* the handler of the builtin codes                 *)
          Dispatcher,   (* mbm_fn_router_dispatcher, mbs_fn_router_...      *)
          None,         (* NULL                                             *)
          HandlersMax,  (* MB_FUNC_HANDLERS_MAX                             *)
          Starts,       (* first registers of ranges and of requests        *)
          Lengths,      (* their lengths                                    *)
          AllocMayFail  (* whether malloc and calloc may return NULL        *)

ASSUME RouterAssumption ==
    /\ BuiltinCodes \subseteq ValidCodes
    /\ ValidCodes \subseteq FuncCodes
    /\ RangeCodes \subseteq FuncCodes
    /\ IsFiniteSet(FuncCodes)
    /\ Builtin \in Handlers
    /\ Dispatcher \notin Handlers
    /\ None \notin Handlers \cup {Dispatcher}
    /\ HandlersMax \in Nat
    /\ Cardinality(BuiltinCodes) <= HandlersMax
    /\ Starts \subseteq Nat
    /\ Lengths \subseteq Nat
    /\ AllocMayFail \in BOOLEAN

VARIABLES table,    (* function code -> the handler of its entry, or None   *)
          count,    (* handler_descriptor.count                             *)
          buckets,  (* the codes that have a router bucket                  *)
          fallback, (* default_handler of the bucket of a code              *)
          routes,   (* the routes of the bucket of a code                   *)
          res       (* the status the last operation returned               *)

vars == <<table, count, buckets, fallback, routes, res>>

Route == [start: Starts, len: Lengths \ {0}, handler: Handlers]

Entries == {c \in FuncCodes : table[c] # None}

TypeOK == /\ table \in [FuncCodes -> Handlers \cup {Dispatcher, None}]
          /\ count \in 0..HandlersMax
          /\ buckets \subseteq FuncCodes
          /\ fallback \in [FuncCodes -> Handlers \cup {None}]
          /\ routes \in [FuncCodes -> SUBSET Route]
          /\ res \in {"ENOERR", "EINVAL", "ENORES", "ENOTSUP"}

-------------------------------------------------------------------------------
(* Ranges.  The ends are computed in 32 bits from 16-bit operands, so they *)
(* are exact.                                                              *)

\* A plausible slip: ranges that share only one border register pass.
OverlapAtBorder(a, b) == /\ a.start < b.start + b.len - 1
                         /\ b.start < a.start + a.len - 1

Overlap(a, b) == /\ a.start < b.start + b.len
                 /\ b.start < a.start + a.len

Contains(r, start, len) == /\ start >= r.start
                           /\ start + len <= r.start + r.len

-------------------------------------------------------------------------------
(* The handler table.  SetHandler(c, h, s) is mb_set_handler(c, h) with    *)
(* the outcome s; the counter is raised before the entry is allocated.     *)

\* The limit is not checked before the list grows.
SetHandlerUnbounded(c, h, s) ==
    \/ /\ c \in ValidCodes /\ table[c] # None /\ s = "ENOERR"
       /\ table' = [table EXCEPT ![c] = h]
       /\ UNCHANGED count
    \/ /\ c \in ValidCodes /\ table[c] = None
       /\ count' = count + 1
       /\ \/ s = "ENOERR" /\ table' = [table EXCEPT ![c] = h]
          \/ AllocMayFail /\ s = "ENORES" /\ UNCHANGED table

SetHandler(c, h, s) ==
    \/ /\ c \notin ValidCodes /\ s = "EINVAL"
       /\ UNCHANGED <<table, count>>
    \/ /\ c \in ValidCodes /\ table[c] # None /\ s = "ENOERR"
       /\ table' = [table EXCEPT ![c] = h]
       /\ UNCHANGED count
    \/ /\ c \in ValidCodes /\ table[c] = None /\ count >= HandlersMax
       /\ s = "ENORES"
       /\ UNCHANGED <<table, count>>
    \/ /\ c \in ValidCodes /\ table[c] = None /\ count < HandlersMax
       /\ count' = count + 1
       /\ \/ s = "ENOERR" /\ table' = [table EXCEPT ![c] = h]
          \/ AllocMayFail /\ s = "ENORES" /\ UNCHANGED table

\* The counter drops although there was no entry to delete.
DeleteHandlerMiscounts(c, s) ==
    /\ c \in ValidCodes /\ s = "ENOERR"
    /\ table' = [table EXCEPT ![c] = None]
    /\ count' = IF count > 0 THEN count - 1 ELSE 0

DeleteHandler(c, s) ==
    \/ /\ c \notin ValidCodes \/ Entries = {}
       /\ s = "EINVAL" /\ UNCHANGED <<table, count>>
    \/ /\ c \in ValidCodes /\ Entries # {} /\ table[c] = None
       /\ s = "ENORES" /\ UNCHANGED <<table, count>>
    \/ /\ c \in ValidCodes /\ table[c] # None
       /\ s = "ENOERR"
       /\ table' = [table EXCEPT ![c] = None]
       /\ count' = IF count > 0 THEN count - 1 ELSE 0

-------------------------------------------------------------------------------
(* The router.  mb_wrap_router_ensure_dispatcher_locked makes the bucket,  *)
(* keeps a handler it finds in the table as the fallback and then puts the *)
(* dispatcher in the table, which may fail.                                *)

\* The handler found in the table is not kept when the code is wrapped.
FallbackLost(c) == fallback[c]

\* The fallback of c once the dispatcher was to be installed.
FallbackKept(c) ==
    IF c \in ValidCodes /\ table[c] \notin {None, Dispatcher}
    THEN table[c]
    ELSE fallback[c]

\* The bucket is freed but its dispatcher stays in the table.
CleanupForgetsTable(c, s) ==
    /\ s = "ENOERR"
    /\ buckets' = buckets \ {c}
    /\ UNCHANGED <<table, count>>

\* mb_wrap_router_cleanup_bucket_if_empty_locked on a bucket without
\* fallback and without routes.
Cleanup(c, s) ==
    \/ /\ c \notin ValidCodes /\ s = "EINVAL"
       /\ UNCHANGED <<table, count, buckets>>
    \/ /\ c \in ValidCodes /\ table[c] = Dispatcher
       /\ DeleteHandler(c, s)
       /\ buckets' = IF s = "ENOERR" THEN buckets \ {c} ELSE buckets
    \/ /\ c \in ValidCodes /\ table[c] # Dispatcher /\ s = "ENOERR"
       /\ buckets' = buckets \ {c}
       /\ UNCHANGED <<table, count>>

CleanupIfEmpty(c, routesLeft, fallbackLeft, s) ==
    IF fallbackLeft # None \/ routesLeft # {}
    THEN s = "ENOERR" /\ UNCHANGED <<table, count, buckets>>
    ELSE Cleanup(c, s)

-------------------------------------------------------------------------------
(* The operations of the API.                                              *)

\* mbc_set_handler(c, h)
SetDefault(c, h) ==
    \E s \in {"ENOERR", "EINVAL", "ENORES"} :
      /\ res' = s
      /\ UNCHANGED <<buckets, routes>>
      /\ \/ /\ c \in buckets
            /\ SetHandler(c, Dispatcher, s)
            /\ fallback' = [fallback EXCEPT
                              ![c] = IF s = "ENOERR" THEN h ELSE FallbackKept(c)]
         \/ /\ c \notin buckets
            /\ SetHandler(c, h, s)
            /\ UNCHANGED fallback

\* mbc_delete_handler(c)
ClearDefault(c) ==
    \E s \in {"ENOERR", "EINVAL", "ENORES"} :
      /\ res' = s
      /\ UNCHANGED routes
      /\ \/ /\ c \in buckets
            /\ fallback' = [fallback EXCEPT ![c] = None]
            /\ CleanupIfEmpty(c, routes[c], None, s)
         \/ /\ c \notin buckets
            /\ DeleteHandler(c, s)
            /\ UNCHANGED <<fallback, buckets>>

\* The checks and the insertion of a route once the dispatcher is there.
InsertRoute(c, r, s) ==
    \/ /\ \E q \in routes[c] : Overlap(q, r)
       /\ s = "EINVAL" /\ UNCHANGED routes
    \/ /\ \A q \in routes[c] : ~Overlap(q, r)
       /\ \/ AllocMayFail /\ s = "ENORES" /\ UNCHANGED routes
          \/ s = "ENOERR" /\ routes' = [routes EXCEPT ![c] = @ \cup {r}]

\* mb_wrap_router_register_range_locked
RegisterRoute(c, r) ==
    \/ /\ AllocMayFail /\ c \notin buckets
       /\ res' = "ENORES"
       /\ UNCHANGED <<table, count, buckets, fallback, routes>>
    \/ \E s, t \in {"ENOERR", "EINVAL", "ENORES"} :
         /\ buckets' = buckets \cup {c}
         /\ fallback' = [fallback EXCEPT ![c] = FallbackKept(c)]
         /\ SetHandler(c, Dispatcher, t)
         /\ \/ t # "ENOERR" /\ s = t /\ UNCHANGED routes
            \/ t = "ENOERR" /\ InsertRoute(c, r, s)
         /\ res' = s

\* mbc_register_handler_range(c, start, len, h)
RegisterRange(c, start, len, h) ==
    \/ /\ len = 0 \/ c \notin RangeCodes
       /\ res' = IF len = 0 THEN "EINVAL" ELSE "ENOTSUP"
       /\ UNCHANGED <<table, count, buckets, fallback, routes>>
    \/ /\ len # 0 /\ c \in RangeCodes
       /\ RegisterRoute(c, [start |-> start, len |-> len, handler |-> h])

\* mbc_unregister_handler_range(c, start, len)
UnregisterRange(c, start, len) ==
    \/ /\ c \notin buckets \/ \A q \in routes[c] : <<q.start, q.len>> # <<start, len>>
       /\ res' = "ENORES"
       /\ UNCHANGED <<table, count, buckets, fallback, routes>>
    \/ \E q \in routes[c], s \in {"ENOERR", "EINVAL"} :
         /\ c \in buckets
         /\ <<q.start, q.len>> = <<start, len>>
         /\ routes' = [routes EXCEPT ![c] = @ \ {q}]
         /\ CleanupIfEmpty(c, routes[c] \ {q}, fallback[c], s)
         /\ res' = s
         /\ UNCHANGED fallback

\* mbm_unregister_handlers and mbm_register_default_handlers, and the same of
\* the slave: the object is deleted and created anew.
Recreate ==
    /\ table' = [c \in FuncCodes |-> IF c \in BuiltinCodes THEN Builtin ELSE None]
    /\ count' = Cardinality(BuiltinCodes)
    /\ buckets' = {}
    /\ fallback' = [c \in FuncCodes |-> None]
    /\ routes' = [c \in FuncCodes |-> {}]
    /\ res' = "ENOERR"

-------------------------------------------------------------------------------
Init == /\ table = [c \in FuncCodes |-> IF c \in BuiltinCodes THEN Builtin ELSE None]
        /\ count = Cardinality(BuiltinCodes)
        /\ buckets = {}
        /\ fallback = [c \in FuncCodes |-> None]
        /\ routes = [c \in FuncCodes |-> {}]
        /\ res = "ENOERR"

\* An operation of the API.
Configure == \/ \E c \in FuncCodes, h \in Handlers : SetDefault(c, h)
             \/ \E c \in FuncCodes : ClearDefault(c)
             \/ \E c \in FuncCodes, start \in Starts, len \in Lengths, h \in Handlers :
                  RegisterRange(c, start, len, h)
             \/ \E c \in FuncCodes, start \in Starts, len \in Lengths :
                  UnregisterRange(c, start, len)

Next == Configure \/ Recreate

Spec == Init /\ [][Next]_vars

-------------------------------------------------------------------------------
(* Properties.                                                             *)

\* The registers of a route.
Registers(r) == r.start..(r.start + r.len - 1)

\* No register belongs to two routes of one function code, whatever the order
\* of registrations, removals and failures (mb_wrap_router.c:191-195): so the
\* handler a request finds does not depend on the order of the list.
RoutesDisjoint == \A c \in FuncCodes : \A q, r \in routes[c] :
                     Registers(q) \cap Registers(r) # {} => q = r

\* The table and the buckets agree: the dispatcher is the entry of a code only
\* if the code has a bucket to dispatch to, and a bucket that holds a fallback
\* or a route is always behind the dispatcher, so nothing registered is ever
\* unreachable.  It ties mbfunc_handling.c to mb_wrap_router.c across every
\* failing operation.
NothingUnreachable ==
    \A c \in FuncCodes :
      /\ table[c] = Dispatcher => c \in buckets
      /\ fallback[c] # None \/ routes[c] # {} => c \in buckets /\ table[c] = Dispatcher
      /\ c \in buckets => table[c] \in {Dispatcher, None}

\* The counter never falls behind the entries, so the list never outgrows
\* MB_FUNC_HANDLERS_MAX (mbfunc_handling.c:30-33, 79-81).
CountCoversEntries == Cardinality(Entries) <= count

\* A function code without fallback and without ranges has no bucket
\* (PROGRESS_SUMMARY.md, 2.2 item 9 and 2.3 item 7).
EmptyBucketReclaimed ==
    \A c \in buckets : fallback[c] # None \/ routes[c] # {}

\* The handler without a range that a caller sees for a code, wrapped or not.
View == [c \in FuncCodes |-> IF c \in buckets THEN fallback[c] ELSE table[c]]

Map == INSTANCE RoutingMap WITH fallback <- View, ranges <- routes

\* The router implements the map its callers see: what a caller has
\* registered survives the installation and the removal of the dispatcher, and
\* an operation that answers an error has changed nothing a caller can see.
ImplementsMap == Map!Spec
===============================================================================
