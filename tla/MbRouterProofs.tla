---------------------------- MODULE MbRouterProofs ----------------------------
(***************************************************************************)
(* The invariants of MbRouter, for every set of function codes, handlers   *)
(* and ranges and every table size, and the refinement of RoutingMap.      *)
(***************************************************************************)
EXTENDS MbRouter, FiniteSetTheorems, TLAPS

\* A code above MB_FUNC_CODE_MAX never gets an entry (mbfunc_handling.c:16).
InvalidUnbound == \A c \in FuncCodes \ ValidCodes : table[c] = None

\* The test of mb_wrap_router_ranges_overlap keeps the routes of a code apart.
RoutesApart == \A c \in FuncCodes : \A q, r \in routes[c] :
                  Overlap(q, r) => q = r

\* The inductive invariant.  That the dispatcher of a bucket can always be
\* reinstalled, hence that a bucket in use is never left behind a table without
\* it, rests on NothingUnreachable and InvalidUnbound together.
IInv == /\ TypeOK
        /\ RoutesApart
        /\ NothingUnreachable
        /\ CountCoversEntries
        /\ InvalidUnbound

-------------------------------------------------------------------------------
(* The handler table.                                                      *)

LEMMA EntriesFinite == /\ IsFiniteSet(Entries)
                       /\ Cardinality(Entries) \in Nat
<1>1. Entries \in SUBSET FuncCodes
  BY DEF Entries
<1>2. IsFiniteSet(FuncCodes)
  BY RouterAssumption DEF RouterAssumption
<1> QED
  BY <1>1, <1>2, FS_Subset, FS_CardinalityType

\* What mb_set_handler does to a table in a legal state.
LEMMA SetHandlerEffect ==
  ASSUME TypeOK, CountCoversEntries, InvalidUnbound,
         NEW c \in FuncCodes, NEW h \in Handlers \cup {Dispatcher}, NEW s,
         SetHandler(c, h, s)
  PROVE  /\ table' = IF s = "ENOERR" THEN [table EXCEPT ![c] = h] ELSE table
         /\ table' \in [FuncCodes -> Handlers \cup {Dispatcher, None}]
         /\ count' \in 0..HandlersMax
         /\ CountCoversEntries'
         /\ InvalidUnbound'
         /\ s = "ENOERR" => c \in ValidCodes
         /\ s # "ENOERR" => table[c] = None
         /\ s \in {"ENOERR", "EINVAL", "ENORES"}
<1> USE RouterAssumption DEF RouterAssumption
<1>1. /\ table' = IF s = "ENOERR" THEN [table EXCEPT ![c] = h] ELSE table
      /\ s = "ENOERR" => c \in ValidCodes
      /\ s # "ENOERR" => table[c] = None
      /\ s \in {"ENOERR", "EINVAL", "ENORES"}
  BY DEF SetHandler, InvalidUnbound
<1>2. /\ table' \in [FuncCodes -> Handlers \cup {Dispatcher, None}]
      /\ InvalidUnbound'
  BY <1>1 DEF TypeOK, InvalidUnbound
<1>3. count' \in 0..HandlersMax
  BY DEF SetHandler, TypeOK
<1>4. CountCoversEntries'
  <2>1. CASE table' = table /\ count' >= count
    <3>1. Entries' = Entries
      BY <2>1 DEF Entries
    <3> QED
      BY <2>1, <3>1, <1>3, EntriesFinite DEF CountCoversEntries, TypeOK
  <2>2. CASE table[c] # None /\ table' = [table EXCEPT ![c] = h] /\ count' = count
    <3>1. Entries' = Entries
      BY <2>2 DEF Entries, TypeOK
    <3> QED
      BY <2>2, <3>1 DEF CountCoversEntries
  <2>3. CASE table[c] = None /\ table' = [table EXCEPT ![c] = h] /\ count' = count + 1
    <3>1. Entries' = Entries \cup {c} /\ c \notin Entries
      BY <2>3 DEF Entries, TypeOK
    <3>2. Cardinality(Entries') = Cardinality(Entries) + 1
      BY <3>1, EntriesFinite, FS_AddElement
    <3> QED
      BY <2>3, <3>2, EntriesFinite DEF CountCoversEntries, TypeOK
  <2> QED
    BY <2>1, <2>2, <2>3 DEF SetHandler, TypeOK
<1> QED
  BY <1>1, <1>2, <1>3, <1>4

\* What mb_delete_handler does to it.
LEMMA DeleteHandlerEffect ==
  ASSUME TypeOK, CountCoversEntries, InvalidUnbound,
         NEW c \in FuncCodes, NEW s, DeleteHandler(c, s)
  PROVE  /\ table' = IF s = "ENOERR" THEN [table EXCEPT ![c] = None] ELSE table
         /\ table' \in [FuncCodes -> Handlers \cup {Dispatcher, None}]
         /\ count' \in 0..HandlersMax
         /\ CountCoversEntries'
         /\ InvalidUnbound'
         /\ s # "ENOERR" => table[c] = None
         /\ s \in {"ENOERR", "EINVAL", "ENORES"}
<1> USE RouterAssumption DEF RouterAssumption
<1>1. /\ table' = IF s = "ENOERR" THEN [table EXCEPT ![c] = None] ELSE table
      /\ s # "ENOERR" => table[c] = None
      /\ s \in {"ENOERR", "EINVAL", "ENORES"}
  BY DEF DeleteHandler, InvalidUnbound, Entries
<1>2. /\ table' \in [FuncCodes -> Handlers \cup {Dispatcher, None}]
      /\ InvalidUnbound'
  BY <1>1 DEF TypeOK, InvalidUnbound
<1>3. count' \in 0..HandlersMax
  BY DEF DeleteHandler, TypeOK
<1>4. CountCoversEntries'
  <2>1. CASE table' = table /\ count' = count
    BY <2>1 DEF CountCoversEntries, Entries
  <2>2. CASE /\ table[c] # None
             /\ table' = [table EXCEPT ![c] = None]
             /\ count' = IF count > 0 THEN count - 1 ELSE 0
    <3>1. Entries' = Entries \ {c} /\ c \in Entries
      BY <2>2 DEF Entries, TypeOK
    <3>2. Cardinality(Entries') = Cardinality(Entries) - 1
      BY <3>1, EntriesFinite, FS_RemoveElement
    <3>3. Cardinality(Entries') \in Nat
      BY <3>1, EntriesFinite, FS_RemoveElement, FS_CardinalityType
    <3> QED
      BY <2>2, <3>2, <3>3, EntriesFinite DEF CountCoversEntries, TypeOK
  <2> QED
    BY <2>1, <2>2 DEF DeleteHandler
<1> QED
  BY <1>1, <1>2, <1>3, <1>4

-------------------------------------------------------------------------------
(* The bucket.                                                             *)

LEMMA FallbackKeptEffect ==
  ASSUME IInv, NEW c \in FuncCodes
  PROVE  /\ FallbackKept(c) = IF c \in buckets THEN fallback[c] ELSE table[c]
         /\ FallbackKept(c) \in Handlers \cup {None}
<1> USE RouterAssumption DEF RouterAssumption
<1>1. CASE c \in buckets
  BY <1>1 DEF FallbackKept, IInv, NothingUnreachable, TypeOK
<1>2. CASE c \notin buckets
  <2>1. fallback[c] = None /\ table[c] # Dispatcher
    BY <1>2 DEF IInv, NothingUnreachable
  <2>2. c \notin ValidCodes => table[c] = None
    BY DEF IInv, InvalidUnbound
  <2> QED
    BY <1>2, <2>1, <2>2 DEF FallbackKept, IInv, TypeOK
<1> QED
  BY <1>1, <1>2

\* mb_wrap_router_cleanup_bucket_if_empty_locked takes the dispatcher out of the
\* table exactly when it frees the bucket.
LEMMA CleanupEffect ==
  ASSUME IInv, NEW c \in buckets, NEW R, NEW f \in Handlers \cup {None}, NEW s,
         CleanupIfEmpty(c, R, f, s)
  PROVE  /\ table' \in [FuncCodes -> Handlers \cup {Dispatcher, None}]
         /\ count' \in 0..HandlersMax
         /\ CountCoversEntries'
         /\ InvalidUnbound'
         /\ s \in {"ENOERR", "EINVAL"}
         /\ \/ UNCHANGED <<table, buckets>>
            \/ /\ f = None /\ R = {}
               /\ buckets' = buckets \ {c}
               /\ table' = [table EXCEPT ![c] = None]
         /\ s # "ENOERR" => c \notin ValidCodes /\ UNCHANGED <<table, buckets>>
<1> USE RouterAssumption DEF RouterAssumption
<1>0. /\ TypeOK /\ CountCoversEntries /\ InvalidUnbound /\ c \in FuncCodes
      /\ table[c] \in {Dispatcher, None}
  BY DEF IInv, TypeOK, NothingUnreachable
<1>1. CASE UNCHANGED <<table, count, buckets>> /\ s = "ENOERR"
  BY <1>0, <1>1 DEF TypeOK, CountCoversEntries, InvalidUnbound, Entries
<1>2. CASE UNCHANGED <<table, count, buckets>> /\ s = "EINVAL" /\ c \notin ValidCodes
  BY <1>0, <1>2 DEF TypeOK, CountCoversEntries, InvalidUnbound, Entries
<1>3. CASE /\ f = None /\ R = {} /\ c \in ValidCodes /\ table[c] = Dispatcher
           /\ DeleteHandler(c, s)
           /\ buckets' = IF s = "ENOERR" THEN buckets \ {c} ELSE buckets
  <2>1. s = "ENOERR"
    BY <1>0, <1>3, DeleteHandlerEffect
  <2> QED
    BY <1>0, <1>3, <2>1, DeleteHandlerEffect
<1>4. CASE /\ f = None /\ R = {} /\ c \in ValidCodes /\ table[c] # Dispatcher
           /\ s = "ENOERR" /\ buckets' = buckets \ {c} /\ UNCHANGED <<table, count>>
  <2>1. table' = [table EXCEPT ![c] = None]
    BY <1>0, <1>4 DEF TypeOK
  <2> QED
    BY <1>0, <1>4, <2>1 DEF TypeOK, CountCoversEntries, InvalidUnbound, Entries
<1> QED
  BY <1>1, <1>2, <1>3, <1>4 DEF CleanupIfEmpty, Cleanup

-------------------------------------------------------------------------------
(* Every operation preserves the invariant.                                *)

LEMMA InitIInv == Init => IInv
<1> SUFFICES ASSUME Init PROVE IInv
  OBVIOUS
<1> USE RouterAssumption DEF RouterAssumption, Init
<1>1. Entries = BuiltinCodes
  BY DEF Entries
<1>2. Cardinality(BuiltinCodes) \in Nat
  BY <1>1, EntriesFinite
<1>3. TypeOK
  BY <1>2 DEF TypeOK
<1>4. CountCoversEntries
  BY <1>1, <1>2 DEF CountCoversEntries
<1> QED
  BY <1>3, <1>4 DEF IInv, RoutesApart, NothingUnreachable, InvalidUnbound

LEMMA SetDefaultIInv ==
  ASSUME IInv, NEW c \in FuncCodes, NEW h \in Handlers, SetDefault(c, h)
  PROVE  IInv'
<1> USE RouterAssumption DEF RouterAssumption
<1>0. TypeOK /\ CountCoversEntries /\ InvalidUnbound
  BY DEF IInv
<1>1. PICK s \in {"ENOERR", "EINVAL", "ENORES"} :
        /\ res' = s
        /\ UNCHANGED <<buckets, routes>>
        /\ \/ /\ c \in buckets
              /\ SetHandler(c, Dispatcher, s)
              /\ fallback' = [fallback EXCEPT
                                ![c] = IF s = "ENOERR" THEN h ELSE FallbackKept(c)]
           \/ /\ c \notin buckets
              /\ SetHandler(c, h, s)
              /\ UNCHANGED fallback
  BY DEF SetDefault
<1>2. CASE c \in buckets
  <2>1. /\ SetHandler(c, Dispatcher, s)
        /\ fallback' = [fallback EXCEPT ![c] = IF s = "ENOERR" THEN h ELSE fallback[c]]
    BY <1>1, <1>2, FallbackKeptEffect
  <2>2. /\ table' = IF s = "ENOERR" THEN [table EXCEPT ![c] = Dispatcher] ELSE table
        /\ table' \in [FuncCodes -> Handlers \cup {Dispatcher, None}]
        /\ count' \in 0..HandlersMax /\ CountCoversEntries' /\ InvalidUnbound'
    BY <1>0, <2>1, SetHandlerEffect
  <2>3. TypeOK'
    BY <1>0, <1>1, <2>1, <2>2 DEF TypeOK
  <2>4. NothingUnreachable'
    BY <1>0, <1>1, <1>2, <2>1, <2>2 DEF IInv, NothingUnreachable, TypeOK
  <2> QED
    BY <1>1, <2>2, <2>3, <2>4 DEF IInv, RoutesApart
<1>3. CASE c \notin buckets
  <2>1. SetHandler(c, h, s) /\ UNCHANGED fallback
    BY <1>1, <1>3
  <2>2. /\ table' = IF s = "ENOERR" THEN [table EXCEPT ![c] = h] ELSE table
        /\ table' \in [FuncCodes -> Handlers \cup {Dispatcher, None}]
        /\ count' \in 0..HandlersMax /\ CountCoversEntries' /\ InvalidUnbound'
    BY <1>0, <2>1, SetHandlerEffect
  <2>3. TypeOK'
    BY <1>0, <1>1, <2>1, <2>2 DEF TypeOK
  <2>4. NothingUnreachable'
    BY <1>0, <1>1, <1>3, <2>1, <2>2 DEF IInv, NothingUnreachable, TypeOK
  <2> QED
    BY <1>1, <2>2, <2>3, <2>4 DEF IInv, RoutesApart
<1> QED
  BY <1>2, <1>3

LEMMA ClearDefaultIInv ==
  ASSUME IInv, NEW c \in FuncCodes, ClearDefault(c)
  PROVE  IInv'
<1> USE RouterAssumption DEF RouterAssumption
<1>0. TypeOK /\ CountCoversEntries /\ InvalidUnbound
  BY DEF IInv
<1>1. PICK s \in {"ENOERR", "EINVAL", "ENORES"} :
        /\ res' = s
        /\ UNCHANGED routes
        /\ \/ /\ c \in buckets
              /\ fallback' = [fallback EXCEPT ![c] = None]
              /\ CleanupIfEmpty(c, routes[c], None, s)
           \/ /\ c \notin buckets
              /\ DeleteHandler(c, s)
              /\ UNCHANGED <<fallback, buckets>>
  BY DEF ClearDefault
<1>2. CASE c \in buckets
  <2>1. /\ fallback' = [fallback EXCEPT ![c] = None]
        /\ CleanupIfEmpty(c, routes[c], None, s)
    BY <1>1, <1>2
  <2>2. /\ table' \in [FuncCodes -> Handlers \cup {Dispatcher, None}]
        /\ count' \in 0..HandlersMax /\ CountCoversEntries' /\ InvalidUnbound'
        /\ \/ UNCHANGED <<table, buckets>>
           \/ /\ routes[c] = {}
              /\ buckets' = buckets \ {c}
              /\ table' = [table EXCEPT ![c] = None]
    BY <1>2, <2>1, CleanupEffect
  <2>3. TypeOK'
    BY <1>0, <1>1, <2>1, <2>2 DEF TypeOK
  <2>4. NothingUnreachable'
    BY <1>0, <1>1, <1>2, <2>1, <2>2 DEF IInv, NothingUnreachable, TypeOK
  <2> QED
    BY <1>1, <2>2, <2>3, <2>4 DEF IInv, RoutesApart
<1>3. CASE c \notin buckets
  <2>1. DeleteHandler(c, s) /\ UNCHANGED <<fallback, buckets>>
    BY <1>1, <1>3
  <2>2. /\ table' = IF s = "ENOERR" THEN [table EXCEPT ![c] = None] ELSE table
        /\ table' \in [FuncCodes -> Handlers \cup {Dispatcher, None}]
        /\ count' \in 0..HandlersMax /\ CountCoversEntries' /\ InvalidUnbound'
    BY <1>0, <2>1, DeleteHandlerEffect
  <2>3. TypeOK'
    BY <1>0, <1>1, <2>1, <2>2 DEF TypeOK
  <2>4. NothingUnreachable'
    BY <1>0, <1>1, <1>3, <2>1, <2>2 DEF IInv, NothingUnreachable, TypeOK
  <2> QED
    BY <1>1, <2>2, <2>3, <2>4 DEF IInv, RoutesApart
<1> QED
  BY <1>2, <1>3

\* A route enters a bucket only if it meets none of the routes already there.
LEMMA InsertRouteEffect ==
  ASSUME IInv, NEW c \in FuncCodes, NEW r \in Route, NEW s, InsertRoute(c, r, s)
  PROVE  /\ routes' \in [FuncCodes -> SUBSET Route]
         /\ RoutesApart'
         /\ \A d \in FuncCodes \ {c} : routes'[d] = routes[d]
<1>1. routes \in [FuncCodes -> SUBSET Route] /\ RoutesApart
  BY DEF IInv, TypeOK
<1>2. CASE UNCHANGED routes
  BY <1>1, <1>2 DEF RoutesApart
<1>3. CASE /\ \A q \in routes[c] : ~Overlap(q, r)
           /\ routes' = [routes EXCEPT ![c] = @ \cup {r}]
  <2>1. /\ routes' \in [FuncCodes -> SUBSET Route]
        /\ routes'[c] = routes[c] \cup {r}
        /\ \A d \in FuncCodes \ {c} : routes'[d] = routes[d]
    BY <1>1, <1>3
  <2>2. \A q \in routes[c] : ~Overlap(r, q)
    BY <1>3 DEF Overlap
  <2>3. \A q1, q2 \in routes'[c] : Overlap(q1, q2) => q1 = q2
    BY <1>1, <1>3, <2>1, <2>2 DEF RoutesApart
  <2> QED
    BY <1>1, <2>1, <2>3 DEF RoutesApart
<1> QED
  BY <1>2, <1>3 DEF InsertRoute

LEMMA RegisterRangeIInv ==
  ASSUME IInv, NEW c \in FuncCodes, NEW start \in Starts, NEW len \in Lengths,
         NEW h \in Handlers, RegisterRange(c, start, len, h)
  PROVE  IInv'
<1> USE RouterAssumption DEF RouterAssumption
<1> DEFINE r == [start |-> start, len |-> len, handler |-> h]
<1>0. TypeOK /\ CountCoversEntries /\ InvalidUnbound /\ RoutesApart
  BY DEF IInv
<1>1. CASE UNCHANGED <<table, count, buckets, fallback, routes>> /\ res' \in {"EINVAL", "ENOTSUP", "ENORES"}
  BY <1>1 DEF IInv, TypeOK, CountCoversEntries, Entries, InvalidUnbound,
              RoutesApart, NothingUnreachable
<1>2. CASE /\ len # 0 /\ c \in RangeCodes
           /\ \E s, t \in {"ENOERR", "EINVAL", "ENORES"} :
                /\ buckets' = buckets \cup {c}
                /\ fallback' = [fallback EXCEPT ![c] = FallbackKept(c)]
                /\ SetHandler(c, Dispatcher, t)
                /\ \/ t # "ENOERR" /\ s = t /\ UNCHANGED routes
                   \/ t = "ENOERR" /\ InsertRoute(c, r, s)
                /\ res' = s
  <2>1. PICK s \in {"ENOERR", "EINVAL", "ENORES"}, t \in {"ENOERR", "EINVAL", "ENORES"} :
                /\ buckets' = buckets \cup {c}
                /\ fallback' = [fallback EXCEPT ![c] = FallbackKept(c)]
                /\ SetHandler(c, Dispatcher, t)
                /\ \/ t # "ENOERR" /\ s = t /\ UNCHANGED routes
                   \/ t = "ENOERR" /\ InsertRoute(c, r, s)
                /\ res' = s
    BY <1>2
  <2>2. r \in Route
    BY <1>2 DEF Route
  <2>3. /\ routes' \in [FuncCodes -> SUBSET Route] /\ RoutesApart'
        /\ \A d \in FuncCodes \ {c} : routes'[d] = routes[d]
        /\ t # "ENOERR" => routes' = routes
    <3>1. CASE UNCHANGED routes
      BY <1>0, <3>1 DEF TypeOK, RoutesApart
    <3>2. CASE t = "ENOERR" /\ InsertRoute(c, r, s)
      BY <2>2, <3>2, InsertRouteEffect
    <3> QED
      BY <2>1, <3>1, <3>2
  <2>4. /\ fallback' = [fallback EXCEPT ![c] = IF c \in buckets THEN fallback[c] ELSE table[c]]
        /\ fallback' \in [FuncCodes -> Handlers \cup {None}]
    BY <1>0, <2>1, FallbackKeptEffect DEF TypeOK
  <2>5. /\ table' = IF t = "ENOERR" THEN [table EXCEPT ![c] = Dispatcher] ELSE table
        /\ table' \in [FuncCodes -> Handlers \cup {Dispatcher, None}]
        /\ count' \in 0..HandlersMax /\ CountCoversEntries' /\ InvalidUnbound'
        /\ t # "ENOERR" => table[c] = None
    BY <1>0, <2>1, SetHandlerEffect
  <2>6. TypeOK'
    BY <1>0, <2>1, <2>3, <2>4, <2>5 DEF TypeOK
  <2>7. NothingUnreachable'
    BY <1>0, <2>1, <2>3, <2>4, <2>5 DEF IInv, NothingUnreachable, TypeOK
  <2> QED
    BY <2>3, <2>5, <2>6, <2>7 DEF IInv
<1> QED
  BY <1>1, <1>2 DEF RegisterRange, RegisterRoute

LEMMA UnregisterRangeIInv ==
  ASSUME IInv, NEW c \in FuncCodes, NEW start \in Starts, NEW len \in Lengths,
         UnregisterRange(c, start, len)
  PROVE  IInv'
<1> USE RouterAssumption DEF RouterAssumption
<1>0. TypeOK /\ RoutesApart
  BY DEF IInv
<1>1. CASE UNCHANGED <<table, count, buckets, fallback, routes>> /\ res' = "ENORES"
  BY <1>1 DEF IInv, TypeOK, CountCoversEntries, Entries, InvalidUnbound,
              RoutesApart, NothingUnreachable
<1>2. CASE \E q \in routes[c], s \in {"ENOERR", "EINVAL"} :
             /\ c \in buckets
             /\ <<q.start, q.len>> = <<start, len>>
             /\ routes' = [routes EXCEPT ![c] = @ \ {q}]
             /\ CleanupIfEmpty(c, routes[c] \ {q}, fallback[c], s)
             /\ res' = s
             /\ UNCHANGED fallback
  <2>1. PICK q \in routes[c], s \in {"ENOERR", "EINVAL"} :
             /\ c \in buckets
             /\ <<q.start, q.len>> = <<start, len>>
             /\ routes' = [routes EXCEPT ![c] = @ \ {q}]
             /\ CleanupIfEmpty(c, routes[c] \ {q}, fallback[c], s)
             /\ res' = s
             /\ UNCHANGED fallback
    BY <1>2
  <2>2. fallback[c] \in Handlers \cup {None}
    BY <1>0 DEF TypeOK
  <2>3. /\ table' \in [FuncCodes -> Handlers \cup {Dispatcher, None}]
        /\ count' \in 0..HandlersMax /\ CountCoversEntries' /\ InvalidUnbound'
        /\ \/ UNCHANGED <<table, buckets>>
           \/ /\ fallback[c] = None /\ routes[c] \ {q} = {}
              /\ buckets' = buckets \ {c}
              /\ table' = [table EXCEPT ![c] = None]
    BY <2>1, <2>2, CleanupEffect
  <2>4. TypeOK' /\ RoutesApart'
    BY <1>0, <2>1, <2>3 DEF TypeOK, RoutesApart
  <2>5. NothingUnreachable'
    BY <1>0, <2>1, <2>3 DEF IInv, NothingUnreachable, TypeOK
  <2> QED
    BY <2>3, <2>4, <2>5 DEF IInv
<1> QED
  BY <1>1, <1>2 DEF UnregisterRange

LEMMA RecreateIInv == Recreate => IInv'
<1> SUFFICES ASSUME Recreate PROVE IInv'
  OBVIOUS
<1> USE RouterAssumption DEF RouterAssumption, Recreate
<1>1. Entries' = BuiltinCodes
  BY DEF Entries
<1>2. Cardinality(BuiltinCodes) \in Nat
  <2>1. BuiltinCodes \in SUBSET FuncCodes
    OBVIOUS
  <2> QED
    BY <2>1, FS_Subset, FS_CardinalityType
<1>3. TypeOK'
  BY <1>2 DEF TypeOK
<1>4. CountCoversEntries'
  BY <1>1, <1>2 DEF CountCoversEntries
<1> QED
  BY <1>3, <1>4 DEF IInv, RoutesApart, NothingUnreachable, InvalidUnbound

LEMMA NextIInv == IInv /\ [Next]_vars => IInv'
<1> SUFFICES ASSUME IInv, [Next]_vars PROVE IInv'
  OBVIOUS
<1>1. ASSUME NEW c \in FuncCodes, NEW h \in Handlers, SetDefault(c, h) PROVE IInv'
  BY <1>1, SetDefaultIInv
<1>2. ASSUME NEW c \in FuncCodes, ClearDefault(c) PROVE IInv'
  BY <1>2, ClearDefaultIInv
<1>3. ASSUME NEW c \in FuncCodes, NEW start \in Starts, NEW len \in Lengths,
             NEW h \in Handlers, RegisterRange(c, start, len, h)
      PROVE  IInv'
  BY <1>3, RegisterRangeIInv
<1>4. ASSUME NEW c \in FuncCodes, NEW start \in Starts, NEW len \in Lengths,
             UnregisterRange(c, start, len)
      PROVE  IInv'
  BY <1>4, UnregisterRangeIInv
<1>5. CASE Recreate
  BY <1>5, RecreateIInv
<1>6. CASE UNCHANGED vars
  BY <1>6 DEF vars, IInv, TypeOK, CountCoversEntries, Entries, InvalidUnbound,
              RoutesApart, NothingUnreachable
<1> QED
  BY <1>1, <1>2, <1>3, <1>4, <1>5, <1>6 DEF Next, Configure

-------------------------------------------------------------------------------
(* The theorems.                                                           *)

LEMMA Invariance == Spec => []IInv
BY InitIInv, NextIInv, PTL DEF Spec

\* The variables keep their types under every sequence of operations of the API.
THEOREM TypeCorrect == Spec => []TypeOK
<1>1. IInv => TypeOK
  BY DEF IInv
<1> QED
  BY <1>1, Invariance, PTL

\* Two routes that share a register overlap.
LEMMA SharedOverlap ==
  ASSUME NEW q \in Route, NEW r \in Route, Registers(q) \cap Registers(r) # {}
  PROVE  Overlap(q, r)
<1>1. PICK x : x \in Registers(q) /\ x \in Registers(r)
  OBVIOUS
<1>2. q.start \in Nat /\ q.len \in Nat /\ r.start \in Nat /\ r.len \in Nat
  BY RouterAssumption DEF Route, RouterAssumption
<1>3. x \in q.start..(q.start + q.len - 1) /\ x \in r.start..(r.start + r.len - 1)
  BY <1>1 DEF Registers
<1> QED
  BY <1>2, <1>3 DEF Overlap

\* Whatever is registered and removed, in whatever order and with whatever
\* allocation failures, no register has two handlers.
THEOREM DisjointRoutes == Spec => []RoutesDisjoint
<1>1. IInv => RoutesDisjoint
  <2> SUFFICES ASSUME IInv, NEW c \in FuncCodes, NEW q \in routes[c], NEW r \in routes[c],
                      Registers(q) \cap Registers(r) # {}
               PROVE  q = r
    BY DEF RoutesDisjoint
  <2>1. q \in Route /\ r \in Route
    BY DEF IInv, TypeOK
  <2>2. Overlap(q, r)
    BY <2>1, SharedOverlap
  <2> QED
    BY <2>2 DEF IInv, RoutesApart
<1> QED
  BY <1>1, Invariance, PTL

\* The handler table and the router never disagree about who serves a code.
THEOREM Reachable == Spec => []NothingUnreachable
<1>1. IInv => NothingUnreachable
  BY DEF IInv
<1> QED
  BY <1>1, Invariance, PTL

\* The table never outgrows its counter, nor the counter the table's limit.
THEOREM TableBounded == Spec => [](CountCoversEntries /\ Cardinality(Entries) <= HandlersMax)
<1>1. IInv => CountCoversEntries /\ Cardinality(Entries) <= HandlersMax
  BY EntriesFinite, RouterAssumption DEF IInv, CountCoversEntries, TypeOK, RouterAssumption
<1> QED
  BY <1>1, Invariance, PTL

-------------------------------------------------------------------------------
(* The refinement: every step of the router is a step of the map.          *)

LEMMA SetDefaultRefines ==
  ASSUME IInv, NEW c \in FuncCodes, NEW h \in Handlers, SetDefault(c, h)
  PROVE  Map!Next
<1> USE RouterAssumption DEF RouterAssumption
<1>0. TypeOK /\ CountCoversEntries /\ InvalidUnbound
  BY DEF IInv
<1>1. PICK s \in {"ENOERR", "EINVAL", "ENORES"} :
        /\ res' = s
        /\ UNCHANGED <<buckets, routes>>
        /\ \/ /\ c \in buckets
              /\ SetHandler(c, Dispatcher, s)
              /\ fallback' = [fallback EXCEPT
                                ![c] = IF s = "ENOERR" THEN h ELSE FallbackKept(c)]
           \/ /\ c \notin buckets
              /\ SetHandler(c, h, s)
              /\ UNCHANGED fallback
  BY DEF SetDefault
<1>2. View' = IF s = "ENOERR" THEN [View EXCEPT ![c] = h] ELSE View
  <2>1. CASE c \in buckets
    <3>1. /\ table' = IF s = "ENOERR" THEN [table EXCEPT ![c] = Dispatcher] ELSE table
          /\ fallback' = [fallback EXCEPT ![c] = IF s = "ENOERR" THEN h ELSE fallback[c]]
      BY <1>0, <1>1, <2>1, SetHandlerEffect, FallbackKeptEffect
    <3> QED
      BY <1>0, <1>1, <2>1, <3>1 DEF View, TypeOK
  <2>2. CASE c \notin buckets
    <3>1. /\ table' = IF s = "ENOERR" THEN [table EXCEPT ![c] = h] ELSE table
          /\ fallback' = fallback
      BY <1>0, <1>1, <2>2, SetHandlerEffect
    <3> QED
      BY <1>0, <1>1, <2>2, <3>1 DEF View, TypeOK
  <2> QED
    BY <2>1, <2>2
<1>3. CASE s = "ENOERR"
  <2>1. Map!SetFallback(c, h)
    BY <1>1, <1>2, <1>3 DEF Map!SetFallback
  <2> QED
    BY <2>1 DEF Map!Next
<1>4. CASE s # "ENOERR"
  <2>1. Map!Refuse
    BY <1>1, <1>2, <1>4 DEF Map!Refuse
  <2> QED
    BY <2>1 DEF Map!Next
<1> QED
  BY <1>3, <1>4

LEMMA ClearDefaultRefines ==
  ASSUME IInv, NEW c \in FuncCodes, ClearDefault(c)
  PROVE  Map!Next
<1> USE RouterAssumption DEF RouterAssumption
<1>0. TypeOK /\ CountCoversEntries /\ InvalidUnbound /\ NothingUnreachable
  BY DEF IInv
<1>1. PICK s \in {"ENOERR", "EINVAL", "ENORES"} :
        /\ res' = s
        /\ UNCHANGED routes
        /\ \/ /\ c \in buckets
              /\ fallback' = [fallback EXCEPT ![c] = None]
              /\ CleanupIfEmpty(c, routes[c], None, s)
           \/ /\ c \notin buckets
              /\ DeleteHandler(c, s)
              /\ UNCHANGED <<fallback, buckets>>
  BY DEF ClearDefault
<1>2. View' = IF s = "ENOERR" THEN [View EXCEPT ![c] = None] ELSE View
  <2>1. CASE c \in buckets
    <3>1. /\ \/ UNCHANGED <<table, buckets>>
             \/ /\ buckets' = buckets \ {c}
                /\ table' = [table EXCEPT ![c] = None]
          /\ s # "ENOERR" => c \notin ValidCodes /\ UNCHANGED <<table, buckets>>
          /\ fallback' = [fallback EXCEPT ![c] = None]
      BY <1>1, <2>1, CleanupEffect
    <3>2. s # "ENOERR" => fallback[c] = None
      BY <1>0, <3>1 DEF NothingUnreachable, InvalidUnbound
    <3> QED
      BY <1>0, <2>1, <3>1, <3>2 DEF View, TypeOK
  <2>2. CASE c \notin buckets
    <3>1. /\ table' = IF s = "ENOERR" THEN [table EXCEPT ![c] = None] ELSE table
          /\ UNCHANGED <<fallback, buckets>>
      BY <1>0, <1>1, <2>2, DeleteHandlerEffect
    <3> QED
      BY <1>0, <2>2, <3>1 DEF View, TypeOK
  <2> QED
    BY <2>1, <2>2
<1>3. CASE s = "ENOERR"
  <2>1. Map!ClearFallback(c)
    BY <1>1, <1>2, <1>3 DEF Map!ClearFallback, Map!SetFallback
  <2> QED
    BY <2>1 DEF Map!Next
<1>4. CASE s # "ENOERR"
  <2>1. Map!Refuse
    BY <1>1, <1>2, <1>4 DEF Map!Refuse
  <2> QED
    BY <2>1 DEF Map!Next
<1> QED
  BY <1>3, <1>4

LEMMA RegisterRangeRefines ==
  ASSUME IInv, NEW c \in FuncCodes, NEW start \in Starts, NEW len \in Lengths,
         NEW h \in Handlers, RegisterRange(c, start, len, h)
  PROVE  Map!Next
<1> USE RouterAssumption DEF RouterAssumption
<1> DEFINE r == [start |-> start, len |-> len, handler |-> h]
<1>0. TypeOK /\ CountCoversEntries /\ InvalidUnbound
  BY DEF IInv
<1>1. CASE UNCHANGED <<table, count, buckets, fallback, routes>> /\ res' \in {"EINVAL", "ENOTSUP", "ENORES"}
  <2>1. Map!Refuse
    BY <1>1 DEF Map!Refuse, View
  <2> QED
    BY <2>1 DEF Map!Next
<1>2. CASE /\ len # 0 /\ c \in RangeCodes
           /\ \E s, t \in {"ENOERR", "EINVAL", "ENORES"} :
                /\ buckets' = buckets \cup {c}
                /\ fallback' = [fallback EXCEPT ![c] = FallbackKept(c)]
                /\ SetHandler(c, Dispatcher, t)
                /\ \/ t # "ENOERR" /\ s = t /\ UNCHANGED routes
                   \/ t = "ENOERR" /\ InsertRoute(c, r, s)
                /\ res' = s
  <2>1. PICK s \in {"ENOERR", "EINVAL", "ENORES"}, t \in {"ENOERR", "EINVAL", "ENORES"} :
                /\ buckets' = buckets \cup {c}
                /\ fallback' = [fallback EXCEPT ![c] = FallbackKept(c)]
                /\ SetHandler(c, Dispatcher, t)
                /\ \/ t # "ENOERR" /\ s = t /\ UNCHANGED routes
                   \/ t = "ENOERR" /\ InsertRoute(c, r, s)
                /\ res' = s
    BY <1>2
  <2>2. View' = View
    <3>1. /\ fallback' = [fallback EXCEPT ![c] = IF c \in buckets THEN fallback[c] ELSE table[c]]
          /\ table' = IF t = "ENOERR" THEN [table EXCEPT ![c] = Dispatcher] ELSE table
      BY <1>0, <2>1, FallbackKeptEffect, SetHandlerEffect
    <3> QED
      BY <1>0, <2>1, <3>1 DEF View, TypeOK
  <2>3. CASE s # "ENOERR"
    <3>1. UNCHANGED routes
      BY <2>1, <2>3 DEF InsertRoute
    <3>2. Map!Refuse
      BY <2>1, <2>2, <2>3, <3>1 DEF Map!Refuse
    <3> QED
      BY <3>2 DEF Map!Next
  <2>4. CASE s = "ENOERR"
    <3>1. /\ \A q \in routes[c] : ~Overlap(q, r)
          /\ routes' = [routes EXCEPT ![c] = @ \cup {r}]
      BY <2>1, <2>4 DEF InsertRoute
    <3>2. \A q \in routes[c] : ~Map!Meet(q, r)
      BY <3>1 DEF Overlap, Map!Meet
    <3>3. Map!AddRange(c, r)
      BY <2>1, <2>2, <2>4, <3>1, <3>2 DEF Map!AddRange
    <3>4. r \in Map!Range
      BY <1>2 DEF Map!Range
    <3> QED
      BY <3>3, <3>4 DEF Map!Next
  <2> QED
    BY <2>3, <2>4
<1> QED
  BY <1>1, <1>2 DEF RegisterRange, RegisterRoute

LEMMA UnregisterRangeRefines ==
  ASSUME IInv, NEW c \in FuncCodes, NEW start \in Starts, NEW len \in Lengths,
         UnregisterRange(c, start, len)
  PROVE  Map!Next
<1> USE RouterAssumption DEF RouterAssumption
<1>0. TypeOK /\ InvalidUnbound /\ NothingUnreachable
  BY DEF IInv
<1>1. CASE UNCHANGED <<table, count, buckets, fallback, routes>> /\ res' = "ENORES"
  <2>1. Map!Refuse
    BY <1>1 DEF Map!Refuse, View
  <2> QED
    BY <2>1 DEF Map!Next
<1>2. CASE \E q \in routes[c], s \in {"ENOERR", "EINVAL"} :
             /\ c \in buckets
             /\ <<q.start, q.len>> = <<start, len>>
             /\ routes' = [routes EXCEPT ![c] = @ \ {q}]
             /\ CleanupIfEmpty(c, routes[c] \ {q}, fallback[c], s)
             /\ res' = s
             /\ UNCHANGED fallback
  <2>1. PICK q \in routes[c], s \in {"ENOERR", "EINVAL"} :
             /\ c \in buckets
             /\ <<q.start, q.len>> = <<start, len>>
             /\ routes' = [routes EXCEPT ![c] = @ \ {q}]
             /\ CleanupIfEmpty(c, routes[c] \ {q}, fallback[c], s)
             /\ res' = s
             /\ UNCHANGED fallback
    BY <1>2
  <2>2. fallback[c] \in Handlers \cup {None}
    BY <1>0 DEF TypeOK
  <2>3. /\ \/ UNCHANGED <<table, buckets>>
           \/ /\ fallback[c] = None
              /\ buckets' = buckets \ {c}
              /\ table' = [table EXCEPT ![c] = None]
        /\ s # "ENOERR" => c \notin ValidCodes
    BY <2>1, <2>2, CleanupEffect
  <2>4. View' = View
    BY <1>0, <2>1, <2>3 DEF View, TypeOK
  \* A code with a route is valid: the dispatcher was put in the table for it.
  <2>5. s = "ENOERR"
    BY <1>0, <2>1, <2>3 DEF NothingUnreachable, InvalidUnbound
  <2>6. q \in Map!Range
    BY <1>0 DEF TypeOK, Route, Map!Range
  <2>7. Map!RemoveRange(c, q)
    BY <2>1, <2>4, <2>5 DEF Map!RemoveRange
  <2> QED
    BY <2>6, <2>7 DEF Map!Next
<1> QED
  BY <1>1, <1>2 DEF UnregisterRange

\* The router with its handler table implements the map of RoutingMap: whatever
\* the sequence of operations and failures, what a caller registered is kept
\* through the installation and the removal of the dispatcher, and an operation
\* that answers an error has changed nothing a caller can see.
THEOREM Refinement == Spec => ImplementsMap
<1> USE RouterAssumption DEF RouterAssumption
<1>1. Init => Map!Init
  BY DEF Init, Map!Init, View
<1>2. IInv /\ [Next]_vars => [Map!Next]_(Map!vars)
  <2> SUFFICES ASSUME IInv, [Next]_vars
               PROVE  Map!Next \/ UNCHANGED Map!vars
    OBVIOUS
  <2>1. ASSUME NEW c \in FuncCodes, NEW h \in Handlers, SetDefault(c, h) PROVE Map!Next
    BY <2>1, SetDefaultRefines
  <2>2. ASSUME NEW c \in FuncCodes, ClearDefault(c) PROVE Map!Next
    BY <2>2, ClearDefaultRefines
  <2>3. ASSUME NEW c \in FuncCodes, NEW start \in Starts, NEW len \in Lengths,
               NEW h \in Handlers, RegisterRange(c, start, len, h)
        PROVE  Map!Next
    BY <2>3, RegisterRangeRefines
  <2>4. ASSUME NEW c \in FuncCodes, NEW start \in Starts, NEW len \in Lengths,
               UnregisterRange(c, start, len)
        PROVE  Map!Next
    BY <2>4, UnregisterRangeRefines
  <2>5. CASE Recreate
    <3>1. Map!Recreate
      BY <2>5 DEF Recreate, Map!Recreate, View
    <3> QED
      BY <3>1 DEF Map!Next
  <2>6. CASE UNCHANGED vars
    BY <2>6 DEF vars, Map!vars, View
  <2> QED
    BY <2>1, <2>2, <2>3, <2>4, <2>5, <2>6 DEF Next, Configure
<1> QED
  BY <1>1, <1>2, Invariance, PTL DEF Spec, ImplementsMap, Map!Spec
===============================================================================
