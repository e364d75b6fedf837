-------------------------- MODULE MbInstancesProofs --------------------------
(***************************************************************************)
(* What MbInstances promises, for every set of instances of each kind and  *)
(* every bound on the instances in use, the queue and the faults.          *)
(*                                                                         *)
(* A call is a program, and what is held half-way through it depends on    *)
(* how far it has come.  So the invariant looks ahead: it says that the    *)
(* rest of the program of each instance, run from what the instance has    *)
(* now, goes well to its end.  What an instance has is a set of facts: its *)
(* resources, its handlers in the loop, and marks such as "its driver      *)
(* counts for the loop" or "its task may run", of which some are kept in   *)
(* no variable.  After(i, s, F) is what step s makes of the facts F,       *)
(* Allowed(i, s, F) what it needs, Sound(i, F) what holds of the facts at  *)
(* any time, and Path(i, F, p, G) says that program p leads from F to G    *)
(* through sound facts by allowed steps.                                   *)
(*                                                                         *)
(* The first part is the calculus of paths; the second follows, function   *)
(* by function as the code nests them, the programs of the calls and the   *)
(* detours a step may put before the rest; the third is the invariant and  *)
(* its preservation, one step per action.                                  *)
(***************************************************************************)
EXTENDS MbInstances, SequenceTheorems, FiniteSetTheorems, TLAPS

-------------------------------------------------------------------------------
(* Facts.                                                                  *)

\* driver_task: the driver's task may run; counted: its driver counts for the
\* loop; looped: the loop exists for its handlers; opening: it is between its two
\* looks at the loop and the counter.
Marks == {"driver_task", "counted", "looped", "opening", "sema", "SHUTDOWN",
          "started", "enabled", "alive", "lost"}

Facts == Resources \cup Events \cup Marks

\* What an instance between two calls has.
ControllerOf(i) ==
  {"iface", "event_group", "task"} \cup (IF i \in Slaves THEN {"queue"} ELSE {"mbm_sema"})

DriverFacts == {"driver", "nodes", "event_fd", "flags", "driver_task", "counted", "looped"}

TransportOf(i) ==
  {"transport", "port", "timer", "event"}
  \cup (IF i \in Tcp THEN DriverFacts \cup Events ELSE {"uart", "bus_sema", "port_task"})
  \cup (IF i \in TcpSlaves THEN {"transactions"} ELSE {})
  \cup (IF i \in AsciiSlaves \cup AsciiMasters THEN {"buffer"} ELSE {})

ObjectOf(i) == {"object", "functions"} \cup TransportOf(i)

Whole(i) == ControllerOf(i) \cup ObjectOf(i)

\* What is used is there, and what stands in the loop is counted.
Sound(i, F) ==
  /\ "task" \in F => {"iface", "event_group"} \subseteq F
  /\ "timer" \in F => {"port", "transport"} \subseteq F
  /\ "port_task" \in F => {"port", "uart", "bus_sema"} \subseteq F
  /\ "driver_task" \in F => {"driver", "flags", "port", "counted"} \subseteq F
  /\ F \cap Events # {} => {"driver", "port", "looped"} \subseteq F
  /\ "looped" \in F => "counted" \in F
  /\ "started" \in F
       => {"task", "object", "functions", "transport", "timer", "event", "port"} \subseteq F
  /\ "enabled" \in F /\ i \in Tcp => Events \subseteq F
  /\ "sema" \in F => "CLOSE" \notin F /\ "TIMEOUT" \notin F
                     /\ (i \in TcpMasters => "ERROR" \notin F)

Working(i, F) == F \ {"started", "enabled"} = Whole(i) \cup {"alive"}

\* Between two calls: absent, alive or lost.
AtRest(i, F) ==
  \/ F = {}
  \/ Working(i, F)
  \/ /\ "lost" \in F
     /\ "driver" \in F <=> "counted" \in F
     /\ F \cap {"sema", "opening", "SHUTDOWN", "alive"} = {}

After(s, F) ==
  CASE s.op = "get"            -> F \cup {s.of}
    [] s.op = "put"            -> F \ {s.of}
    [] s.op = "register"       -> F \cup {s.of, "looped"}
    [] s.op = "unregister"     -> F \ {s.of}
    [] s.op = "loop_init"      -> F \cup {"opening"}
    [] s.op = "task_create"    -> (F \ {"opening"}) \cup {"driver_task", "counted"}
    [] s.op = "loop_uncount"   -> (F \ {"counted", "looped", "ERROR"}) \cup {"opening"}
    [] s.op = "loop_delete"    -> F \ {"opening"}
    [] s.op = "set_SHUTDOWN"   -> F \cup {"SHUTDOWN"}
    [] s.op = "await_shutdown" -> F \ {"SHUTDOWN", "driver_task"}
    [] s.op = "sema_create"    -> F \cup {"sema"}
    [] s.op = "sema_delete"    -> F \ {"sema"}
    [] s.op = "set_STARTED"    -> F \cup {"started"}
    [] s.op \in {"clear_STARTED", "clear_STARTED_late", "stop_active"} -> F \ {"started"}
    [] s.op \in {"enable", "enabled"} -> F \cup {"enabled"}
    [] s.op = "object_delete"  -> F \cap (Controller \cup {"alive"})
    [] s.op = "created"        -> F \cup {"alive"}
    [] s.op = "deleted"        -> F \ {"alive"}
    [] s.op = "abandoned"      -> IF F \cap Resources = {} THEN {}
                                  ELSE (F \ {"alive"}) \cup {"lost"}
    [] OTHER                   -> F

\* A step that may fail leaves something the error path can deal with.
Allowed(i, s, F) ==
  /\ s.op = "get" => s.of \in Resources
  /\ s.op = "get" /\ s.of \in Controller => F \subseteq Controller \ {"task"}
  /\ s.op = "get" /\ s.of = "functions" => F = Whole(i) \ {"functions"}
  /\ s.op = "put" => s.of \in Resources
  /\ s.op \in {"register", "unregister"} => s.of \in Events
  /\ s.op = "task_create" => F \cap {"counted", "sema"} = {} /\ "opening" \in F
  /\ s.op = "loop_uncount" => {"counted", "looped", "sema"} \subseteq F
  /\ s.op = "loop_delete" => "opening" \in F /\ F \cap {"counted", "looped"} = {}
  /\ s.op = "set_SHUTDOWN" => "sema" \notin F
  /\ s.op = "await_shutdown" => "SHUTDOWN" \in F
  /\ s.op \in {"enable", "await_CONNECTED", "clear_STARTED", "clear_STARTED_late",
               "stop_active"} => Working(i, F)
  /\ s.op = "object_delete"
       => "task" \notin F /\ F \ ({"enabled"} \cup Controller) = ObjectOf(i) \cup {"alive"}
  /\ s.op = "created" => F = Whole(i)
  /\ s.op = "deleted" => F = {"alive"}
  /\ s.op = "abandoned" => AtRest(i, After(s, F)) /\ (F \cap Resources = {} => F \subseteq {"alive"})

Ops == {"get", "put", "register", "unregister", "loop_init", "loop_uncount",
        "loop_delete", "task_create", "resume", "set_SUSPEND", "await_suspend", "set_SHUTDOWN", "await_shutdown",
        "sema_create", "sema_delete", "post_CLOSE", "await_DISCONNECTED",
        "clear_DISCONNECTED", "enable", "enabled", "disable", "disabled",
        "await_CONNECTED", "set_STARTED", "clear_STARTED", "clear_STARTED_late",
        "inactive", "stop_active", "object_delete", "created", "deleted", "abandoned"}

Things == Resources \cup Events

Nothing == ""

Steps == [op : Ops, of : Things \cup {Nothing}]

Step(op, of) == [op |-> op, of |-> of]

\* A step that is not an allocation or a release.
Note(op) == Step(op, Nothing)

\* Step s leads from F to G, and both are sound.
Link(i, F, s, G) ==
  Sound(i, F) /\ Allowed(i, s, F) /\ G = After(s, F) /\ G \in SUBSET Facts /\ Sound(i, G)

Path(i, F, p, G) ==
  /\ p \in Seq(Steps) /\ Sound(i, F)
  /\ \E f \in [0 .. Len(p) -> SUBSET Facts] :
       /\ f[0] = F /\ f[Len(p)] = G
       /\ \A n \in 1 .. Len(p) : Link(i, f[n - 1], p[n], f[n])

Leads(i, F, p) == \E G \in SUBSET Facts : Path(i, F, p, G) /\ AtRest(i, G)

-------------------------------------------------------------------------------
(* The calculus of paths.                                                  *)

LEMMA PathNone ==
  ASSUME NEW i, NEW F \in SUBSET Facts, Sound(i, F)
  PROVE  Path(i, F, <<>>, F)
PROOF
<1> DEFINE f == [n \in 0 .. 0 |-> F]
<1>1. Len(<<>>) = 0
  OBVIOUS
<1>2. f \in [0 .. Len(<<>>) -> SUBSET Facts] /\ f[0] = F
  BY <1>1
<1>3. \A n \in 1 .. Len(<<>>) : Link(i, f[n - 1], (<<>>)[n], f[n])
  BY <1>1
<1>4. <<>> \in Seq(Steps)
  OBVIOUS
<1> QED
  BY <1>1, <1>2, <1>3, <1>4 DEF Path

LEMMA PathOne ==
  ASSUME NEW i, NEW F \in SUBSET Facts, NEW G, NEW s \in Steps, Link(i, F, s, G)
  PROVE  Path(i, F, <<s>>, G)
PROOF
<1> DEFINE f == [n \in 0 .. 1 |-> IF n = 0 THEN F ELSE G]
<1>1. Len(<<s>>) = 1 /\ (<<s>>)[1] = s /\ <<s>> \in Seq(Steps)
  OBVIOUS
<1>2. G \in SUBSET Facts /\ Sound(i, F)
  BY DEF Link
<1>3. f \in [0 .. Len(<<s>>) -> SUBSET Facts] /\ f[0] = F /\ f[1] = G
  BY <1>1, <1>2
<1>4. \A n \in 1 .. Len(<<s>>) : Link(i, f[n - 1], (<<s>>)[n], f[n])
  BY <1>1, <1>3
<1> QED
  BY <1>1, <1>2, <1>3, <1>4 DEF Path

\* Paths of sequences follow one another.
LEMMA PathJoin ==
  ASSUME NEW i, NEW p, NEW q, NEW F, NEW G, NEW H, Path(i, F, p, G), Path(i, G, q, H)
  PROVE  Path(i, F, p \o q, H)
PROOF
<1>0. p \in Seq(Steps) /\ q \in Seq(Steps) /\ p \o q \in Seq(Steps)
  BY ConcatProperties DEF Path
<1>1. PICK f \in [0 .. Len(p) -> SUBSET Facts] :
         /\ f[0] = F /\ f[Len(p)] = G
         /\ \A n \in 1 .. Len(p) : Link(i, f[n - 1], p[n], f[n])
  BY DEF Path
<1>2. PICK g \in [0 .. Len(q) -> SUBSET Facts] :
         /\ g[0] = G /\ g[Len(q)] = H
         /\ \A n \in 1 .. Len(q) : Link(i, g[n - 1], q[n], g[n])
  BY DEF Path
<1>3. /\ Len(p) \in Nat /\ Len(q) \in Nat /\ Len(p \o q) = Len(p) + Len(q)
      /\ \A n \in 1 .. Len(p) + Len(q) :
           (p \o q)[n] = IF n <= Len(p) THEN p[n] ELSE q[n - Len(p)]
  BY <1>0, LenProperties, ConcatProperties
<1> DEFINE h == [n \in 0 .. Len(p) + Len(q) |-> IF n <= Len(p) THEN f[n] ELSE g[n - Len(p)]]
<1>4. h \in [0 .. Len(p \o q) -> SUBSET Facts]
  BY <1>3
<1>5. h[0] = F /\ h[Len(p \o q)] = H
  BY <1>1, <1>2, <1>3
<1>6. ASSUME NEW n \in 1 .. Len(p \o q)
      PROVE  Link(i, h[n - 1], (p \o q)[n], h[n])
  <2>1. CASE n <= Len(p)
    <3>1. n \in 1 .. Len(p) /\ h[n - 1] = f[n - 1] /\ h[n] = f[n] /\ (p \o q)[n] = p[n]
      BY <1>3, <1>6, <2>1
    <3> QED
      BY <1>1, <3>1
  <2>2. CASE n > Len(p)
    <3>1. n - Len(p) \in 1 .. Len(q) /\ h[n] = g[n - Len(p)] /\ (p \o q)[n] = q[n - Len(p)]
      BY <1>3, <1>6, <2>2
    <3>2. h[n - 1] = g[(n - Len(p)) - 1]
      <4>1. CASE n = Len(p) + 1
        <5>1. h[n - 1] = f[Len(p)] /\ (n - Len(p)) - 1 = 0
          BY <1>3, <4>1
        <5> QED
          BY <1>1, <1>2, <5>1
      <4>2. CASE n > Len(p) + 1
        <5>1. n - 1 \in 0 .. Len(p) + Len(q) /\ ~(n - 1 <= Len(p))
          BY <1>3, <1>6, <4>2
        <5>2. (n - 1) - Len(p) = (n - Len(p)) - 1
          BY <1>3
        <5> QED
          BY <5>1, <5>2
      <4>3. n = Len(p) + 1 \/ n > Len(p) + 1
        <5>1. n \in Int /\ Len(p) \in Int
          BY <1>3
        <5> QED
          BY <2>2, <5>1
      <4> QED
        BY <4>1, <4>2, <4>3
    <3> QED
      BY <1>2, <3>1, <3>2
  <2> QED
    BY <1>3, <1>6, <2>1, <2>2
<1> QED
  BY <1>0, <1>4, <1>5, <1>6 DEF Path

\* The end of a path is sound, and an empty one ends where it begins.
LEMMA PathEnds ==
  ASSUME NEW i, NEW p, NEW F, NEW G, Path(i, F, p, G)
  PROVE  /\ p \in Seq(Steps)
         /\ F \in SUBSET Facts /\ G \in SUBSET Facts
         /\ Sound(i, F) /\ Sound(i, G)
         /\ p = <<>> => F = G
PROOF
<1>0. p \in Seq(Steps)
  BY DEF Path
<1>1. PICK f \in [0 .. Len(p) -> SUBSET Facts] :
         /\ f[0] = F /\ f[Len(p)] = G
         /\ \A n \in 1 .. Len(p) : Link(i, f[n - 1], p[n], f[n])
  BY DEF Path
<1>2. Len(p) \in Nat /\ (p = <<>> => Len(p) = 0) /\ (p # <<>> => Len(p) \in 1 .. Len(p))
  BY <1>0, LenProperties, EmptySeq
<1>3. CASE p = <<>>
  BY <1>0, <1>1, <1>2, <1>3 DEF Path
<1>4. CASE p # <<>>
  <2>1. Link(i, f[Len(p) - 1], p[Len(p)], f[Len(p)])
    BY <1>1, <1>2, <1>4
  <2> QED
    BY <1>0, <1>1, <1>2, <1>4, <2>1 DEF Path, Link
<1> QED
  BY <1>3, <1>4

\* The first step of a path, and what is left of it.
LEMMA PathStep ==
  ASSUME NEW i, NEW p, NEW F, NEW H, Path(i, F, p, H), p # <<>>
  PROVE  /\ Link(i, F, Head(p), After(Head(p), F))
         /\ Path(i, After(Head(p), F), Tail(p), H)
PROOF
<1>0. p \in Seq(Steps) /\ Tail(p) \in Seq(Steps)
  BY HeadTailProperties DEF Path
<1>1. PICK f \in [0 .. Len(p) -> SUBSET Facts] :
         /\ f[0] = F /\ f[Len(p)] = H
         /\ \A n \in 1 .. Len(p) : Link(i, f[n - 1], p[n], f[n])
  BY DEF Path
<1>2. /\ Len(p) \in Nat \ {0} /\ Head(p) = p[1] /\ Len(Tail(p)) = Len(p) - 1
      /\ \A n \in 1 .. Len(Tail(p)) : Tail(p)[n] = p[n + 1]
  BY <1>0, EmptySeq, HeadTailProperties
<1>3. Link(i, f[1 - 1], p[1], f[1])
  BY <1>1, <1>2
<1>4. Link(i, F, Head(p), f[1]) /\ f[1] = After(Head(p), F)
  BY <1>1, <1>2, <1>3 DEF Link
<1> DEFINE g == [n \in 0 .. Len(Tail(p)) |-> f[n + 1]]
<1>5. g \in [0 .. Len(Tail(p)) -> SUBSET Facts] /\ g[0] = f[1] /\ g[Len(Tail(p))] = H
  BY <1>1, <1>2
<1>6. ASSUME NEW n \in 1 .. Len(Tail(p))
      PROVE  Link(i, g[n - 1], Tail(p)[n], g[n])
  <2>1. n + 1 \in 1 .. Len(p) /\ (n + 1) - 1 = n
    BY <1>2
  <2>2. Link(i, f[(n + 1) - 1], p[n + 1], f[n + 1])
    BY <1>1, <2>1
  <2>3. g[n - 1] = f[n] /\ g[n] = f[n + 1] /\ Tail(p)[n] = p[n + 1]
    BY <1>2, <1>6
  <2> QED
    BY <2>1, <2>2, <2>3
<1>7. Sound(i, f[1])
  BY <1>4 DEF Link
<1> QED
  BY <1>0, <1>4, <1>5, <1>6, <1>7 DEF Path

-------------------------------------------------------------------------------
(* Short programs, step by step.                                           *)

LEMMA SeqOfFunction ==
  ASSUME NEW S, NEW n \in Nat, NEW s \in [1 .. n -> S]
  PROVE  s \in Seq(S) /\ Len(s) = n
PROOF
  OBVIOUS

LEMMA EachIs ==
  ASSUME NEW op \in Ops, NEW rs \in Seq(Things)
  PROVE  /\ Each(op, rs) \in Seq(Steps) /\ Len(Each(op, rs)) = Len(rs)
         /\ \A n \in 1 .. Len(rs) : Each(op, rs)[n] = Step(op, rs[n])
PROOF
<1>1. Len(rs) \in Nat /\ DOMAIN rs = 1 .. Len(rs) /\ \A n \in 1 .. Len(rs) : rs[n] \in Things
  BY LenProperties, ElementOfSeq
<1>2. Each(op, rs) = [n \in 1 .. Len(rs) |-> Step(op, rs[n])]
  BY <1>1 DEF Each, Step
<1>3. \A n \in 1 .. Len(rs) : Step(op, rs[n]) \in Steps
  BY <1>1 DEF Step, Steps
<1>4. Each(op, rs) \in [1 .. Len(rs) -> Steps] /\ \A n \in 1 .. Len(rs) : Each(op, rs)[n] = Step(op, rs[n])
  BY <1>2, <1>3
<1> QED
  BY <1>1, <1>4, SeqOfFunction

LEMMA StepIs ==
  /\ \A op, of : Step(op, of).op = op /\ Step(op, of).of = of
  /\ \A op : Note(op).op = op
  /\ \A op \in Ops : \A of \in Things : Step(op, of) \in Steps
  /\ \A op \in Ops : Note(op) \in Steps
PROOF
  BY DEF Note, Step, Steps

LEMMA DoIs ==
  ASSUME NEW ops \in Seq(Ops)
  PROVE  /\ Do(ops) \in Seq(Steps) /\ Len(Do(ops)) = Len(ops)
         /\ \A n \in 1 .. Len(ops) : Do(ops)[n] = Note(ops[n])
PROOF
<1>1. Len(ops) \in Nat /\ DOMAIN ops = 1 .. Len(ops) /\ \A n \in 1 .. Len(ops) : ops[n] \in Ops
  BY LenProperties, ElementOfSeq
<1>2. Do(ops) = [n \in DOMAIN ops |-> Note(ops[n])]
  BY Zenon DEF Do, Note, Step, Nothing
<1>3. \A n \in 1 .. Len(ops) : Note(ops[n]) \in Steps
  BY <1>1, StepIs
<1>4. Do(ops) \in [1 .. Len(ops) -> Steps] /\ \A n \in 1 .. Len(ops) : Do(ops)[n] = Note(ops[n])
  BY <1>1, <1>2, <1>3
<1> QED
  BY <1>1, <1>4, SeqOfFunction

\* A program of up to five steps, given by the facts between them.
LEMMA PathOfOne ==
  ASSUME NEW i, NEW p \in Seq(Steps), NEW F, NEW A,
         Len(p) = 1, Link(i, F, p[1], A), F \in SUBSET Facts
  PROVE  Path(i, F, p, A)
PROOF
<1>1. p = <<p[1]>> /\ p[1] \in Steps
  OBVIOUS
<1> QED
  BY <1>1, PathOne

LEMMA PathOfTwo ==
  ASSUME NEW i, NEW p \in Seq(Steps), NEW F \in SUBSET Facts, NEW A, NEW B,
         Len(p) = 2, Link(i, F, p[1], A), Link(i, A, p[2], B)
  PROVE  Path(i, F, p, B)
PROOF
<1> DEFINE f == [n \in 0 .. 2 |-> CASE n = 0 -> F [] n = 1 -> A [] OTHER -> B]
<1>1. f[0] = F /\ f[1] = A /\ f[2] = B
  OBVIOUS
<1>2. f \in [0 .. Len(p) -> SUBSET Facts] /\ Sound(i, F)
  BY DEF Link
<1>3. \A n \in 1 .. Len(p) : Link(i, f[n - 1], p[n], f[n])
  <2> SUFFICES ASSUME NEW n \in 1 .. 2 PROVE Link(i, f[n - 1], p[n], f[n])
    OBVIOUS
  <2> HIDE DEF f
  <2>1. CASE n = 1
    BY <1>1, <2>1
  <2>2. CASE n = 2
    BY <1>1, <2>2
  <2> QED
    BY <2>1, <2>2
<1> QED
  BY <1>1, <1>2, <1>3 DEF Path

LEMMA PathOfThree ==
  ASSUME NEW i, NEW p \in Seq(Steps), NEW F \in SUBSET Facts, NEW A, NEW B, NEW C,
         Len(p) = 3, Link(i, F, p[1], A), Link(i, A, p[2], B), Link(i, B, p[3], C)
  PROVE  Path(i, F, p, C)
PROOF
<1> DEFINE f == [n \in 0 .. 3 |-> CASE n = 0 -> F [] n = 1 -> A [] n = 2 -> B [] OTHER -> C]
<1>1. f[0] = F /\ f[1] = A /\ f[2] = B /\ f[3] = C
  OBVIOUS
<1>2. f \in [0 .. Len(p) -> SUBSET Facts] /\ Sound(i, F)
  BY DEF Link
<1>3. \A n \in 1 .. Len(p) : Link(i, f[n - 1], p[n], f[n])
  <2> SUFFICES ASSUME NEW n \in 1 .. 3 PROVE Link(i, f[n - 1], p[n], f[n])
    OBVIOUS
  <2> HIDE DEF f
  <2>1. CASE n = 1
    BY <1>1, <2>1
  <2>2. CASE n = 2
    BY <1>1, <2>2
  <2>3. CASE n = 3
    BY <1>1, <2>3
  <2> QED
    BY <2>1, <2>2, <2>3
<1> QED
  BY <1>1, <1>2, <1>3 DEF Path

LEMMA PathOfFour ==
  ASSUME NEW i, NEW p \in Seq(Steps), NEW F \in SUBSET Facts, NEW A, NEW B, NEW C, NEW D,
         Len(p) = 4, Link(i, F, p[1], A), Link(i, A, p[2], B), Link(i, B, p[3], C),
         Link(i, C, p[4], D)
  PROVE  Path(i, F, p, D)
PROOF
<1> DEFINE f == [n \in 0 .. 4 |-> CASE n = 0 -> F [] n = 1 -> A [] n = 2 -> B
                                    [] n = 3 -> C [] OTHER -> D]
<1>1. f[0] = F /\ f[1] = A /\ f[2] = B /\ f[3] = C /\ f[4] = D
  OBVIOUS
<1>2. f \in [0 .. Len(p) -> SUBSET Facts] /\ Sound(i, F)
  BY DEF Link
<1>3. \A n \in 1 .. Len(p) : Link(i, f[n - 1], p[n], f[n])
  <2> SUFFICES ASSUME NEW n \in 1 .. 4 PROVE Link(i, f[n - 1], p[n], f[n])
    OBVIOUS
  <2> HIDE DEF f
  <2>1. CASE n = 1
    BY <1>1, <2>1
  <2>2. CASE n = 2
    BY <1>1, <2>2
  <2>3. CASE n = 3
    BY <1>1, <2>3
  <2>4. CASE n = 4
    BY <1>1, <2>4
  <2> QED
    BY <2>1, <2>2, <2>3, <2>4
<1> QED
  BY <1>1, <1>2, <1>3 DEF Path

LEMMA PathOfFive ==
  ASSUME NEW i, NEW p \in Seq(Steps), NEW F \in SUBSET Facts,
         NEW A, NEW B, NEW C, NEW D, NEW E,
         Len(p) = 5, Link(i, F, p[1], A), Link(i, A, p[2], B), Link(i, B, p[3], C),
         Link(i, C, p[4], D), Link(i, D, p[5], E)
  PROVE  Path(i, F, p, E)
PROOF
<1> DEFINE f == [n \in 0 .. 5 |-> CASE n = 0 -> F [] n = 1 -> A [] n = 2 -> B
                                    [] n = 3 -> C [] n = 4 -> D [] OTHER -> E]
<1>1. f[0] = F /\ f[1] = A /\ f[2] = B /\ f[3] = C /\ f[4] = D /\ f[5] = E
  OBVIOUS
<1>2. f \in [0 .. Len(p) -> SUBSET Facts] /\ Sound(i, F)
  BY DEF Link
<1>3. \A n \in 1 .. Len(p) : Link(i, f[n - 1], p[n], f[n])
  <2> SUFFICES ASSUME NEW n \in 1 .. 5 PROVE Link(i, f[n - 1], p[n], f[n])
    OBVIOUS
  <2> HIDE DEF f
  <2>1. CASE n = 1
    BY <1>1, <2>1
  <2>2. CASE n = 2
    BY <1>1, <2>2
  <2>3. CASE n = 3
    BY <1>1, <2>3
  <2>4. CASE n = 4
    BY <1>1, <2>4
  <2>5. CASE n = 5
    BY <1>1, <2>5
  <2> QED
    BY <2>1, <2>2, <2>3, <2>4, <2>5
<1> QED
  BY <1>1, <1>2, <1>3 DEF Path

\* The steps most programs are made of: a resource comes or goes.
LEMMA LinkGet ==
  ASSUME NEW i, NEW F \in SUBSET Facts, NEW r \in Resources \ (Controller \cup {"functions"}),
         Sound(i, F), Sound(i, F \cup {r})
  PROVE  Link(i, F, Step("get", r), F \cup {r})
PROOF
  BY DEF Link, Step, Allowed, After, Facts

LEMMA LinkPut ==
  ASSUME NEW i, NEW F \in SUBSET Facts, NEW r \in Resources,
         Sound(i, F), Sound(i, F \ {r})
  PROVE  Link(i, F, Step("put", r), F \ {r})
PROOF
  BY DEF Link, Step, Allowed, After, Facts

\* What uses nothing may come at any time, ...
LEMMA SoundMore ==
  ASSUME NEW i, NEW F, Sound(i, F), NEW r \in Resources \ {"task", "timer", "port_task"}
  PROVE  Sound(i, F \cup {r})
PROOF
  BY DEF Sound, Resources, Events, Controller

LEMMA GetsTwo ==
  ASSUME NEW i, NEW F \in SUBSET Facts,
         NEW a, NEW b,
         {a, b} \subseteq Resources \ (Controller \cup {"functions"}),
         Sound(i, F), Sound(i, F \cup {a}), Sound(i, F \cup {a, b})
  PROVE  Path(i, F, Gets(<<a, b>>), F \cup {a, b})
PROOF
<1> DEFINE rs == <<a, b>>
<1>1. /\ rs \in Seq(Things) /\ Len(rs) = 2
      /\ rs[1] = a /\ rs[2] = b
  BY DEF Things
<1>2. /\ Gets(rs) \in Seq(Steps) /\ Len(Gets(rs)) = 2
      /\ Gets(rs)[1] = Step("get", a)
      /\ Gets(rs)[2] = Step("get", b)
  <2>1. "get" \in Ops
    BY DEF Ops
  <2> HIDE DEF rs
  <2> QED
    BY <1>1, <2>1, EachIs DEF Gets
<1>3. Link(i, F, Step("get", a), F \cup {a})
  BY LinkGet
<1>4. Link(i, F \cup {a}, Step("get", b), F \cup {a, b})
  <2>1. (F \cup {a}) \cup {b} = F \cup {a, b}
    OBVIOUS
  <2>2. F \cup {a} \in SUBSET Facts
    BY DEF Facts
  <2> QED
    BY <2>1, <2>2, LinkGet
<1> HIDE DEF rs
<1> QED
  BY <1>2, <1>3, <1>4, PathOfTwo DEF rs

LEMMA PutsTwo ==
  ASSUME NEW i, NEW F \in SUBSET Facts,
         NEW a, NEW b,
         {a, b} \subseteq Resources,
         Sound(i, F), Sound(i, F \ {a}), Sound(i, F \ {a, b})
  PROVE  Path(i, F, Puts(<<a, b>>), F \ {a, b})
PROOF
<1> DEFINE rs == <<a, b>>
<1>1. /\ rs \in Seq(Things) /\ Len(rs) = 2
      /\ rs[1] = a /\ rs[2] = b
  BY DEF Things
<1>2. /\ Puts(rs) \in Seq(Steps) /\ Len(Puts(rs)) = 2
      /\ Puts(rs)[1] = Step("put", a)
      /\ Puts(rs)[2] = Step("put", b)
  <2>1. "put" \in Ops
    BY DEF Ops
  <2> HIDE DEF rs
  <2> QED
    BY <1>1, <2>1, EachIs DEF Puts
<1>3. Link(i, F, Step("put", a), F \ {a})
  BY LinkPut
<1>4. Link(i, F \ {a}, Step("put", b), F \ {a, b})
  <2>1. (F \ {a}) \ {b} = F \ {a, b}
    OBVIOUS
  <2>2. F \ {a} \in SUBSET Facts
    BY DEF Facts
  <2> QED
    BY <2>1, <2>2, LinkPut
<1> HIDE DEF rs
<1> QED
  BY <1>2, <1>3, <1>4, PathOfTwo DEF rs

LEMMA GetsThree ==
  ASSUME NEW i, NEW F \in SUBSET Facts,
         NEW a, NEW b, NEW c,
         {a, b, c} \subseteq Resources \ (Controller \cup {"functions"}),
         Sound(i, F), Sound(i, F \cup {a}), Sound(i, F \cup {a, b}), Sound(i, F \cup {a, b, c})
  PROVE  Path(i, F, Gets(<<a, b, c>>), F \cup {a, b, c})
PROOF
<1> DEFINE rs == <<a, b, c>>
<1>1. /\ rs \in Seq(Things) /\ Len(rs) = 3
      /\ rs[1] = a /\ rs[2] = b /\ rs[3] = c
  BY DEF Things
<1>2. /\ Gets(rs) \in Seq(Steps) /\ Len(Gets(rs)) = 3
      /\ Gets(rs)[1] = Step("get", a)
      /\ Gets(rs)[2] = Step("get", b)
      /\ Gets(rs)[3] = Step("get", c)
  <2>1. "get" \in Ops
    BY DEF Ops
  <2> HIDE DEF rs
  <2> QED
    BY <1>1, <2>1, EachIs DEF Gets
<1>3. Link(i, F, Step("get", a), F \cup {a})
  BY LinkGet
<1>4. Link(i, F \cup {a}, Step("get", b), F \cup {a, b})
  <2>1. (F \cup {a}) \cup {b} = F \cup {a, b}
    OBVIOUS
  <2>2. F \cup {a} \in SUBSET Facts
    BY DEF Facts
  <2> QED
    BY <2>1, <2>2, LinkGet
<1>5. Link(i, F \cup {a, b}, Step("get", c), F \cup {a, b, c})
  <2>1. (F \cup {a, b}) \cup {c} = F \cup {a, b, c}
    OBVIOUS
  <2>2. F \cup {a, b} \in SUBSET Facts
    BY DEF Facts
  <2> QED
    BY <2>1, <2>2, LinkGet
<1> DEFINE A == F \cup {a}
           B == F \cup {a, b}
           C == F \cup {a, b, c}
<1>6. Path(i, F, Gets(rs), C)
  <2> HIDE DEF rs, A, B, C
  <2>1. Link(i, F, Gets(rs)[1], A)
    BY <1>2, <1>3 DEF A
  <2>2. Link(i, A, Gets(rs)[2], B)
    BY <1>2, <1>4 DEF A, B
  <2>3. Link(i, B, Gets(rs)[3], C)
    BY <1>2, <1>5 DEF B, C
  <2> QED
    BY <1>2, <2>1, <2>2, <2>3, PathOfThree
<1> QED
  BY <1>6

LEMMA PutsThree ==
  ASSUME NEW i, NEW F \in SUBSET Facts,
         NEW a, NEW b, NEW c,
         {a, b, c} \subseteq Resources,
         Sound(i, F), Sound(i, F \ {a}), Sound(i, F \ {a, b}), Sound(i, F \ {a, b, c})
  PROVE  Path(i, F, Puts(<<a, b, c>>), F \ {a, b, c})
PROOF
<1> DEFINE rs == <<a, b, c>>
<1>1. /\ rs \in Seq(Things) /\ Len(rs) = 3
      /\ rs[1] = a /\ rs[2] = b /\ rs[3] = c
  BY DEF Things
<1>2. /\ Puts(rs) \in Seq(Steps) /\ Len(Puts(rs)) = 3
      /\ Puts(rs)[1] = Step("put", a)
      /\ Puts(rs)[2] = Step("put", b)
      /\ Puts(rs)[3] = Step("put", c)
  <2>1. "put" \in Ops
    BY DEF Ops
  <2> HIDE DEF rs
  <2> QED
    BY <1>1, <2>1, EachIs DEF Puts
<1>3. Link(i, F, Step("put", a), F \ {a})
  BY LinkPut
<1>4. Link(i, F \ {a}, Step("put", b), F \ {a, b})
  <2>1. (F \ {a}) \ {b} = F \ {a, b}
    OBVIOUS
  <2>2. F \ {a} \in SUBSET Facts
    BY DEF Facts
  <2> QED
    BY <2>1, <2>2, LinkPut
<1>5. Link(i, F \ {a, b}, Step("put", c), F \ {a, b, c})
  <2>1. (F \ {a, b}) \ {c} = F \ {a, b, c}
    OBVIOUS
  <2>2. F \ {a, b} \in SUBSET Facts
    BY DEF Facts
  <2> QED
    BY <2>1, <2>2, LinkPut
<1> DEFINE A == F \ {a}
           B == F \ {a, b}
           C == F \ {a, b, c}
<1>6. Path(i, F, Puts(rs), C)
  <2> HIDE DEF rs, A, B, C
  <2>1. Link(i, F, Puts(rs)[1], A)
    BY <1>2, <1>3 DEF A
  <2>2. Link(i, A, Puts(rs)[2], B)
    BY <1>2, <1>4 DEF A, B
  <2>3. Link(i, B, Puts(rs)[3], C)
    BY <1>2, <1>5 DEF B, C
  <2> QED
    BY <1>2, <2>1, <2>2, <2>3, PathOfThree
<1> QED
  BY <1>6

LEMMA GetsFour ==
  ASSUME NEW i, NEW F \in SUBSET Facts,
         NEW a, NEW b, NEW c, NEW d,
         {a, b, c, d} \subseteq Resources \ (Controller \cup {"functions"}),
         Sound(i, F), Sound(i, F \cup {a}), Sound(i, F \cup {a, b}), Sound(i, F \cup {a, b, c}), Sound(i, F \cup {a, b, c, d})
  PROVE  Path(i, F, Gets(<<a, b, c, d>>), F \cup {a, b, c, d})
PROOF
<1> DEFINE rs == <<a, b, c, d>>
<1>1. /\ rs \in Seq(Things) /\ Len(rs) = 4
      /\ rs[1] = a /\ rs[2] = b /\ rs[3] = c /\ rs[4] = d
  BY DEF Things
<1>2. /\ Gets(rs) \in Seq(Steps) /\ Len(Gets(rs)) = 4
      /\ Gets(rs)[1] = Step("get", a)
      /\ Gets(rs)[2] = Step("get", b)
      /\ Gets(rs)[3] = Step("get", c)
      /\ Gets(rs)[4] = Step("get", d)
  <2>1. "get" \in Ops
    BY DEF Ops
  <2> HIDE DEF rs
  <2> QED
    BY <1>1, <2>1, EachIs DEF Gets
<1>3. Link(i, F, Step("get", a), F \cup {a})
  BY LinkGet
<1>4. Link(i, F \cup {a}, Step("get", b), F \cup {a, b})
  <2>1. (F \cup {a}) \cup {b} = F \cup {a, b}
    OBVIOUS
  <2>2. F \cup {a} \in SUBSET Facts
    BY DEF Facts
  <2> QED
    BY <2>1, <2>2, LinkGet
<1>5. Link(i, F \cup {a, b}, Step("get", c), F \cup {a, b, c})
  <2>1. (F \cup {a, b}) \cup {c} = F \cup {a, b, c}
    OBVIOUS
  <2>2. F \cup {a, b} \in SUBSET Facts
    BY DEF Facts
  <2> QED
    BY <2>1, <2>2, LinkGet
<1>6. Link(i, F \cup {a, b, c}, Step("get", d), F \cup {a, b, c, d})
  <2>1. (F \cup {a, b, c}) \cup {d} = F \cup {a, b, c, d}
    OBVIOUS
  <2>2. F \cup {a, b, c} \in SUBSET Facts
    BY DEF Facts
  <2> QED
    BY <2>1, <2>2, LinkGet
<1> DEFINE A == F \cup {a}
           B == F \cup {a, b}
           C == F \cup {a, b, c}
           D == F \cup {a, b, c, d}
<1>7. Path(i, F, Gets(rs), D)
  <2> HIDE DEF rs, A, B, C, D
  <2>1. Link(i, F, Gets(rs)[1], A)
    BY <1>2, <1>3 DEF A
  <2>2. Link(i, A, Gets(rs)[2], B)
    BY <1>2, <1>4 DEF A, B
  <2>3. Link(i, B, Gets(rs)[3], C)
    BY <1>2, <1>5 DEF B, C
  <2>4. Link(i, C, Gets(rs)[4], D)
    BY <1>2, <1>6 DEF C, D
  <2> QED
    BY <1>2, <2>1, <2>2, <2>3, <2>4, PathOfFour
<1> QED
  BY <1>7

LEMMA PutsFour ==
  ASSUME NEW i, NEW F \in SUBSET Facts,
         NEW a, NEW b, NEW c, NEW d,
         {a, b, c, d} \subseteq Resources,
         Sound(i, F), Sound(i, F \ {a}), Sound(i, F \ {a, b}), Sound(i, F \ {a, b, c}), Sound(i, F \ {a, b, c, d})
  PROVE  Path(i, F, Puts(<<a, b, c, d>>), F \ {a, b, c, d})
PROOF
<1> DEFINE rs == <<a, b, c, d>>
<1>1. /\ rs \in Seq(Things) /\ Len(rs) = 4
      /\ rs[1] = a /\ rs[2] = b /\ rs[3] = c /\ rs[4] = d
  BY DEF Things
<1>2. /\ Puts(rs) \in Seq(Steps) /\ Len(Puts(rs)) = 4
      /\ Puts(rs)[1] = Step("put", a)
      /\ Puts(rs)[2] = Step("put", b)
      /\ Puts(rs)[3] = Step("put", c)
      /\ Puts(rs)[4] = Step("put", d)
  <2>1. "put" \in Ops
    BY DEF Ops
  <2> HIDE DEF rs
  <2> QED
    BY <1>1, <2>1, EachIs DEF Puts
<1>3. Link(i, F, Step("put", a), F \ {a})
  BY LinkPut
<1>4. Link(i, F \ {a}, Step("put", b), F \ {a, b})
  <2>1. (F \ {a}) \ {b} = F \ {a, b}
    OBVIOUS
  <2>2. F \ {a} \in SUBSET Facts
    BY DEF Facts
  <2> QED
    BY <2>1, <2>2, LinkPut
<1>5. Link(i, F \ {a, b}, Step("put", c), F \ {a, b, c})
  <2>1. (F \ {a, b}) \ {c} = F \ {a, b, c}
    OBVIOUS
  <2>2. F \ {a, b} \in SUBSET Facts
    BY DEF Facts
  <2> QED
    BY <2>1, <2>2, LinkPut
<1>6. Link(i, F \ {a, b, c}, Step("put", d), F \ {a, b, c, d})
  <2>1. (F \ {a, b, c}) \ {d} = F \ {a, b, c, d}
    OBVIOUS
  <2>2. F \ {a, b, c} \in SUBSET Facts
    BY DEF Facts
  <2> QED
    BY <2>1, <2>2, LinkPut
<1> DEFINE A == F \ {a}
           B == F \ {a, b}
           C == F \ {a, b, c}
           D == F \ {a, b, c, d}
<1>7. Path(i, F, Puts(rs), D)
  <2> HIDE DEF rs, A, B, C, D
  <2>1. Link(i, F, Puts(rs)[1], A)
    BY <1>2, <1>3 DEF A
  <2>2. Link(i, A, Puts(rs)[2], B)
    BY <1>2, <1>4 DEF A, B
  <2>3. Link(i, B, Puts(rs)[3], C)
    BY <1>2, <1>5 DEF B, C
  <2>4. Link(i, C, Puts(rs)[4], D)
    BY <1>2, <1>6 DEF C, D
  <2> QED
    BY <1>2, <2>1, <2>2, <2>3, <2>4, PathOfFour
<1> QED
  BY <1>7

LEMMA DoOne ==
  ASSUME NEW i, NEW F \in SUBSET Facts,
         NEW a \in Ops,
         NEW A,
         Link(i, F, Note(a), A)
  PROVE  Path(i, F, Do(<<a>>), A)
PROOF
<1> DEFINE ops == <<a>>
<1>1. /\ ops \in Seq(Ops) /\ Len(ops) = 1
      /\ ops[1] = a
  OBVIOUS
<1>2. /\ Do(ops) \in Seq(Steps) /\ Len(Do(ops)) = 1
      /\ Do(ops)[1] = Note(a)
  <2> HIDE DEF ops
  <2> QED
    BY <1>1, DoIs
<1> HIDE DEF ops
<1> QED
  BY <1>2, PathOfOne DEF ops

LEMMA DoTwo ==
  ASSUME NEW i, NEW F \in SUBSET Facts,
         NEW a \in Ops, NEW b \in Ops,
         NEW A, NEW B,
         Link(i, F, Note(a), A), Link(i, A, Note(b), B)
  PROVE  Path(i, F, Do(<<a, b>>), B)
PROOF
<1> DEFINE ops == <<a, b>>
<1>1. /\ ops \in Seq(Ops) /\ Len(ops) = 2
      /\ ops[1] = a /\ ops[2] = b
  OBVIOUS
<1>2. /\ Do(ops) \in Seq(Steps) /\ Len(Do(ops)) = 2
      /\ Do(ops)[1] = Note(a)
      /\ Do(ops)[2] = Note(b)
  <2> HIDE DEF ops
  <2> QED
    BY <1>1, DoIs
<1> HIDE DEF ops
<1> QED
  BY <1>2, PathOfTwo DEF ops

LEMMA DoThree ==
  ASSUME NEW i, NEW F \in SUBSET Facts,
         NEW a \in Ops, NEW b \in Ops, NEW c \in Ops,
         NEW A, NEW B, NEW C,
         Link(i, F, Note(a), A), Link(i, A, Note(b), B), Link(i, B, Note(c), C)
  PROVE  Path(i, F, Do(<<a, b, c>>), C)
PROOF
<1> DEFINE ops == <<a, b, c>>
<1>1. /\ ops \in Seq(Ops) /\ Len(ops) = 3
      /\ ops[1] = a /\ ops[2] = b /\ ops[3] = c
  OBVIOUS
<1>2. /\ Do(ops) \in Seq(Steps) /\ Len(Do(ops)) = 3
      /\ Do(ops)[1] = Note(a)
      /\ Do(ops)[2] = Note(b)
      /\ Do(ops)[3] = Note(c)
  <2> HIDE DEF ops
  <2> QED
    BY <1>1, DoIs
<1> HIDE DEF ops
<1> QED
  BY <1>2, PathOfThree DEF ops

LEMMA DoFour ==
  ASSUME NEW i, NEW F \in SUBSET Facts,
         NEW a \in Ops, NEW b \in Ops, NEW c \in Ops, NEW d \in Ops,
         NEW A, NEW B, NEW C, NEW D,
         Link(i, F, Note(a), A), Link(i, A, Note(b), B), Link(i, B, Note(c), C), Link(i, C, Note(d), D)
  PROVE  Path(i, F, Do(<<a, b, c, d>>), D)
PROOF
<1> DEFINE ops == <<a, b, c, d>>
<1>1. /\ ops \in Seq(Ops) /\ Len(ops) = 4
      /\ ops[1] = a /\ ops[2] = b /\ ops[3] = c /\ ops[4] = d
  OBVIOUS
<1>2. /\ Do(ops) \in Seq(Steps) /\ Len(Do(ops)) = 4
      /\ Do(ops)[1] = Note(a)
      /\ Do(ops)[2] = Note(b)
      /\ Do(ops)[3] = Note(c)
      /\ Do(ops)[4] = Note(d)
  <2> HIDE DEF ops
  <2> QED
    BY <1>1, DoIs
<1> HIDE DEF ops
<1> QED
  BY <1>2, PathOfFour DEF ops

LEMMA DoFive ==
  ASSUME NEW i, NEW F \in SUBSET Facts,
         NEW a \in Ops, NEW b \in Ops, NEW c \in Ops, NEW d \in Ops, NEW e \in Ops,
         NEW A, NEW B, NEW C, NEW D, NEW E,
         Link(i, F, Note(a), A), Link(i, A, Note(b), B), Link(i, B, Note(c), C), Link(i, C, Note(d), D), Link(i, D, Note(e), E)
  PROVE  Path(i, F, Do(<<a, b, c, d, e>>), E)
PROOF
<1> DEFINE ops == <<a, b, c, d, e>>
<1>1. /\ ops \in Seq(Ops) /\ Len(ops) = 5
      /\ ops[1] = a /\ ops[2] = b /\ ops[3] = c /\ ops[4] = d /\ ops[5] = e
  OBVIOUS
<1>2. /\ Do(ops) \in Seq(Steps) /\ Len(Do(ops)) = 5
      /\ Do(ops)[1] = Note(a)
      /\ Do(ops)[2] = Note(b)
      /\ Do(ops)[3] = Note(c)
      /\ Do(ops)[4] = Note(d)
      /\ Do(ops)[5] = Note(e)
  <2> HIDE DEF ops
  <2> QED
    BY <1>1, DoIs
<1> HIDE DEF ops
<1> QED
  BY <1>2, PathOfFive DEF ops

LEMMA PathGet ==
  ASSUME NEW i, NEW F \in SUBSET Facts, NEW r \in Resources \ (Controller \cup {"functions"}),
         Sound(i, F), Sound(i, F \cup {r})
  PROVE  Path(i, F, Get(r), F \cup {r})
PROOF
<1>1. <<r>> \in Seq(Things) /\ Len(<<r>>) = 1 /\ (<<r>>)[1] = r
  BY DEF Things
<1>2. "get" \in Ops
  BY DEF Ops
<1>3. Get(r) \in Seq(Steps) /\ Len(Get(r)) = 1 /\ Get(r)[1] = Step("get", r)
  <2> DEFINE rs == <<r>>
  <2> HIDE DEF rs
  <2>1. Get(r) = Each("get", rs)
    BY DEF Get, Gets, rs
  <2>2. rs \in Seq(Things) /\ Len(rs) = 1 /\ rs[1] = r
    BY <1>1 DEF rs
  <2> QED
    BY <1>2, <2>1, <2>2, EachIs
<1>4. Link(i, F, Step("get", r), F \cup {r})
  BY LinkGet
<1> QED
  BY <1>3, <1>4, PathOfOne

LEMMA PathPut ==
  ASSUME NEW i, NEW F \in SUBSET Facts, NEW r \in Resources,
         Sound(i, F), Sound(i, F \ {r})
  PROVE  Path(i, F, Put(r), F \ {r})
PROOF
<1>1. <<r>> \in Seq(Things) /\ Len(<<r>>) = 1 /\ (<<r>>)[1] = r
  BY DEF Things
<1>2. "put" \in Ops
  BY DEF Ops
<1>3. Put(r) \in Seq(Steps) /\ Len(Put(r)) = 1 /\ Put(r)[1] = Step("put", r)
  <2> DEFINE rs == <<r>>
  <2> HIDE DEF rs
  <2>1. Put(r) = Each("put", rs)
    BY DEF Put, Puts, rs
  <2>2. rs \in Seq(Things) /\ Len(rs) = 1 /\ rs[1] = r
    BY <1>1 DEF rs
  <2> QED
    BY <1>2, <2>1, <2>2, EachIs
<1>4. Link(i, F, Step("put", r), F \ {r})
  BY LinkPut
<1> QED
  BY <1>3, <1>4, PathOfOne

\* Steps that change none of the facts, whatever happens in them.
Idle == {"resume", "set_SUSPEND", "await_suspend", "post_CLOSE", "await_DISCONNECTED",
         "clear_DISCONNECTED", "disable", "disabled", "inactive"}

LEMMA LinkIdle ==
  ASSUME NEW i, NEW F \in SUBSET Facts, Sound(i, F), NEW op \in Idle
  PROVE  Link(i, F, Note(op), F)
PROOF
  BY StepIs DEF Link, Allowed, After, Idle

-------------------------------------------------------------------------------
(* The ports.                                                              *)

LEMMA mb_port_ser_created ==
  ASSUME NEW i, NEW F \in SUBSET Facts, Sound(i, F)
  PROVE  Path(i, F, mb_port_ser_create, F \cup {"port", "uart", "bus_sema", "port_task"})
PROOF
<1>1. {"port", "uart", "bus_sema", "port_task"} \subseteq Resources \ (Controller \cup {"functions"})
  BY DEF Resources, Controller
<1>2. Sound(i, F \cup {"port"}) /\ Sound(i, F \cup {"port", "uart"})
      /\ Sound(i, F \cup {"port", "uart", "bus_sema"})
      /\ Sound(i, F \cup {"port", "uart", "bus_sema", "port_task"})
  BY DEF Sound, Events
<1> QED
  BY <1>1, <1>2, GetsFour DEF mb_port_ser_create

LEMMA SerialPortCreated ==
  ASSUME NEW i, NEW F \in SUBSET Facts, Sound(i, F), "transport" \in F
  PROVE  Path(i, F, SerialPort,
              F \cup {"port", "uart", "bus_sema", "port_task", "timer", "event"})
PROOF
<1> DEFINE A == F \cup {"port", "uart", "bus_sema", "port_task"}
           B == A \cup {"timer"}
           C == B \cup {"event"}
<1>1. Path(i, F, mb_port_ser_create, A)
  BY mb_port_ser_created
<1>2. A \in SUBSET Facts /\ Sound(i, A)
  BY <1>1, PathEnds
<1>3. {"timer", "event"} \subseteq Resources \ (Controller \cup {"functions"})
  BY DEF Resources, Controller
<1>4. Path(i, A, mb_port_timer_create, B)
  <2>1. Sound(i, B)
    BY <1>2 DEF Sound, Events
  <2> HIDE DEF A
  <2> QED
    BY <1>2, <1>3, <2>1, PathGet DEF mb_port_timer_create
<1>5. B \in SUBSET Facts /\ Sound(i, B)
  BY <1>4, PathEnds
<1>6. Path(i, B, mb_port_event_create, C)
  <2>1. Sound(i, C)
    BY <1>5 DEF Sound, Events
  <2> HIDE DEF B
  <2> QED
    BY <1>3, <1>5, <2>1, PathGet DEF mb_port_event_create
<1>7. Path(i, F, SerialPort, C)
  <2> HIDE DEF A, B, C
  <2> QED
    BY <1>1, <1>4, <1>6, PathJoin DEF SerialPort
<1>8. C = F \cup {"port", "uart", "bus_sema", "port_task", "timer", "event"}
  OBVIOUS
<1> QED
  BY <1>7, <1>8

LEMMA SerialPortDeleted ==
  ASSUME NEW i, NEW F \in SUBSET Facts, Sound(i, F),
         "started" \notin F, "driver_task" \notin F, F \cap Events = {}
  PROVE  Path(i, F, NoSerialPort,
              F \ {"timer", "event", "port_task", "uart", "bus_sema", "port"})
PROOF
<1> DEFINE A == F \ {"timer"}
           B == A \ {"event"}
           C == B \ {"port_task", "uart", "bus_sema", "port"}
<1>1. {"timer", "event", "port_task", "uart", "bus_sema", "port"} \subseteq Resources
  BY DEF Resources, Controller
<1>2. Path(i, F, mb_port_timer_delete, A)
  <2>1. Sound(i, A)
    BY DEF Sound, Events
  <2> QED
    BY <1>1, <2>1, PathPut DEF mb_port_timer_delete
<1>3. A \in SUBSET Facts /\ Sound(i, A)
  BY <1>2, PathEnds
<1>4. Path(i, A, mb_port_event_delete, B)
  <2>1. Sound(i, B)
    BY <1>3 DEF Sound, Events
  <2> HIDE DEF A
  <2> QED
    BY <1>1, <1>3, <2>1, PathPut DEF mb_port_event_delete
<1>5. B \in SUBSET Facts /\ Sound(i, B)
  BY <1>4, PathEnds
<1>6. Path(i, B, mb_port_ser_delete, C)
  <2>1. /\ Sound(i, B \ {"port_task"}) /\ Sound(i, B \ {"port_task", "uart"})
        /\ Sound(i, B \ {"port_task", "uart", "bus_sema"}) /\ Sound(i, C)
    BY <1>5 DEF Sound, Events
  <2>2. {"port_task", "uart", "bus_sema", "port"} \subseteq Resources
    BY <1>1
  <2> HIDE DEF B
  <2> QED
    BY <1>5, <2>1, <2>2, PutsFour DEF mb_port_ser_delete
<1>7. Path(i, F, NoSerialPort, C)
  <2> HIDE DEF A, B, C
  <2> QED
    BY <1>2, <1>4, <1>6, PathJoin DEF NoSerialPort
<1>8. C = F \ {"timer", "event", "port_task", "uart", "bus_sema", "port"}
  OBVIOUS
<1> QED
  BY <1>7, <1>8

-------------------------------------------------------------------------------
(* The driver of a TCP port.                                               *)

LEMMA LinkSema ==
  ASSUME NEW i, NEW F \in SUBSET Facts, Sound(i, F)
  PROVE  /\ F \cap Events = {} \/ (F \cap Events = {"ERROR"} /\ i \notin TcpMasters)
              => Link(i, F, Note("sema_create"), F \cup {"sema"})
         /\ Link(i, F, Note("sema_delete"), F \ {"sema"})
PROOF
<1>1. ASSUME F \cap Events = {} \/ (F \cap Events = {"ERROR"} /\ i \notin TcpMasters)
      PROVE  Link(i, F, Note("sema_create"), F \cup {"sema"})
  <2>1. Sound(i, F \cup {"sema"})
    BY <1>1 DEF Sound, Events
  <2>2. F \cup {"sema"} \in SUBSET Facts
    BY DEF Facts, Marks
  <2>3. F \cup {"sema"} = After(Note("sema_create"), F) /\ Allowed(i, Note("sema_create"), F)
    BY StepIs DEF Allowed, After
  <2> QED
    BY <2>1, <2>2, <2>3 DEF Link
<1>2. Link(i, F, Note("sema_delete"), F \ {"sema"})
  <2>1. Sound(i, F \ {"sema"})
    BY DEF Sound, Events
  <2>2. F \ {"sema"} = After(Note("sema_delete"), F) /\ Allowed(i, Note("sema_delete"), F)
    BY StepIs DEF Allowed, After
  <2> QED
    BY <2>1, <2>2 DEF Link
<1> QED
  BY <1>1, <1>2

LEMMA LinkLoop ==
  ASSUME NEW i, NEW F \in SUBSET Facts, Sound(i, F)
  PROVE  /\ Link(i, F, Note("loop_init"), F \cup {"opening"})
         /\ "opening" \in F /\ F \cap {"counted", "sema"} = {} /\ {"driver", "flags", "port"} \subseteq F
              => Link(i, F, Note("task_create"), (F \ {"opening"}) \cup {"driver_task", "counted"})
         /\ {"counted", "looped", "sema"} \subseteq F /\ "driver_task" \notin F
              /\ "enabled" \notin F /\ F \cap Events \subseteq {"ERROR"}
              => Link(i, F, Note("loop_uncount"),
                      (F \ {"counted", "looped", "ERROR"}) \cup {"opening"})
         /\ "opening" \in F /\ F \cap {"counted", "looped"} = {}
              => Link(i, F, Note("loop_delete"), F \ {"opening"})
PROOF
<1>1. Link(i, F, Note("loop_init"), F \cup {"opening"})
  <2>1. Sound(i, F \cup {"opening"})
    BY DEF Sound, Events
  <2>2. F \cup {"opening"} \in SUBSET Facts
    BY DEF Facts, Marks
  <2>3. F \cup {"opening"} = After(Note("loop_init"), F) /\ Allowed(i, Note("loop_init"), F)
    BY StepIs DEF Allowed, After
  <2> QED
    BY <2>1, <2>2, <2>3 DEF Link
<1>2. ASSUME "opening" \in F, F \cap {"counted", "sema"} = {}, {"driver", "flags", "port"} \subseteq F
      PROVE  Link(i, F, Note("task_create"), (F \ {"opening"}) \cup {"driver_task", "counted"})
  <2> DEFINE G == (F \ {"opening"}) \cup {"driver_task", "counted"}
  <2>1. Sound(i, G)
    BY <1>2 DEF Sound, Events
  <2>2. G \in SUBSET Facts
    BY DEF Facts, Marks
  <2>3. G = After(Note("task_create"), F)
    BY StepIs DEF After
  <2>4. Allowed(i, Note("task_create"), F)
    BY <1>2, StepIs DEF Allowed
  <2> QED
    BY <2>1, <2>2, <2>3, <2>4 DEF Link
<1>3. ASSUME {"counted", "looped", "sema"} \subseteq F, "driver_task" \notin F,
             "enabled" \notin F, F \cap Events \subseteq {"ERROR"}
      PROVE  Link(i, F, Note("loop_uncount"),
                  (F \ {"counted", "looped", "ERROR"}) \cup {"opening"})
  <2> DEFINE G == (F \ {"counted", "looped", "ERROR"}) \cup {"opening"}
  <2>1. Sound(i, G)
    BY <1>3 DEF Sound, Events
  <2>2. G \in SUBSET Facts
    BY DEF Facts, Marks
  <2>3. G = After(Note("loop_uncount"), F)
    BY StepIs DEF After
  <2>4. Allowed(i, Note("loop_uncount"), F)
    BY <1>3, StepIs DEF Allowed
  <2> QED
    BY <2>1, <2>2, <2>3, <2>4 DEF Link
<1>4. ASSUME "opening" \in F, F \cap {"counted", "looped"} = {}
      PROVE  Link(i, F, Note("loop_delete"), F \ {"opening"})
  <2>1. Sound(i, F \ {"opening"})
    BY DEF Sound, Events
  <2>2. F \ {"opening"} = After(Note("loop_delete"), F)
    BY StepIs DEF After
  <2>3. Allowed(i, Note("loop_delete"), F)
    BY <1>4, StepIs DEF Allowed
  <2> QED
    BY <2>1, <2>2, <2>3 DEF Link
<1> QED
  BY <1>1, <1>2, <1>3, <1>4

LEMMA LinkShutdown ==
  ASSUME NEW i, NEW F \in SUBSET Facts, Sound(i, F)
  PROVE  /\ "sema" \notin F => Link(i, F, Note("set_SHUTDOWN"), F \cup {"SHUTDOWN"})
         /\ "SHUTDOWN" \in F
              => Link(i, F, Note("await_shutdown"), F \ {"SHUTDOWN", "driver_task"})
PROOF
<1>1. ASSUME "sema" \notin F
      PROVE  Link(i, F, Note("set_SHUTDOWN"), F \cup {"SHUTDOWN"})
  <2>1. Sound(i, F \cup {"SHUTDOWN"})
    BY DEF Sound, Events
  <2>2. F \cup {"SHUTDOWN"} \in SUBSET Facts
    BY DEF Facts, Marks
  <2>3. F \cup {"SHUTDOWN"} = After(Note("set_SHUTDOWN"), F)
    BY StepIs DEF After
  <2>4. Allowed(i, Note("set_SHUTDOWN"), F)
    BY <1>1, StepIs DEF Allowed
  <2> QED
    BY <2>1, <2>2, <2>3, <2>4 DEF Link
<1>2. ASSUME "SHUTDOWN" \in F
      PROVE  Link(i, F, Note("await_shutdown"), F \ {"SHUTDOWN", "driver_task"})
  <2>1. Sound(i, F \ {"SHUTDOWN", "driver_task"})
    BY DEF Sound, Events
  <2>2. F \ {"SHUTDOWN", "driver_task"} = After(Note("await_shutdown"), F)
    BY StepIs DEF After
  <2>3. Allowed(i, Note("await_shutdown"), F)
    BY <1>2, StepIs DEF Allowed
  <2> QED
    BY <2>1, <2>2, <2>3 DEF Link
<1> QED
  BY <1>1, <1>2

\* The driver's task is told to suspend itself before it has anything to do.
LEMMA mb_drv_task_stopped ==
  ASSUME NEW i, NEW F \in SUBSET Facts, Sound(i, F), F \cap Events = {}, "sema" \notin F
  PROVE  Path(i, F, mb_drv_stop_task, F)
PROOF
<1> DEFINE A == F \cup {"sema"}
<1>1. Link(i, F, Note("sema_create"), A)
  BY LinkSema
<1>2. A \in SUBSET Facts /\ Sound(i, A) /\ A \ {"sema"} = F
  BY <1>1 DEF Link
<1> HIDE DEF A
<1>3. Link(i, A, Note("set_SUSPEND"), A) /\ Link(i, A, Note("await_suspend"), A)
  BY <1>2, LinkIdle DEF Idle
<1>4. Link(i, A, Note("sema_delete"), F)
  BY <1>2, LinkSema
<1>5. {"sema_create", "set_SUSPEND", "await_suspend", "sema_delete"} \subseteq Ops
  BY DEF Ops
<1> QED
  BY <1>1, <1>3, <1>4, <1>5, DoFour DEF mb_drv_stop_task

\* A registered driver has a task, counts for the loop and has no handler yet.
LEMMA mb_drv_registered ==
  ASSUME NEW i, NEW F \in SUBSET Resources, Sound(i, F), "port" \in F
  PROVE  Path(i, F, mb_drv_register,
              F \cup {"driver", "nodes", "event_fd", "flags", "driver_task", "counted"})
PROOF
<1>0. F \in SUBSET Facts /\ F \cap Events = {} /\ F \cap Marks = {}
  BY DEF Facts, Resources, Controller, Events, Marks
<1> DEFINE A == F \cup {"driver", "nodes", "event_fd"}
           B == A \cup {"opening"}
           C == B \cup {"flags"}
           D == (C \ {"opening"}) \cup {"driver_task", "counted"}
<1>1. Path(i, F, Gets(<<"driver", "nodes", "event_fd">>), A)
  <2>1. {"driver", "nodes", "event_fd"} \subseteq Resources \ (Controller \cup {"functions"})
    BY DEF Resources, Controller
  <2>2. /\ Sound(i, F \cup {"driver"}) /\ Sound(i, F \cup {"driver", "nodes"})
        /\ Sound(i, F \cup {"driver", "nodes", "event_fd"})
    BY DEF Sound, Events
  <2> QED
    BY <1>0, <2>1, <2>2, GetsThree
<1>2. A \in SUBSET Facts /\ Sound(i, A)
  BY <1>1, PathEnds
<1>3. Path(i, A, Do(<<"loop_init">>), B)
  <2>1. Link(i, A, Note("loop_init"), B)
    BY <1>2, LinkLoop
  <2>2. "loop_init" \in Ops
    BY DEF Ops
  <2> HIDE DEF A, B
  <2> QED
    BY <1>2, <2>1, <2>2, DoOne
<1>4. B \in SUBSET Facts /\ Sound(i, B)
  BY <1>3, PathEnds
<1>5. Path(i, B, Get("flags"), C)
  <2>1. "flags" \in Resources \ (Controller \cup {"functions"})
    BY DEF Resources, Controller
  <2>2. Sound(i, C)
    BY <1>4 DEF Sound, Events
  <2> HIDE DEF B
  <2> QED
    BY <1>4, <2>1, <2>2, PathGet
<1>6. C \in SUBSET Facts /\ Sound(i, C)
  BY <1>5, PathEnds
<1>7. Path(i, C, Do(<<"task_create">>), D)
  <2>1. "opening" \in C /\ C \cap {"counted", "sema"} = {} /\ {"driver", "flags", "port"} \subseteq C
    BY <1>0 DEF Marks
  <2> HIDE DEF C
  <2>2. Link(i, C, Note("task_create"), D)
    BY <1>6, <2>1, LinkLoop
  <2>3. "task_create" \in Ops
    BY DEF Ops
  <2> HIDE DEF D
  <2> QED
    BY <1>6, <2>2, <2>3, DoOne
<1>8. D \in SUBSET Facts /\ Sound(i, D)
  BY <1>7, PathEnds
<1>9. Path(i, D, mb_drv_stop_task, D)
  <2>1. D \cap Events = {} /\ "sema" \notin D
    BY <1>0 DEF Events, Marks
  <2> HIDE DEF D
  <2> QED
    BY <1>8, <2>1, mb_drv_task_stopped
<1>10. Path(i, F, mb_drv_register, D)
  <2> HIDE DEF A, B, C, D
  <2> QED
    BY <1>1, <1>3, <1>5, <1>7, <1>9, PathJoin DEF mb_drv_register
<1>11. D = F \cup {"driver", "nodes", "event_fd", "flags", "driver_task", "counted"}
  BY <1>0 DEF Marks
<1> QED
  BY <1>10, <1>11

\* The handlers come once the driver counts, and the loop is there for them.
LEMMA LinkRegister ==
  ASSUME NEW i, NEW F \in SUBSET Facts, NEW e \in Events,
         Sound(i, F), Sound(i, F \cup {e, "looped"})
  PROVE  Link(i, F, Step("register", e), F \cup {e, "looped"})
PROOF
<1>1. F \cup {e, "looped"} \in SUBSET Facts
  BY DEF Facts, Marks
<1>2. F \cup {e, "looped"} = After(Step("register", e), F) /\ Allowed(i, Step("register", e), F)
  BY StepIs DEF Allowed, After
<1> QED
  BY <1>1, <1>2 DEF Link

LEMMA LinkUnregister ==
  ASSUME NEW i, NEW F \in SUBSET Facts, NEW e \in Events, Sound(i, F), "enabled" \notin F
  PROVE  Link(i, F, Step("unregister", e), F \ {e})
PROOF
<1>1. Sound(i, F \ {e})
  BY DEF Sound, Events
<1>2. F \ {e} = After(Step("unregister", e), F) /\ Allowed(i, Step("unregister", e), F)
  BY StepIs DEF Allowed, After
<1> QED
  BY <1>1, <1>2 DEF Link

LEMMA handlers_registered ==
  ASSUME NEW i, NEW F \in SUBSET Facts, Sound(i, F),
         {"driver", "port", "counted"} \subseteq F, "sema" \notin F
  PROVE  /\ Path(i, F, mbs_port_tcp_register_handlers, F \cup Events \cup {"looped"})
         /\ Path(i, F, mbm_port_tcp_register_handlers, F \cup Events \cup {"looped"})
PROOF
<1> DEFINE A == F \cup {"ERROR", "looped"}
           B == A \cup {"CLOSE", "looped"}
           C == B \cup {"TIMEOUT", "looped"}
           rs == <<"ERROR", "CLOSE", "TIMEOUT">>
<1>1. {A, B, C} \subseteq SUBSET Facts
  BY DEF Facts, Events, Marks
<1>2. Sound(i, A) /\ Sound(i, B) /\ Sound(i, C)
  BY DEF Sound, Events
<1>3. Link(i, F, Step("register", "ERROR"), A)
  BY <1>2, LinkRegister DEF Events
<1>4. Link(i, A, Step("register", "CLOSE"), B)
  <2>1. A \in SUBSET Facts /\ "CLOSE" \in Events
    BY <1>1 DEF Events
  <2> HIDE DEF A
  <2> QED
    BY <1>2, <2>1, LinkRegister
<1>5. Link(i, B, Step("register", "TIMEOUT"), C)
  <2>1. B \in SUBSET Facts /\ "TIMEOUT" \in Events
    BY <1>1 DEF Events
  <2> HIDE DEF B
  <2> QED
    BY <1>2, <2>1, LinkRegister
<1>6. /\ Each("register", rs) \in Seq(Steps) /\ Len(Each("register", rs)) = 3
      /\ Each("register", rs)[1] = Step("register", "ERROR")
      /\ Each("register", rs)[2] = Step("register", "CLOSE")
      /\ Each("register", rs)[3] = Step("register", "TIMEOUT")
  <2>1. rs \in Seq(Things) /\ Len(rs) = 3 /\ rs[1] = "ERROR" /\ rs[2] = "CLOSE" /\ rs[3] = "TIMEOUT"
    BY DEF Things, Events
  <2>2. "register" \in Ops
    BY DEF Ops
  <2> HIDE DEF rs
  <2> QED
    BY <2>1, <2>2, EachIs
<1>7. Path(i, F, Each("register", rs), C)
  <2> HIDE DEF A, B, C, rs
  <2> QED
    BY <1>3, <1>4, <1>5, <1>6, PathOfThree
<1>8. C = F \cup Events \cup {"looped"}
  BY DEF Events
<1> QED
  BY <1>7, <1>8 DEF mbs_port_tcp_register_handlers, mbm_port_tcp_register_handlers

LEMMA slave_handlers_unregistered ==
  ASSUME NEW i, NEW F \in SUBSET Facts, Sound(i, F), "enabled" \notin F
  PROVE  Path(i, F, mbs_port_tcp_unregister_handlers, F \ {"CLOSE", "TIMEOUT"})
PROOF
<1> DEFINE A == F \ {"CLOSE"}
           B == A \ {"TIMEOUT"}
           rs == <<"CLOSE", "TIMEOUT">>
<1>1. Link(i, F, Step("unregister", "CLOSE"), A)
  BY LinkUnregister DEF Events
<1>2. A \in SUBSET Facts /\ Sound(i, A) /\ "enabled" \notin A
  BY <1>1 DEF Link
<1>3. Link(i, A, Step("unregister", "TIMEOUT"), B)
  <2>1. "TIMEOUT" \in Events
    BY DEF Events
  <2> HIDE DEF A
  <2> QED
    BY <1>2, <2>1, LinkUnregister
<1>4. /\ Each("unregister", rs) \in Seq(Steps) /\ Len(Each("unregister", rs)) = 2
      /\ Each("unregister", rs)[1] = Step("unregister", "CLOSE")
      /\ Each("unregister", rs)[2] = Step("unregister", "TIMEOUT")
  <2>1. rs \in Seq(Things) /\ Len(rs) = 2 /\ rs[1] = "CLOSE" /\ rs[2] = "TIMEOUT"
    BY DEF Things, Events
  <2>2. "unregister" \in Ops
    BY DEF Ops
  <2> HIDE DEF rs
  <2> QED
    BY <2>1, <2>2, EachIs
<1>5. Path(i, F, Each("unregister", rs), B)
  <2> HIDE DEF A, B, rs
  <2> QED
    BY <1>1, <1>3, <1>4, PathOfTwo
<1>6. B = F \ {"CLOSE", "TIMEOUT"}
  OBVIOUS
<1> QED
  BY <1>5, <1>6 DEF mbs_port_tcp_unregister_handlers

LEMMA master_handlers_unregistered ==
  ASSUME NEW i, NEW F \in SUBSET Facts, Sound(i, F), "enabled" \notin F
  PROVE  Path(i, F, mbm_port_tcp_unregister_handlers, F \ Events)
PROOF
<1> DEFINE A == F \ {"ERROR"}
           B == A \ {"CLOSE"}
           C == B \ {"TIMEOUT"}
           rs == <<"ERROR", "CLOSE", "TIMEOUT">>
<1>1. Link(i, F, Step("unregister", "ERROR"), A)
  BY LinkUnregister DEF Events
<1>2. A \in SUBSET Facts /\ Sound(i, A) /\ "enabled" \notin A
  BY <1>1 DEF Link
<1>3. Link(i, A, Step("unregister", "CLOSE"), B)
  <2>1. "CLOSE" \in Events
    BY DEF Events
  <2> HIDE DEF A
  <2> QED
    BY <1>2, <2>1, LinkUnregister
<1>4. B \in SUBSET Facts /\ Sound(i, B) /\ "enabled" \notin B
  BY <1>2, <1>3 DEF Link
<1>5. Link(i, B, Step("unregister", "TIMEOUT"), C)
  <2>1. "TIMEOUT" \in Events
    BY DEF Events
  <2> HIDE DEF B
  <2> QED
    BY <1>4, <2>1, LinkUnregister
<1>6. /\ Each("unregister", rs) \in Seq(Steps) /\ Len(Each("unregister", rs)) = 3
      /\ Each("unregister", rs)[1] = Step("unregister", "ERROR")
      /\ Each("unregister", rs)[2] = Step("unregister", "CLOSE")
      /\ Each("unregister", rs)[3] = Step("unregister", "TIMEOUT")
  <2>1. rs \in Seq(Things) /\ Len(rs) = 3 /\ rs[1] = "ERROR" /\ rs[2] = "CLOSE" /\ rs[3] = "TIMEOUT"
    BY DEF Things, Events
  <2>2. "unregister" \in Ops
    BY DEF Ops
  <2> HIDE DEF rs
  <2> QED
    BY <2>1, <2>2, EachIs
<1>7. Path(i, F, Each("unregister", rs), C)
  <2> HIDE DEF A, B, C, rs
  <2> QED
    BY <1>1, <1>3, <1>5, <1>6, PathOfThree
<1>8. C = F \ Events
  BY DEF Events
<1> QED
  BY <1>7, <1>8 DEF mbm_port_tcp_unregister_handlers

\* The driver goes when its handlers have gone, all but that of MB_EVENT_ERROR
\* of a slave, which stays in the loop.
LEMMA mb_drv_unregistered ==
  ASSUME NEW i, NEW F \in SUBSET Facts, Sound(i, F),
         {"counted", "looped"} \subseteq F,
         F \cap {"enabled", "opening", "sema", "SHUTDOWN"} = {},
         F \cap Events = {} \/ (F \cap Events = {"ERROR"} /\ i \notin TcpMasters)
  PROVE  Path(i, F, mb_drv_unregister, F \ (DriverFacts \cup {"ERROR"}))
PROOF
<1> DEFINE A == F \cup {"SHUTDOWN"}
           B == A \cup {"sema"}
           C == B \ {"SHUTDOWN", "driver_task"}
           K == (C \ {"counted", "looped", "ERROR"}) \cup {"opening"}
           D == K \ {"opening"}
           E == D \ {"sema"}
           G == E \ {"event_fd", "nodes", "flags", "driver"}
<1>1. Link(i, F, Note("set_SHUTDOWN"), A)
  BY LinkShutdown
<1>2. A \in SUBSET Facts /\ Sound(i, A) /\ A \cap Events = F \cap Events
  BY <1>1 DEF Link, Events
<1>3. Link(i, A, Note("sema_create"), B)
  <2> HIDE DEF A
  <2> QED
    BY <1>2, LinkSema
<1>4. B \in SUBSET Facts /\ Sound(i, B) /\ "SHUTDOWN" \in B
  BY <1>3 DEF Link
<1>5. Link(i, B, Note("await_shutdown"), C)
  <2> HIDE DEF B
  <2> QED
    BY <1>4, LinkShutdown
<1>6. C \in SUBSET Facts /\ Sound(i, C)
  BY <1>5 DEF Link
<1>7. Link(i, C, Note("loop_uncount"), K)
  <2>1. {"counted", "looped", "sema"} \subseteq C /\ "driver_task" \notin C
        /\ "enabled" \notin C /\ C \cap Events \subseteq {"ERROR"}
    BY DEF Events
  <2> HIDE DEF C
  <2> QED
    BY <1>6, <2>1, LinkLoop
<1>8. K \in SUBSET Facts /\ Sound(i, K)
  BY <1>7 DEF Link
<1>9. Link(i, K, Note("loop_delete"), D)
  <2>1. "opening" \in K /\ K \cap {"counted", "looped"} = {}
    OBVIOUS
  <2> HIDE DEF K
  <2> QED
    BY <1>8, <2>1, LinkLoop
<1>10. D \in SUBSET Facts /\ Sound(i, D)
  BY <1>9 DEF Link
<1>11. Link(i, D, Note("sema_delete"), E)
  <2> HIDE DEF D
  <2> QED
    BY <1>10, LinkSema
<1>12. E \in SUBSET Facts /\ Sound(i, E)
  BY <1>11 DEF Link
<1>13. /\ Path(i, F, Do(<<"set_SHUTDOWN", "sema_create", "await_shutdown">>), C)
       /\ Path(i, C, mb_drv_event_loop_deinit, D)
       /\ Path(i, D, Do(<<"sema_delete">>), E)
  <2>1. {"set_SHUTDOWN", "sema_create", "await_shutdown", "loop_uncount", "loop_delete",
         "sema_delete"} \subseteq Ops
    BY DEF Ops
  <2> HIDE DEF A, B, C, D, E, K
  <2>2. Path(i, F, Do(<<"set_SHUTDOWN", "sema_create", "await_shutdown">>), C)
    BY <1>1, <1>3, <1>5, <2>1, DoThree
  <2>3. Path(i, C, Do(<<"loop_uncount", "loop_delete">>), D)
    BY <1>6, <1>7, <1>9, <2>1, DoTwo
  <2>4. Path(i, D, Do(<<"sema_delete">>), E)
    BY <1>10, <1>11, <2>1, DoOne
  <2> QED
    BY <2>2, <2>3, <2>4 DEF mb_drv_event_loop_deinit
<1>14. Path(i, E, Puts(<<"event_fd", "nodes", "flags", "driver">>), G)
  <2>1. {"event_fd", "nodes", "flags", "driver"} \subseteq Resources
    BY DEF Resources
  <2>2. "driver_task" \notin E /\ E \cap Events = {}
    BY DEF Events
  <2> HIDE DEF E
  <2>3. /\ Sound(i, E \ {"event_fd"}) /\ Sound(i, E \ {"event_fd", "nodes"})
        /\ Sound(i, E \ {"event_fd", "nodes", "flags"}) /\ Sound(i, G)
    BY <1>12, <2>2 DEF Sound, Events
  <2> QED
    BY <1>12, <2>1, <2>3, PutsFour
<1>15. Path(i, F, mb_drv_unregister, G)
  <2> HIDE DEF C, D, E, G
  <2> QED
    BY <1>13, <1>14, PathJoin DEF mb_drv_unregister
<1>16. G = F \ (DriverFacts \cup {"ERROR"})
  BY DEF DriverFacts
<1> QED
  BY <1>15, <1>16

LEMMA mbs_port_tcp_created ==
  ASSUME NEW i, NEW F \in SUBSET Resources, Sound(i, F)
  PROVE  Path(i, F, mbs_port_tcp_create,
              F \cup {"port", "transactions"} \cup DriverFacts \cup Events)
PROOF
<1> DEFINE A == F \cup {"port", "transactions"}
           B == A \cup {"driver", "nodes", "event_fd", "flags", "driver_task", "counted"}
           C == B \cup Events \cup {"looped"}
<1>0. F \in SUBSET Facts /\ F \cap Marks = {}
  BY DEF Facts, Resources, Controller, Marks
<1>1. Path(i, F, Gets(<<"port", "transactions">>), A)
  <2>1. {"port", "transactions"} \subseteq Resources \ (Controller \cup {"functions"})
    BY DEF Resources, Controller
  <2>2. Sound(i, F \cup {"port"}) /\ Sound(i, F \cup {"port", "transactions"})
    BY DEF Sound, Events
  <2> QED
    BY <1>0, <2>1, <2>2, GetsTwo
<1>2. A \in SUBSET Resources /\ Sound(i, A) /\ "port" \in A
  BY <1>1, PathEnds DEF Resources
<1>3. Path(i, A, mb_drv_register, B)
  <2> HIDE DEF A
  <2> QED
    BY <1>2, mb_drv_registered
<1>4. B \in SUBSET Facts /\ Sound(i, B)
  BY <1>3, PathEnds
<1>5. Path(i, B, mbs_port_tcp_register_handlers, C)
  <2>1. {"driver", "port", "counted"} \subseteq B /\ "sema" \notin B
    BY <1>0 DEF Marks
  <2> HIDE DEF B
  <2> QED
    BY <1>4, <2>1, handlers_registered
<1>6. Path(i, F, mbs_port_tcp_create, C)
  <2> HIDE DEF A, B, C
  <2> QED
    BY <1>1, <1>3, <1>5, PathJoin DEF mbs_port_tcp_create
<1>7. C = F \cup {"port", "transactions"} \cup DriverFacts \cup Events
  BY DEF DriverFacts
<1> QED
  BY <1>6, <1>7

LEMMA mbm_port_tcp_created ==
  ASSUME NEW i, NEW F \in SUBSET Resources, Sound(i, F)
  PROVE  Path(i, F, mbm_port_tcp_create, F \cup {"port"} \cup DriverFacts \cup Events)
PROOF
<1> DEFINE A == F \cup {"port"}
           B == A \cup {"driver", "nodes", "event_fd", "flags", "driver_task", "counted"}
           C == B \cup Events \cup {"looped"}
<1>0. F \in SUBSET Facts /\ F \cap Marks = {}
  BY DEF Facts, Resources, Controller, Marks
<1>1. Path(i, F, Get("port"), A)
  <2>1. "port" \in Resources \ (Controller \cup {"functions"})
    BY DEF Resources, Controller
  <2>2. Sound(i, F \cup {"port"})
    BY DEF Sound, Events
  <2> QED
    BY <1>0, <2>1, <2>2, PathGet
<1>2. A \in SUBSET Resources /\ Sound(i, A) /\ "port" \in A
  BY <1>1, PathEnds DEF Resources
<1>3. Path(i, A, mb_drv_register, B)
  <2> HIDE DEF A
  <2> QED
    BY <1>2, mb_drv_registered
<1>4. B \in SUBSET Facts /\ Sound(i, B)
  BY <1>3, PathEnds
<1>5. Path(i, B, mbm_port_tcp_register_handlers, C)
  <2>1. {"driver", "port", "counted"} \subseteq B /\ "sema" \notin B
    BY <1>0 DEF Marks
  <2> HIDE DEF B
  <2> QED
    BY <1>4, <2>1, handlers_registered
<1>6. Path(i, F, mbm_port_tcp_create, C)
  <2> HIDE DEF A, B, C
  <2> QED
    BY <1>1, <1>3, <1>5, PathJoin DEF mbm_port_tcp_create
<1>7. C = F \cup {"port"} \cup DriverFacts \cup Events
  BY DEF DriverFacts
<1> QED
  BY <1>6, <1>7

\* What an object about to be taken down is not in the middle of.
Resting(F) == F \cap {"started", "enabled", "opening", "sema", "SHUTDOWN", "lost"} = {}

LEMMA mbs_port_tcp_deleted ==
  ASSUME NEW i, NEW F \in SUBSET Facts, Sound(i, F), Resting(F), i \notin TcpMasters,
         "looped" \in F, Events \subseteq F, "timer" \notin F, "port_task" \notin F
  PROVE  Path(i, F, mbs_port_tcp_delete, F \ ({"transactions", "port"} \cup DriverFacts \cup Events))
PROOF
<1> DEFINE A == F \ {"transactions"}
           B == A \ {"CLOSE", "TIMEOUT"}
           C == B \ (DriverFacts \cup {"ERROR"})
           D == C \ {"port"}
<1>1. Path(i, F, Put("transactions"), A)
  <2>1. Sound(i, A)
    BY DEF Sound, Events
  <2>2. "transactions" \in Resources
    BY DEF Resources
  <2> QED
    BY <2>1, <2>2, PathPut
<1>2. A \in SUBSET Facts /\ Sound(i, A) /\ "enabled" \notin A
  BY <1>1, PathEnds DEF Resting
<1>3. Path(i, A, mbs_port_tcp_unregister_handlers, B)
  <2> HIDE DEF A
  <2> QED
    BY <1>2, slave_handlers_unregistered
<1>4. B \in SUBSET Facts /\ Sound(i, B)
  BY <1>3, PathEnds
<1>5. Path(i, B, mb_drv_unregister, C)
  <2>1. {"counted", "looped"} \subseteq B
    BY DEF Sound
  <2>2. B \cap {"enabled", "opening", "sema", "SHUTDOWN"} = {}
    BY DEF Resting
  <2>3. B \cap Events = {"ERROR"}
    BY DEF Events
  <2> HIDE DEF B
  <2> QED
    BY <1>4, <2>1, <2>2, <2>3, mb_drv_unregistered
<1>6. C \in SUBSET Facts /\ Sound(i, C)
  BY <1>5, PathEnds
<1>7. Path(i, C, Put("port"), D)
  <2>1. Sound(i, D)
    BY <1>6 DEF Sound, Events, Resting, DriverFacts
  <2>2. "port" \in Resources
    BY DEF Resources
  <2> HIDE DEF C
  <2> QED
    BY <1>6, <2>1, <2>2, PathPut
<1>8. Path(i, F, mbs_port_tcp_delete, D)
  <2> HIDE DEF A, B, C, D
  <2> QED
    BY <1>1, <1>3, <1>5, <1>7, PathJoin DEF mbs_port_tcp_delete
<1>9. D = F \ ({"transactions", "port"} \cup DriverFacts \cup Events)
  BY DEF DriverFacts, Events
<1> QED
  BY <1>8, <1>9

LEMMA mbm_port_tcp_deleted ==
  ASSUME NEW i, NEW F \in SUBSET Facts, Sound(i, F), Resting(F),
         "looped" \in F, "timer" \notin F, "port_task" \notin F
  PROVE  Path(i, F, mbm_port_tcp_delete, F \ ({"port"} \cup DriverFacts \cup Events))
PROOF
<1> DEFINE A == F \ Events
           B == A \ (DriverFacts \cup {"ERROR"})
           C == B \ {"port"}
<1>1. Path(i, F, mbm_port_tcp_unregister_handlers, A)
  BY master_handlers_unregistered DEF Resting
<1>2. A \in SUBSET Facts /\ Sound(i, A)
  BY <1>1, PathEnds
<1>3. Path(i, A, mb_drv_unregister, B)
  <2>1. {"counted", "looped"} \subseteq A
    BY DEF Sound, Events
  <2>2. A \cap {"enabled", "opening", "sema", "SHUTDOWN"} = {} /\ A \cap Events = {}
    BY DEF Resting
  <2> HIDE DEF A
  <2> QED
    BY <1>2, <2>1, <2>2, mb_drv_unregistered
<1>4. B \in SUBSET Facts /\ Sound(i, B)
  BY <1>3, PathEnds
<1>5. Path(i, B, Put("port"), C)
  <2>1. Sound(i, C)
    BY <1>4 DEF Sound, Events, Resting, DriverFacts
  <2>2. "port" \in Resources
    BY DEF Resources
  <2> HIDE DEF B
  <2> QED
    BY <1>4, <2>1, <2>2, PathPut
<1>6. Path(i, F, mbm_port_tcp_delete, C)
  <2> HIDE DEF A, B, C
  <2> QED
    BY <1>1, <1>3, <1>5, PathJoin DEF mbm_port_tcp_delete
<1>7. C = F \ ({"port"} \cup DriverFacts \cup Events)
  BY DEF DriverFacts, Events
<1> QED
  BY <1>6, <1>7

-------------------------------------------------------------------------------
(* The transports and the objects.                                         *)

\* An instance is of one kind.
LEMMA Kinds ==
  ASSUME NEW i \in Inst
  PROVE  \/ /\ i \in RtuSlaves /\ i \in Slaves
            /\ i \notin AsciiSlaves /\ i \notin TcpSlaves /\ i \notin RtuMasters
            /\ i \notin AsciiMasters /\ i \notin TcpMasters /\ i \notin Tcp /\ i \notin Masters
         \/ /\ i \in AsciiSlaves /\ i \in Slaves
            /\ i \notin RtuSlaves /\ i \notin TcpSlaves /\ i \notin RtuMasters
            /\ i \notin AsciiMasters /\ i \notin TcpMasters /\ i \notin Tcp /\ i \notin Masters
         \/ /\ i \in TcpSlaves /\ i \in Slaves /\ i \in Tcp
            /\ i \notin RtuSlaves /\ i \notin AsciiSlaves /\ i \notin RtuMasters
            /\ i \notin AsciiMasters /\ i \notin TcpMasters /\ i \notin Masters
         \/ /\ i \in RtuMasters /\ i \in Masters
            /\ i \notin RtuSlaves /\ i \notin AsciiSlaves /\ i \notin TcpSlaves
            /\ i \notin AsciiMasters /\ i \notin TcpMasters /\ i \notin Tcp /\ i \notin Slaves
         \/ /\ i \in AsciiMasters /\ i \in Masters
            /\ i \notin RtuSlaves /\ i \notin AsciiSlaves /\ i \notin TcpSlaves
            /\ i \notin RtuMasters /\ i \notin TcpMasters /\ i \notin Tcp /\ i \notin Slaves
         \/ /\ i \in TcpMasters /\ i \in Masters /\ i \in Tcp
            /\ i \notin RtuSlaves /\ i \notin AsciiSlaves /\ i \notin TcpSlaves
            /\ i \notin RtuMasters /\ i \notin AsciiMasters /\ i \notin Slaves
PROOF
<1> DEFINE kinds == <<RtuSlaves, AsciiSlaves, TcpSlaves, RtuMasters, AsciiMasters, TcpMasters>>
<1>1. /\ kinds[1] = RtuSlaves /\ kinds[2] = AsciiSlaves /\ kinds[3] = TcpSlaves
      /\ kinds[4] = RtuMasters /\ kinds[5] = AsciiMasters /\ kinds[6] = TcpMasters
  OBVIOUS
<1>2. \A m, n \in 1 .. 6 : m # n => kinds[m] \cap kinds[n] = {}
  BY InstancesAssumption
<1> HIDE DEF kinds
<1>3. /\ RtuSlaves \cap AsciiSlaves = {} /\ RtuSlaves \cap TcpSlaves = {}
      /\ RtuSlaves \cap RtuMasters = {} /\ RtuSlaves \cap AsciiMasters = {}
      /\ RtuSlaves \cap TcpMasters = {}
  BY <1>1, <1>2
<1>4. /\ AsciiSlaves \cap TcpSlaves = {} /\ AsciiSlaves \cap RtuMasters = {}
      /\ AsciiSlaves \cap AsciiMasters = {} /\ AsciiSlaves \cap TcpMasters = {}
  BY <1>1, <1>2
<1>5. /\ TcpSlaves \cap RtuMasters = {} /\ TcpSlaves \cap AsciiMasters = {}
      /\ TcpSlaves \cap TcpMasters = {}
  BY <1>1, <1>2
<1>6. /\ RtuMasters \cap AsciiMasters = {} /\ RtuMasters \cap TcpMasters = {}
      /\ AsciiMasters \cap TcpMasters = {}
  BY <1>1, <1>2
<1> QED
  BY <1>3, <1>4, <1>5, <1>6 DEF Inst, Slaves, Masters, Tcp

LEMMA rtu_transp_created ==
  ASSUME NEW i, NEW F \in SUBSET Facts, Sound(i, F)
  PROVE  /\ Path(i, F, mbs_rtu_transp_create,
                 F \cup {"transport"} \cup {"port", "uart", "bus_sema", "port_task", "timer", "event"})
         /\ Path(i, F, mbm_rtu_transp_create,
                 F \cup {"transport"} \cup {"port", "uart", "bus_sema", "port_task", "timer", "event"})
PROOF
<1> DEFINE A == F \cup {"transport"}
           B == A \cup {"port", "uart", "bus_sema", "port_task", "timer", "event"}
<1>1. Path(i, F, Get("transport"), A)
  <2>1. {"transport"} \subseteq Resources \ (Controller \cup {"functions"})
    BY DEF Resources, Controller
  <2>2. Sound(i, F \cup {"transport"}) /\ Sound(i, A)
    BY DEF Sound, Events
  <2> QED
    BY <2>1, <2>2, PathGet
<1>2. A \in SUBSET Facts /\ Sound(i, A) /\ "transport" \in A
  BY <1>1, PathEnds
<1>3. Path(i, A, SerialPort, B)
  <2> HIDE DEF A
  <2> QED
    BY <1>2, SerialPortCreated
<1> HIDE DEF A
<1>4. Path(i, F, Get("transport") \o SerialPort, B)
  <2> HIDE DEF B
  <2> QED
    BY <1>1, <1>3, PathJoin
<1> QED
  BY <1>4 DEF A, mbs_rtu_transp_create, mbm_rtu_transp_create

LEMMA rtu_transp_deleted ==
  ASSUME NEW i, NEW F \in SUBSET Facts, Sound(i, F),
         "started" \notin F, "driver_task" \notin F, F \cap Events = {}
  PROVE  /\ Path(i, F, mbs_rtu_transp_delete,
                 F \ ({"transport"} \cup {"port", "uart", "bus_sema", "port_task", "timer", "event"}))
         /\ Path(i, F, mbm_rtu_transp_delete,
                 F \ ({"transport"} \cup {"port", "uart", "bus_sema", "port_task", "timer", "event"}))
PROOF
<1> DEFINE A == F \ {"timer", "event", "port_task", "uart", "bus_sema", "port"}
           B == A \ {"transport"}
<1>1. Path(i, F, NoSerialPort, A)
  BY SerialPortDeleted
<1>2. A \in SUBSET Facts /\ Sound(i, A)
  BY <1>1, PathEnds
<1>3. Path(i, A, Put("transport"), B)
  <2>1. {"transport"} \subseteq Resources
    BY DEF Resources
  <2>2. Sound(i, B)
    BY <1>2 DEF Sound, Events
  <2> HIDE DEF A
  <2>3. B = A \ {"transport"}
    OBVIOUS
  <2> HIDE DEF B
  <2> QED
    BY <1>2, <2>1, <2>2, <2>3, PathPut
<1> HIDE DEF A
<1>4. Path(i, F, NoSerialPort \o Put("transport"), B)
  <2> HIDE DEF B
  <2> QED
    BY <1>1, <1>3, PathJoin
<1>5. B = F \ ({"transport"} \cup {"port", "uart", "bus_sema", "port_task", "timer", "event"})
  BY DEF A
<1> QED
  BY <1>4, <1>5 DEF mbs_rtu_transp_delete, mbm_rtu_transp_delete

LEMMA ascii_transp_created ==
  ASSUME NEW i, NEW F \in SUBSET Facts, Sound(i, F)
  PROVE  /\ Path(i, F, mbs_ascii_transp_create,
                 F \cup {"transport", "buffer"} \cup {"port", "uart", "bus_sema", "port_task", "timer", "event"})
         /\ Path(i, F, mbm_ascii_transp_create,
                 F \cup {"transport", "buffer"} \cup {"port", "uart", "bus_sema", "port_task", "timer", "event"})
PROOF
<1> DEFINE A == F \cup {"transport", "buffer"}
           B == A \cup {"port", "uart", "bus_sema", "port_task", "timer", "event"}
<1>1. Path(i, F, Gets(<<"transport", "buffer">>), A)
  <2>1. {"transport", "buffer"} \subseteq Resources \ (Controller \cup {"functions"})
    BY DEF Resources, Controller
  <2>2. Sound(i, F \cup {"transport"}) /\ Sound(i, A)
    BY DEF Sound, Events
  <2> QED
    BY <2>1, <2>2, GetsTwo
<1>2. A \in SUBSET Facts /\ Sound(i, A) /\ "transport" \in A
  BY <1>1, PathEnds
<1>3. Path(i, A, SerialPort, B)
  <2> HIDE DEF A
  <2> QED
    BY <1>2, SerialPortCreated
<1> HIDE DEF A
<1>4. Path(i, F, Gets(<<"transport", "buffer">>) \o SerialPort, B)
  <2> HIDE DEF B
  <2> QED
    BY <1>1, <1>3, PathJoin
<1> QED
  BY <1>4 DEF A, mbs_ascii_transp_create, mbm_ascii_transp_create

LEMMA ascii_transp_deleted ==
  ASSUME NEW i, NEW F \in SUBSET Facts, Sound(i, F),
         "started" \notin F, "driver_task" \notin F, F \cap Events = {}
  PROVE  /\ Path(i, F, mbs_ascii_transp_delete,
                 F \ ({"transport", "buffer"} \cup {"port", "uart", "bus_sema", "port_task", "timer", "event"}))
         /\ Path(i, F, mbm_ascii_transp_delete,
                 F \ ({"transport", "buffer"} \cup {"port", "uart", "bus_sema", "port_task", "timer", "event"}))
PROOF
<1> DEFINE A == F \ {"timer", "event", "port_task", "uart", "bus_sema", "port"}
           B == A \ {"transport", "buffer"}
<1>1. Path(i, F, NoSerialPort, A)
  BY SerialPortDeleted
<1>2. A \in SUBSET Facts /\ Sound(i, A)
  BY <1>1, PathEnds
<1>3. Path(i, A, Puts(<<"buffer", "transport">>), B)
  <2>1. {"transport", "buffer"} \subseteq Resources
    BY DEF Resources
  <2>2. Sound(i, A \ {"buffer"}) /\ Sound(i, A \ {"buffer", "transport"})
    BY <1>2 DEF Sound, Events
  <2> HIDE DEF A
  <2>3. B = A \ {"buffer", "transport"}
    OBVIOUS
  <2> HIDE DEF B
  <2> QED
    BY <1>2, <2>1, <2>2, <2>3, PutsTwo
<1> HIDE DEF A
<1>4. Path(i, F, NoSerialPort \o Puts(<<"buffer", "transport">>), B)
  <2> HIDE DEF B
  <2> QED
    BY <1>1, <1>3, PathJoin
<1>5. B = F \ ({"transport", "buffer"} \cup {"port", "uart", "bus_sema", "port_task", "timer", "event"})
  BY DEF A
<1> QED
  BY <1>4, <1>5 DEF mbs_ascii_transp_delete, mbm_ascii_transp_delete

LEMMA mbs_tcp_transp_created ==
  ASSUME NEW i, NEW F \in SUBSET Resources, Sound(i, F)
  PROVE  Path(i, F, mbs_tcp_transp_create,
              F \cup {"transport"} \cup {"port", "transactions"} \cup DriverFacts \cup Events
                \cup {"timer", "event"})
PROOF
<1> DEFINE A == F \cup {"transport"}
           B == A \cup {"port", "transactions"} \cup DriverFacts \cup Events
           C == B \cup {"timer"}
           D == C \cup {"event"}
<1>0. F \in SUBSET Facts
  BY DEF Facts
<1>1. {"transport", "timer", "event"} \subseteq Resources \ (Controller \cup {"functions"})
  BY DEF Resources, Controller
<1>2. Path(i, F, Get("transport"), A)
  <2>1. Sound(i, A)
    BY DEF Sound, Events
  <2> QED
    BY <1>0, <1>1, <2>1, PathGet
<1>3. A \in SUBSET Resources /\ Sound(i, A)
  BY <1>1, <1>2, PathEnds
<1>4. Path(i, A, mbs_port_tcp_create, B)
  <2> HIDE DEF A
  <2> QED
    BY <1>3, mbs_port_tcp_created
<1>5. B \in SUBSET Facts /\ Sound(i, B)
  BY <1>4, PathEnds
<1>6. Path(i, B, mb_port_timer_create, C)
  <2>1. Sound(i, C)
    BY <1>5 DEF Sound, Events
  <2> HIDE DEF B
  <2> QED
    BY <1>1, <1>5, <2>1, PathGet DEF mb_port_timer_create
<1>7. C \in SUBSET Facts /\ Sound(i, C)
  BY <1>6, PathEnds
<1>8. Path(i, C, mb_port_event_create, D)
  <2>1. Sound(i, D)
    BY <1>7 DEF Sound, Events
  <2> HIDE DEF C
  <2> QED
    BY <1>1, <1>7, <2>1, PathGet DEF mb_port_event_create
<1>9. Path(i, F, mbs_tcp_transp_create, D)
  <2> HIDE DEF A, B, C, D
  <2> QED
    BY <1>2, <1>4, <1>6, <1>8, PathJoin DEF mbs_tcp_transp_create
<1>10. D = F \cup {"transport"} \cup {"port", "transactions"} \cup DriverFacts \cup Events \cup {"timer", "event"}
  OBVIOUS
<1> QED
  BY <1>9, <1>10

LEMMA mbs_tcp_transp_deleted ==
  ASSUME NEW i, NEW F \in SUBSET Facts, Sound(i, F), Resting(F), i \notin TcpMasters,
         "looped" \in F, Events \subseteq F, "port_task" \notin F
  PROVE  Path(i, F, mbs_tcp_transp_delete,
              F \ ({"transport"} \cup {"port", "transactions"} \cup DriverFacts \cup Events
                     \cup {"timer", "event"}))
PROOF
<1> DEFINE A == F \ {"timer"}
           B == A \ {"event"}
           C == B \ ({"transactions", "port"} \cup DriverFacts \cup Events)
           D == C \ {"transport"}
<1>1. {"transport", "timer", "event"} \subseteq Resources
  BY DEF Resources
<1>2. Path(i, F, mb_port_timer_delete, A)
  <2>1. Sound(i, A)
    BY DEF Sound, Events, Resting
  <2> QED
    BY <1>1, <2>1, PathPut DEF mb_port_timer_delete
<1>3. A \in SUBSET Facts /\ Sound(i, A)
  BY <1>2, PathEnds
<1>4. Path(i, A, mb_port_event_delete, B)
  <2>1. Sound(i, B)
    BY <1>3 DEF Sound, Events, Resting
  <2> HIDE DEF A
  <2> QED
    BY <1>1, <1>3, <2>1, PathPut DEF mb_port_event_delete
<1>5. B \in SUBSET Facts /\ Sound(i, B)
  BY <1>4, PathEnds
<1>6. Path(i, B, mbs_port_tcp_delete, C)
  <2>1. Resting(B) /\ "looped" \in B /\ Events \subseteq B /\ "timer" \notin B /\ "port_task" \notin B
    BY DEF Resting, Events
  <2> HIDE DEF B
  <2> QED
    BY <1>5, <2>1, mbs_port_tcp_deleted
<1>7. C \in SUBSET Facts /\ Sound(i, C)
  BY <1>6, PathEnds
<1>8. Path(i, C, Put("transport"), D)
  <2>1. Sound(i, D)
    BY <1>7 DEF Sound, Events, Resting
  <2> HIDE DEF C
  <2> QED
    BY <1>1, <1>7, <2>1, PathPut
<1>9. Path(i, F, mbs_tcp_transp_delete, D)
  <2> HIDE DEF A, B, C, D
  <2> QED
    BY <1>2, <1>4, <1>6, <1>8, PathJoin DEF mbs_tcp_transp_delete
<1>10. D = F \ ({"transport"} \cup {"port", "transactions"} \cup DriverFacts \cup Events \cup {"timer", "event"})
  OBVIOUS
<1> QED
  BY <1>9, <1>10

LEMMA mbm_tcp_transp_created ==
  ASSUME NEW i, NEW F \in SUBSET Resources, Sound(i, F)
  PROVE  Path(i, F, mbm_tcp_transp_create,
              F \cup {"transport"} \cup {"port"} \cup DriverFacts \cup Events
                \cup {"timer", "event"})
PROOF
<1> DEFINE A == F \cup {"transport"}
           B == A \cup {"port"} \cup DriverFacts \cup Events
           C == B \cup {"timer"}
           D == C \cup {"event"}
<1>0. F \in SUBSET Facts
  BY DEF Facts
<1>1. {"transport", "timer", "event"} \subseteq Resources \ (Controller \cup {"functions"})
  BY DEF Resources, Controller
<1>2. Path(i, F, Get("transport"), A)
  <2>1. Sound(i, A)
    BY DEF Sound, Events
  <2> QED
    BY <1>0, <1>1, <2>1, PathGet
<1>3. A \in SUBSET Resources /\ Sound(i, A)
  BY <1>1, <1>2, PathEnds
<1>4. Path(i, A, mbm_port_tcp_create, B)
  <2> HIDE DEF A
  <2> QED
    BY <1>3, mbm_port_tcp_created
<1>5. B \in SUBSET Facts /\ Sound(i, B)
  BY <1>4, PathEnds
<1>6. Path(i, B, mb_port_timer_create, C)
  <2>1. Sound(i, C)
    BY <1>5 DEF Sound, Events
  <2> HIDE DEF B
  <2> QED
    BY <1>1, <1>5, <2>1, PathGet DEF mb_port_timer_create
<1>7. C \in SUBSET Facts /\ Sound(i, C)
  BY <1>6, PathEnds
<1>8. Path(i, C, mb_port_event_create, D)
  <2>1. Sound(i, D)
    BY <1>7 DEF Sound, Events
  <2> HIDE DEF C
  <2> QED
    BY <1>1, <1>7, <2>1, PathGet DEF mb_port_event_create
<1>9. Path(i, F, mbm_tcp_transp_create, D)
  <2> HIDE DEF A, B, C, D
  <2> QED
    BY <1>2, <1>4, <1>6, <1>8, PathJoin DEF mbm_tcp_transp_create
<1>10. D = F \cup {"transport"} \cup {"port"} \cup DriverFacts \cup Events \cup {"timer", "event"}
  OBVIOUS
<1> QED
  BY <1>9, <1>10

LEMMA mbm_tcp_transp_deleted ==
  ASSUME NEW i, NEW F \in SUBSET Facts, Sound(i, F), Resting(F),
         "looped" \in F, "port_task" \notin F
  PROVE  Path(i, F, mbm_tcp_transp_delete,
              F \ ({"transport"} \cup {"port"} \cup DriverFacts \cup Events
                     \cup {"timer", "event"}))
PROOF
<1> DEFINE A == F \ {"timer"}
           B == A \ {"event"}
           C == B \ ({"port"} \cup DriverFacts \cup Events)
           D == C \ {"transport"}
<1>1. {"transport", "timer", "event"} \subseteq Resources
  BY DEF Resources
<1>2. Path(i, F, mb_port_timer_delete, A)
  <2>1. Sound(i, A)
    BY DEF Sound, Events, Resting
  <2> QED
    BY <1>1, <2>1, PathPut DEF mb_port_timer_delete
<1>3. A \in SUBSET Facts /\ Sound(i, A)
  BY <1>2, PathEnds
<1>4. Path(i, A, mb_port_event_delete, B)
  <2>1. Sound(i, B)
    BY <1>3 DEF Sound, Events, Resting
  <2> HIDE DEF A
  <2> QED
    BY <1>1, <1>3, <2>1, PathPut DEF mb_port_event_delete
<1>5. B \in SUBSET Facts /\ Sound(i, B)
  BY <1>4, PathEnds
<1>6. Path(i, B, mbm_port_tcp_delete, C)
  <2>1. Resting(B) /\ "looped" \in B /\ "timer" \notin B /\ "port_task" \notin B
    BY DEF Resting, Events
  <2> HIDE DEF B
  <2> QED
    BY <1>5, <2>1, mbm_port_tcp_deleted
<1>7. C \in SUBSET Facts /\ Sound(i, C)
  BY <1>6, PathEnds
<1>8. Path(i, C, Put("transport"), D)
  <2>1. Sound(i, D)
    BY <1>7 DEF Sound, Events, Resting
  <2> HIDE DEF C
  <2> QED
    BY <1>1, <1>7, <2>1, PathPut
<1>9. Path(i, F, mbm_tcp_transp_delete, D)
  <2> HIDE DEF A, B, C, D
  <2> QED
    BY <1>2, <1>4, <1>6, <1>8, PathJoin DEF mbm_tcp_transp_delete
<1>10. D = F \ ({"transport"} \cup {"port"} \cup DriverFacts \cup Events \cup {"timer", "event"})
  OBVIOUS
<1> QED
  BY <1>9, <1>10

\* The transport of each kind, and nothing else, goes with frm_delete.
LEMMA TransportDeleted ==
  ASSUME NEW i \in Inst, NEW F \in SUBSET Facts, Sound(i, F), Resting(F),
         F \ (Controller \cup {"alive", "object", "functions"}) = TransportOf(i)
  PROVE  Path(i, F, FrmDelete(i), F \ TransportOf(i))
PROOF
<1>0. TransportOf(i) \subseteq F
  OBVIOUS
<1>1. ASSUME i \notin Tcp
      PROVE  "started" \notin F /\ "driver_task" \notin F /\ F \cap Events = {}
  <2>1. "driver_task" \notin TransportOf(i) /\ TransportOf(i) \cap Events = {}
    BY <1>1 DEF TransportOf, Events, Tcp
  <2>2. "driver_task" \notin Controller \cup {"alive", "object", "functions"}
        /\ Events \cap (Controller \cup {"alive", "object", "functions"}) = {}
    BY DEF Controller, Events
  <2> QED
    BY <2>1, <2>2 DEF Resting
<1>2. ASSUME i \in Tcp
      PROVE  "looped" \in F /\ Events \subseteq F /\ "port_task" \notin F
  <2>1. "looped" \in TransportOf(i) /\ Events \subseteq TransportOf(i) /\ "port_task" \notin TransportOf(i)
    BY <1>2 DEF TransportOf, DriverFacts, Events, Tcp
  <2>2. "port_task" \notin Controller \cup {"alive", "object", "functions"}
    BY DEF Controller
  <2> QED
    BY <1>0, <2>1, <2>2
<1>3. CASE i \in RtuSlaves
  <2>1. FrmDelete(i) = mbs_rtu_transp_delete
    BY <1>3, Kinds DEF FrmDelete
  <2>2. TransportOf(i) = {"transport"} \cup {"port", "uart", "bus_sema", "port_task", "timer", "event"}
    BY <1>3, Kinds DEF TransportOf
  <2> QED
    BY <1>1, <1>3, <2>1, <2>2, Kinds, rtu_transp_deleted
<1>4. CASE i \in AsciiSlaves
  <2>1. FrmDelete(i) = mbs_ascii_transp_delete
    BY <1>4, Kinds DEF FrmDelete
  <2>2. TransportOf(i) = {"transport", "buffer"}
                           \cup {"port", "uart", "bus_sema", "port_task", "timer", "event"}
    BY <1>4, Kinds DEF TransportOf
  <2> QED
    BY <1>1, <1>4, <2>1, <2>2, Kinds, ascii_transp_deleted
<1>5. CASE i \in TcpSlaves
  <2>1. FrmDelete(i) = mbs_tcp_transp_delete
    BY <1>5, Kinds DEF FrmDelete
  <2>2. TransportOf(i) = {"transport"} \cup {"port", "transactions"} \cup DriverFacts \cup Events
                           \cup {"timer", "event"}
    BY <1>5, Kinds DEF TransportOf
  <2> QED
    BY <1>2, <1>5, <2>1, <2>2, Kinds, mbs_tcp_transp_deleted
<1>6. CASE i \in RtuMasters
  <2>1. FrmDelete(i) = mbm_rtu_transp_delete
    BY <1>6, Kinds DEF FrmDelete
  <2>2. TransportOf(i) = {"transport"} \cup {"port", "uart", "bus_sema", "port_task", "timer", "event"}
    BY <1>6, Kinds DEF TransportOf
  <2> QED
    BY <1>1, <1>6, <2>1, <2>2, Kinds, rtu_transp_deleted
<1>7. CASE i \in AsciiMasters
  <2>1. FrmDelete(i) = mbm_ascii_transp_delete
    BY <1>7, Kinds DEF FrmDelete
  <2>2. TransportOf(i) = {"transport", "buffer"}
                           \cup {"port", "uart", "bus_sema", "port_task", "timer", "event"}
    BY <1>7, Kinds DEF TransportOf
  <2> QED
    BY <1>1, <1>7, <2>1, <2>2, Kinds, ascii_transp_deleted
<1>8. CASE i \in TcpMasters
  <2>1. FrmDelete(i) = mbm_tcp_transp_delete
    BY <1>8, Kinds DEF FrmDelete
  <2>2. TransportOf(i) = {"transport"} \cup {"port"} \cup DriverFacts \cup Events
                           \cup {"timer", "event"}
    BY <1>8, Kinds DEF TransportOf
  <2> QED
    BY <1>2, <1>8, <2>1, <2>2, Kinds, mbm_tcp_transp_deleted
<1> QED
  BY <1>3, <1>4, <1>5, <1>6, <1>7, <1>8, Kinds

\* Taking down a disabled object leaves what the controller has.
LEMMA ObjectDeleted ==
  ASSUME NEW i \in Inst, NEW F \in SUBSET Facts, Sound(i, F), Resting(F),
         F \ (Controller \cup {"alive", "object", "functions"}) = TransportOf(i)
  PROVE  Path(i, F, ObjectDelete(i), F \cap (Controller \cup {"alive"}))
PROOF
<1> DEFINE A == F \ TransportOf(i)
           B == A \ {"functions"}
           C == B \ {"object"}
<1>1. Path(i, F, FrmDelete(i), A)
  BY TransportDeleted
<1>2. A \in SUBSET Facts /\ Sound(i, A) /\ A \subseteq Controller \cup {"alive", "object", "functions"}
  BY <1>1, PathEnds
<1>3. "functions" \in Resources /\ "object" \in Resources
  BY DEF Resources
<1>4. Path(i, A, Put("functions"), B)
  <2>1. Sound(i, B)
    BY <1>2 DEF Sound, Events, Controller
  <2> HIDE DEF A
  <2> QED
    BY <1>2, <1>3, <2>1, PathPut
<1>5. B \in SUBSET Facts /\ Sound(i, B)
  BY <1>4, PathEnds
<1>6. Path(i, B, Put("object"), C)
  <2>1. Sound(i, C)
    BY <1>2, <1>5 DEF Sound, Events, Controller
  <2> HIDE DEF B
  <2> QED
    BY <1>3, <1>5, <2>1, PathPut
<1>7. Path(i, F, ObjectDelete(i), C)
  <2>1. ObjectDelete(i) = FrmDelete(i) \o Put("functions") \o Put("object")
    BY DEF ObjectDelete, mbs_unregister_handlers, mbm_unregister_handlers
  <2> HIDE DEF A, B, C
  <2> QED
    BY <1>1, <1>4, <1>6, <2>1, PathJoin
<1>8. C = F \cap (Controller \cup {"alive"})
  <2>1. TransportOf(i) \cap (Controller \cup {"alive", "object", "functions"}) = {}
    OBVIOUS
  <2>2. {"object", "functions"} \cap (Controller \cup {"alive"}) = {}
    BY DEF Controller
  <2> QED
    BY <2>1, <2>2
<1> QED
  BY <1>7, <1>8

-------------------------------------------------------------------------------
(* The controllers.                                                        *)

LEMMA LinkGetController ==
  ASSUME NEW i, NEW F, NEW r \in Controller, Sound(i, F), Sound(i, F \cup {r}),
         F \subseteq Controller \ {"task"}
  PROVE  Link(i, F, Step("get", r), F \cup {r})
PROOF
<1>1. r \in Resources /\ r # "functions" /\ F \cup {r} \in SUBSET Facts
  BY DEF Resources, Controller, Facts
<1>2. F \cup {r} = After(Step("get", r), F)
  BY StepIs DEF After
<1>3. Allowed(i, Step("get", r), F)
  BY <1>1, StepIs DEF Allowed
<1> QED
  BY <1>1, <1>2, <1>3 DEF Link

LEMMA SoundController ==
  ASSUME NEW i, NEW F \in SUBSET (Controller \cup {"alive"}),
         "task" \in F => {"iface", "event_group"} \subseteq F
  PROVE  Sound(i, F)
PROOF
  BY DEF Sound, Controller, Events

\* A controller is made of its interface, its event group, its queue or its
\* semaphore, and its task, in this order.
LEMMA ControllerCreated ==
  ASSUME NEW i, NEW c \in {"queue", "mbm_sema"}
  PROVE  Path(i, {}, Gets(<<"iface", "event_group", c, "task">>), {"iface", "event_group", c, "task"})
PROOF
<1> DEFINE A == {} \cup {"iface"}
           B == A \cup {"event_group"}
           C == B \cup {c}
           D == C \cup {"task"}
           rs == <<"iface", "event_group", c, "task">>
<1>1. {"iface", "event_group", c, "task"} \subseteq Controller /\ Controller \subseteq Things
  BY DEF Controller, Resources, Things
<1>2. Sound(i, {}) /\ Sound(i, A) /\ Sound(i, B) /\ Sound(i, C) /\ Sound(i, D)
  BY SoundController DEF Controller
<1>3. Link(i, {}, Step("get", "iface"), A)
  BY <1>1, <1>2, LinkGetController DEF Controller
<1>4. Link(i, A, Step("get", "event_group"), B)
  <2>1. A \subseteq Controller \ {"task"}
    BY DEF Controller
  <2> HIDE DEF A
  <2> QED
    BY <1>1, <1>2, <2>1, LinkGetController
<1>5. Link(i, B, Step("get", c), C)
  <2>1. B \subseteq Controller \ {"task"}
    BY DEF Controller
  <2> HIDE DEF B
  <2> QED
    BY <1>1, <1>2, <2>1, LinkGetController
<1>6. Link(i, C, Step("get", "task"), D)
  <2>1. C \subseteq Controller \ {"task"}
    BY DEF Controller
  <2> HIDE DEF C
  <2> QED
    BY <1>1, <1>2, <2>1, LinkGetController
<1>7. /\ Gets(rs) \in Seq(Steps) /\ Len(Gets(rs)) = 4
      /\ Gets(rs)[1] = Step("get", "iface") /\ Gets(rs)[2] = Step("get", "event_group")
      /\ Gets(rs)[3] = Step("get", c) /\ Gets(rs)[4] = Step("get", "task")
  <2>1. /\ rs \in Seq(Things) /\ Len(rs) = 4
        /\ rs[1] = "iface" /\ rs[2] = "event_group" /\ rs[3] = c /\ rs[4] = "task"
    BY <1>1
  <2>2. "get" \in Ops
    BY DEF Ops
  <2> HIDE DEF rs
  <2> QED
    BY <2>1, <2>2, EachIs DEF Gets
<1>8. Path(i, {}, Gets(rs), D)
  <2>1. {} \in SUBSET Facts
    OBVIOUS
  <2> HIDE DEF A, B, C, D, rs
  <2> QED
    BY <1>3, <1>4, <1>5, <1>6, <1>7, <2>1, PathOfFour
<1>9. D = {"iface", "event_group", c, "task"}
  OBVIOUS
<1> QED
  BY <1>8, <1>9

\* What each kind creates for its transport, and with it for its object.
TransportCreate(i) ==
  CASE i \in RtuSlaves    -> mbs_rtu_transp_create
    [] i \in AsciiSlaves  -> mbs_ascii_transp_create
    [] i \in TcpSlaves    -> mbs_tcp_transp_create
    [] i \in RtuMasters   -> mbm_rtu_transp_create
    [] i \in AsciiMasters -> mbm_ascii_transp_create
    [] i \in TcpMasters   -> mbm_tcp_transp_create

ObjectCreate(i) == Get("object") \o TransportCreate(i) \o Get("functions")

LEMMA TransportCreated ==
  ASSUME NEW i \in Inst, NEW F \in SUBSET Resources, Sound(i, F)
  PROVE  Path(i, F, TransportCreate(i), F \cup TransportOf(i))
PROOF
<1>0. F \in SUBSET Facts
  BY DEF Facts
<1>1. CASE i \in RtuSlaves
  <2>1. TransportCreate(i) = mbs_rtu_transp_create
    BY <1>1, Kinds DEF TransportCreate
  <2>2. TransportOf(i) = {"transport"} \cup {"port", "uart", "bus_sema", "port_task", "timer", "event"}
    BY <1>1, Kinds DEF TransportOf
  <2>3. Path(i, F, mbs_rtu_transp_create, F \cup {"transport"} \cup {"port", "uart", "bus_sema", "port_task", "timer", "event"})
    BY <1>0, rtu_transp_created
  <2> QED
    BY <2>1, <2>2, <2>3
<1>2. CASE i \in AsciiSlaves
  <2>1. TransportCreate(i) = mbs_ascii_transp_create
    BY <1>2, Kinds DEF TransportCreate
  <2>2. TransportOf(i) = {"transport", "buffer"} \cup {"port", "uart", "bus_sema", "port_task", "timer", "event"}
    BY <1>2, Kinds DEF TransportOf
  <2>3. Path(i, F, mbs_ascii_transp_create, F \cup {"transport", "buffer"} \cup {"port", "uart", "bus_sema", "port_task", "timer", "event"})
    BY <1>0, ascii_transp_created
  <2> QED
    BY <2>1, <2>2, <2>3
<1>3. CASE i \in TcpSlaves
  <2>1. TransportCreate(i) = mbs_tcp_transp_create
    BY <1>3, Kinds DEF TransportCreate
  <2>2. TransportOf(i) = {"transport"} \cup {"port", "transactions"} \cup DriverFacts \cup Events
                           \cup {"timer", "event"}
    BY <1>3, Kinds DEF TransportOf
  <2>3. Path(i, F, mbs_tcp_transp_create, F \cup {"transport"} \cup {"port", "transactions"} \cup DriverFacts \cup Events
                             \cup {"timer", "event"})
    BY <1>0, mbs_tcp_transp_created
  <2> QED
    BY <2>1, <2>2, <2>3
<1>4. CASE i \in RtuMasters
  <2>1. TransportCreate(i) = mbm_rtu_transp_create
    BY <1>4, Kinds DEF TransportCreate
  <2>2. TransportOf(i) = {"transport"} \cup {"port", "uart", "bus_sema", "port_task", "timer", "event"}
    BY <1>4, Kinds DEF TransportOf
  <2>3. Path(i, F, mbm_rtu_transp_create, F \cup {"transport"} \cup {"port", "uart", "bus_sema", "port_task", "timer", "event"})
    BY <1>0, rtu_transp_created
  <2> QED
    BY <2>1, <2>2, <2>3
<1>5. CASE i \in AsciiMasters
  <2>1. TransportCreate(i) = mbm_ascii_transp_create
    BY <1>5, Kinds DEF TransportCreate
  <2>2. TransportOf(i) = {"transport", "buffer"} \cup {"port", "uart", "bus_sema", "port_task", "timer", "event"}
    BY <1>5, Kinds DEF TransportOf
  <2>3. Path(i, F, mbm_ascii_transp_create, F \cup {"transport", "buffer"} \cup {"port", "uart", "bus_sema", "port_task", "timer", "event"})
    BY <1>0, ascii_transp_created
  <2> QED
    BY <2>1, <2>2, <2>3
<1>6. CASE i \in TcpMasters
  <2>1. TransportCreate(i) = mbm_tcp_transp_create
    BY <1>6, Kinds DEF TransportCreate
  <2>2. TransportOf(i) = {"transport"} \cup {"port"} \cup DriverFacts \cup Events
                           \cup {"timer", "event"}
    BY <1>6, Kinds DEF TransportOf
  <2>3. Path(i, F, mbm_tcp_transp_create, F \cup {"transport"} \cup {"port"} \cup DriverFacts \cup Events
                             \cup {"timer", "event"})
    BY <1>0, mbm_tcp_transp_created
  <2> QED
    BY <2>1, <2>2, <2>3
<1> QED
  BY <1>1, <1>2, <1>3, <1>4, <1>5, <1>6, Kinds

LEMMA LinkFunctions ==
  ASSUME NEW i, Sound(i, Whole(i) \ {"functions"}), Whole(i) \in SUBSET Facts
  PROVE  Link(i, Whole(i) \ {"functions"}, Step("get", "functions"), Whole(i))
PROOF
<1> DEFINE F == Whole(i) \ {"functions"}
<1>1. F \cup {"functions"} = Whole(i)
  BY DEF Whole, ObjectOf
<1>2. "functions" \in Resources \ {"task", "timer", "port_task"} /\ "functions" \notin Controller
  BY DEF Resources, Controller
<1>3. Sound(i, Whole(i))
  BY <1>1, <1>2, SoundMore
<1>4. F \cup {"functions"} = After(Step("get", "functions"), F)
  BY StepIs DEF After
<1>5. Allowed(i, Step("get", "functions"), F)
  BY <1>2, StepIs DEF Allowed
<1> QED
  BY <1>1, <1>3, <1>4, <1>5 DEF Link

LEMMA WholeIsFacts ==
  ASSUME NEW i
  PROVE  /\ Whole(i) \in SUBSET Facts /\ Whole(i) \cap {"started", "enabled", "alive", "lost"} = {}
         /\ ControllerOf(i) \subseteq Controller /\ ObjectOf(i) \cap Controller = {}
         /\ Whole(i) \cap {"opening", "sema", "SHUTDOWN"} = {}
PROOF
  BY DEF Whole, ControllerOf, ObjectOf, TransportOf, DriverFacts, Facts, Resources, Events, Marks,
         Controller

LEMMA ObjectCreated ==
  ASSUME NEW i \in Inst, Sound(i, ControllerOf(i))
  PROVE  Path(i, ControllerOf(i), ObjectCreate(i), Whole(i))
PROOF
<1> DEFINE A == ControllerOf(i) \cup {"object"}
           B == A \cup TransportOf(i)
<1>1. ControllerOf(i) \in SUBSET Facts /\ "object" \in Resources \ (Controller \cup {"functions"})
      /\ A \in SUBSET Resources
  BY WholeIsFacts DEF Resources, Controller, Facts
<1>2. Path(i, ControllerOf(i), Get("object"), A)
  <2>1. Sound(i, A)
    BY <1>1, SoundMore DEF Controller
  <2> HIDE DEF A
  <2>2. A = ControllerOf(i) \cup {"object"}
    BY DEF A
  <2> QED
    BY <1>1, <2>1, <2>2, PathGet
<1>3. Path(i, A, TransportCreate(i), B)
  <2>1. Sound(i, A)
    BY <1>2, PathEnds
  <2> HIDE DEF A
  <2> QED
    BY <1>1, <2>1, TransportCreated
<1>4. B = Whole(i) \ {"functions"}
  <2>1. "functions" \notin TransportOf(i) /\ "functions" \notin ControllerOf(i)
    BY DEF TransportOf, ControllerOf, DriverFacts, Events
  <2> QED
    BY <2>1 DEF Whole, ObjectOf
<1>5. Path(i, B, Get("functions"), Whole(i))
  <2>1. Sound(i, B)
    BY <1>3, PathEnds
  <2>2. Link(i, B, Step("get", "functions"), Whole(i))
    BY <1>4, <2>1, LinkFunctions, WholeIsFacts
  <2>3. Get("functions") \in Seq(Steps) /\ Len(Get("functions")) = 1
        /\ Get("functions")[1] = Step("get", "functions")
    <3> DEFINE rs == <<"functions">>
    <3>1. rs \in Seq(Things) /\ Len(rs) = 1 /\ rs[1] = "functions"
      BY DEF Things, Resources
    <3>2. "get" \in Ops
      BY DEF Ops
    <3> HIDE DEF rs
    <3>3. Get("functions") = Each("get", rs)
      BY DEF Get, Gets, rs
    <3> QED
      BY <3>1, <3>2, <3>3, EachIs
  <2>4. B \in SUBSET Facts
    BY <1>3, PathEnds
  <2> HIDE DEF B
  <2> QED
    BY <2>2, <2>3, <2>4, PathOfOne
<1>6. Path(i, ControllerOf(i), ObjectCreate(i), Whole(i))
  <2> HIDE DEF A, B
  <2> QED
    BY <1>2, <1>3, <1>5, PathJoin DEF ObjectCreate
<1> QED
  BY <1>6

\* A call of mbc_..._create that meets no failure.
LEMMA CreateGoesWell ==
  ASSUME NEW i \in Inst
  PROVE  Path(i, {}, CreateOf(i) \o Do(<<"created">>), Whole(i) \cup {"alive"})
PROOF
<1> DEFINE c == IF i \in Slaves THEN "queue" ELSE "mbm_sema"
           controller == Gets(<<"iface", "event_group", c, "task">>)
<1>1. Path(i, {}, controller, ControllerOf(i))
  <2>1. ControllerOf(i) = {"iface", "event_group", c, "task"} /\ c \in {"queue", "mbm_sema"}
    BY DEF ControllerOf
  <2> HIDE DEF c
  <2> QED
    BY <2>1, ControllerCreated
<1>2. Path(i, ControllerOf(i), ObjectCreate(i), Whole(i))
  BY <1>1, PathEnds, ObjectCreated
<1>3. CreateOf(i) = controller \o ObjectCreate(i)
  <2>1. CASE i \in RtuSlaves
    <3>1. CreateOf(i) = mbc_serial_slave_create(i) /\ c = "queue"
      BY <2>1, Kinds DEF CreateOf
    <3>2. TransportCreate(i) = mbs_rtu_transp_create
      BY <2>1, Kinds DEF TransportCreate
    <3> QED
      BY <2>1, <3>1, <3>2, Kinds
         DEF mbc_serial_slave_create, mbc_serial_slave_controller_create, ObjectCreate,
             mbs_rtu_create, mbs_register_default_handlers
  <2>2. CASE i \in AsciiSlaves
    <3>1. CreateOf(i) = mbc_serial_slave_create(i) /\ c = "queue"
      BY <2>2, Kinds DEF CreateOf
    <3>2. TransportCreate(i) = mbs_ascii_transp_create
      BY <2>2, Kinds DEF TransportCreate
    <3> QED
      BY <2>2, <3>1, <3>2, Kinds
         DEF mbc_serial_slave_create, mbc_serial_slave_controller_create, ObjectCreate,
             mbs_ascii_create, mbs_register_default_handlers
  <2>3. CASE i \in TcpSlaves
    <3>1. CreateOf(i) = mbc_tcp_slave_create /\ c = "queue"
      BY <2>3, Kinds DEF CreateOf
    <3>2. TransportCreate(i) = mbs_tcp_transp_create
      BY <2>3, Kinds DEF TransportCreate
    <3> QED
      BY <2>3, <3>1, <3>2, Kinds
         DEF mbc_tcp_slave_create, mbc_tcp_slave_controller_create, ObjectCreate,
             mbs_tcp_create, mbs_register_default_handlers
  <2>4. CASE i \in RtuMasters
    <3>1. CreateOf(i) = mbc_serial_master_create(i) /\ c = "mbm_sema"
      BY <2>4, Kinds DEF CreateOf
    <3>2. TransportCreate(i) = mbm_rtu_transp_create
      BY <2>4, Kinds DEF TransportCreate
    <3> QED
      BY <2>4, <3>1, <3>2, Kinds
         DEF mbc_serial_master_create, mbc_serial_master_controller_create, ObjectCreate,
             mbm_rtu_create, mbm_register_default_handlers
  <2>5. CASE i \in AsciiMasters
    <3>1. CreateOf(i) = mbc_serial_master_create(i) /\ c = "mbm_sema"
      BY <2>5, Kinds DEF CreateOf
    <3>2. TransportCreate(i) = mbm_ascii_transp_create
      BY <2>5, Kinds DEF TransportCreate
    <3> QED
      BY <2>5, <3>1, <3>2, Kinds
         DEF mbc_serial_master_create, mbc_serial_master_controller_create, ObjectCreate,
             mbm_ascii_create, mbm_register_default_handlers
  <2>6. CASE i \in TcpMasters
    <3>1. CreateOf(i) = mbc_tcp_master_create /\ c = "mbm_sema"
      BY <2>6, Kinds DEF CreateOf
    <3>2. TransportCreate(i) = mbm_tcp_transp_create
      BY <2>6, Kinds DEF TransportCreate
    <3> QED
      BY <2>6, <3>1, <3>2, Kinds
         DEF mbc_tcp_master_create, mbc_tcp_master_controller_create, ObjectCreate,
             mbm_tcp_create, mbm_register_default_handlers
  <2> QED
    BY <2>1, <2>2, <2>3, <2>4, <2>5, <2>6, Kinds
<1>4. Path(i, Whole(i), Do(<<"created">>), Whole(i) \cup {"alive"})
  <2> DEFINE W == Whole(i) \cup {"alive"}
  <2>1. Sound(i, Whole(i)) /\ Whole(i) \in SUBSET Facts
    BY <1>2, PathEnds
  <2>2. Sound(i, W)
    BY <2>1 DEF Sound, Events
  <2>3. W \in SUBSET Facts
    BY <2>1 DEF Facts, Marks
  <2>4. W = After(Note("created"), Whole(i))
    BY StepIs DEF After
  <2>5. Allowed(i, Note("created"), Whole(i))
    BY StepIs DEF Allowed
  <2>6. Link(i, Whole(i), Note("created"), W)
    BY <2>1, <2>2, <2>3, <2>4, <2>5 DEF Link
  <2>7. "created" \in Ops
    BY DEF Ops
  <2> HIDE DEF W
  <2>8. Path(i, Whole(i), Do(<<"created">>), W)
    BY <2>1, <2>6, <2>7, DoOne
  <2> QED
    BY <2>8 DEF W
<1> HIDE DEF controller
<1> QED
  BY <1>1, <1>2, <1>3, <1>4, PathJoin

-------------------------------------------------------------------------------
(* start, stop and delete of an instance in use.                           *)

\* What is said of an instance in use does not depend on whether it is started.
LEMMA WorkingFacts ==
  ASSUME NEW i \in Inst, NEW F \in SUBSET Facts, Sound(i, F), Working(i, F)
  PROVE  /\ Whole(i) \subseteq F /\ "alive" \in F
         /\ F \cap {"opening", "sema", "SHUTDOWN", "lost"} = {}
         /\ Sound(i, F \ {"started"}) /\ Working(i, F \ {"started"})
         /\ Sound(i, F \cup {"enabled"}) /\ Working(i, F \cup {"enabled"})
         /\ Sound(i, F \cup {"started"}) /\ Working(i, F \cup {"started"})
PROOF
<1>1. /\ Whole(i) \subseteq F /\ "alive" \in F
      /\ F \cap {"opening", "sema", "SHUTDOWN", "lost"} = {}
  BY WholeIsFacts DEF Working
<1>2. Working(i, F \ {"started"}) /\ Working(i, F \cup {"enabled"}) /\ Working(i, F \cup {"started"})
  BY DEF Working
<1>3. Sound(i, F \ {"started"})
  BY DEF Sound, Events
<1>4. Sound(i, F \cup {"enabled"})
  <2>1. i \in Tcp => Events \subseteq F
    BY <1>1 DEF Whole, ObjectOf, TransportOf
  <2> QED
    BY <2>1 DEF Sound, Events
<1>5. Sound(i, F \cup {"started"})
  <2>1. {"task", "object", "functions", "transport", "timer", "event", "port"} \subseteq F
    BY <1>1 DEF Whole, ControllerOf, ObjectOf, TransportOf
  <2> QED
    BY <2>1 DEF Sound, Events
<1> QED
  BY <1>1, <1>2, <1>3, <1>4, <1>5

LEMMA LinkWorking ==
  ASSUME NEW i \in Inst, NEW F \in SUBSET Facts, Sound(i, F), Working(i, F)
  PROVE  /\ Link(i, F, Note("enable"), F \cup {"enabled"})
         /\ Link(i, F, Note("enabled"), F \cup {"enabled"})
         /\ Link(i, F, Note("await_CONNECTED"), F)
         /\ Link(i, F, Note("set_STARTED"), F \cup {"started"})
         /\ Link(i, F, Note("clear_STARTED"), F \ {"started"})
         /\ Link(i, F, Note("clear_STARTED_late"), F \ {"started"})
         /\ Link(i, F, Note("stop_active"), F \ {"started"})
PROOF
<1>1. /\ Sound(i, F \ {"started"}) /\ Sound(i, F \cup {"enabled"}) /\ Sound(i, F \cup {"started"})
  BY WorkingFacts
<1>2. F \cup {"enabled"} \in SUBSET Facts /\ F \cup {"started"} \in SUBSET Facts
  BY DEF Facts, Marks
<1>3. \A op \in {"enable", "enabled", "await_CONNECTED", "set_STARTED", "clear_STARTED",
                 "clear_STARTED_late", "stop_active"} : Allowed(i, Note(op), F)
  BY StepIs DEF Allowed
<1>4. /\ After(Note("enable"), F) = F \cup {"enabled"}
      /\ After(Note("enabled"), F) = F \cup {"enabled"}
      /\ After(Note("await_CONNECTED"), F) = F
      /\ After(Note("set_STARTED"), F) = F \cup {"started"}
  BY StepIs DEF After
<1>5. /\ After(Note("clear_STARTED"), F) = F \ {"started"}
      /\ After(Note("clear_STARTED_late"), F) = F \ {"started"}
      /\ After(Note("stop_active"), F) = F \ {"started"}
  BY StepIs DEF After
<1> QED
  BY <1>1, <1>2, <1>3, <1>4, <1>5 DEF Link

LEMMA StartGoesWell ==
  ASSUME NEW i \in Inst, NEW F \in SUBSET Facts, Sound(i, F), Working(i, F)
  PROVE  /\ Path(i, F, IF i \in Slaves THEN mbc_slave_start(i) ELSE mbc_master_start(i),
                 F \cup {"enabled"} \cup {"started"})
         /\ Path(i, F, FrmStart(i) \o Do(<<"enabled">>), F \cup {"enabled"})
PROOF
<1> DEFINE A == F \cup {"enabled"}
           B == A \cup {"started"}
<1>1. A \in SUBSET Facts /\ Sound(i, A) /\ Working(i, A)
  BY WorkingFacts DEF Facts, Marks
<1>2. Link(i, F, Note("enable"), A) /\ Link(i, F, Note("enabled"), A)
  BY LinkWorking
<1> HIDE DEF A
<1>3. Link(i, A, Note("await_CONNECTED"), A) /\ Link(i, A, Note("set_STARTED"), B)
  BY <1>1, LinkWorking
<1> HIDE DEF B
<1>4. Path(i, F, Do(<<"enable", "set_STARTED">>), B)
  <2>1. {"enable", "set_STARTED"} \subseteq Ops
    BY DEF Ops
  <2> QED
    BY <1>2, <1>3, <2>1, DoTwo
<1>5. Path(i, F, Do(<<"enable", "await_CONNECTED", "set_STARTED">>), B)
  <2>1. {"enable", "await_CONNECTED", "set_STARTED"} \subseteq Ops
    BY DEF Ops
  <2> QED
    BY <1>2, <1>3, <2>1, DoThree
<1>6. Path(i, F, IF i \in Slaves THEN mbc_slave_start(i) ELSE mbc_master_start(i), B)
  BY <1>4, <1>5 DEF mbc_slave_start, mbc_master_start, mbc_tcp_slave_start,
     mbc_serial_slave_start, mbc_tcp_master_start, mbc_serial_master_start
<1>7. Path(i, F, Do(<<"enabled">>), A)
  <2>1. "enabled" \in Ops
    BY DEF Ops
  <2> QED
    BY <1>2, <2>1, DoOne
<1>8. Path(i, F, Do(<<"resume">>), F) /\ Path(i, F, Do(<<"clear_DISCONNECTED">>), F)
  <2>1. "resume" \in Ops /\ "clear_DISCONNECTED" \in Ops
    BY DEF Ops
  <2>2. Link(i, F, Note("resume"), F) /\ Link(i, F, Note("clear_DISCONNECTED"), F)
    BY LinkIdle DEF Idle
  <2> QED
    BY <2>1, <2>2, DoOne
<1>9. Path(i, F, <<>>, F)
  BY PathNone
<1>10. Path(i, F, Do(<<"resume">>) \o Do(<<"clear_DISCONNECTED">>), F)
  BY <1>8, PathJoin
<1>11. Path(i, F, FrmStart(i), F)
  <2>1. CASE i \in TcpSlaves
    BY <1>8, <2>1, Kinds DEF FrmStart, mbs_port_tcp_enable, mb_drv_start_task
  <2>2. CASE i \in TcpMasters
    BY <1>10, <2>2, Kinds DEF FrmStart, mbm_port_tcp_enable, mb_drv_start_task
  <2>3. CASE i \notin TcpSlaves /\ i \notin TcpMasters
    BY <1>9, <2>3 DEF FrmStart
  <2> QED
    BY <2>1, <2>2, <2>3
<1> QED
  BY <1>6, <1>7, <1>11, PathJoin DEF A, B

LEMMA StopGoesWell ==
  ASSUME NEW i \in Inst, NEW F \in SUBSET Facts, Sound(i, F), Working(i, F)
  PROVE  Path(i, F, StopOf(i), F \ {"started"})
PROOF
<1> DEFINE A == F \ {"started"}
<1>1. A \in SUBSET Facts /\ Sound(i, A)
  BY WorkingFacts
<1>2. Link(i, F, Note("clear_STARTED"), A) /\ Link(i, F, Note("clear_STARTED_late"), A)
  BY LinkWorking
<1>3. Link(i, F, Note("disable"), F)
  BY LinkIdle DEF Idle
<1> HIDE DEF A
<1>4. Link(i, A, Note("disable"), A) /\ Link(i, A, Note("inactive"), A)
  BY <1>1, LinkIdle DEF Idle
<1>5. {"clear_STARTED", "clear_STARTED_late", "disable", "inactive"} \subseteq Ops
  BY DEF Ops
<1>6. Path(i, F, Do(<<"clear_STARTED", "disable", "inactive">>), A)
  BY <1>2, <1>4, <1>5, DoThree
<1>7. Path(i, F, Do(<<"clear_STARTED_late", "disable", "inactive">>), A)
  BY <1>2, <1>4, <1>5, DoThree
<1>8. Path(i, F, Do(<<"disable", "clear_STARTED", "inactive">>), A)
  BY <1>2, <1>3, <1>4, <1>5, DoThree
<1> QED
  BY <1>6, <1>7, <1>8
     DEF A, StopOf, mbc_slave_stop, mbc_master_stop, mbc_tcp_slave_stop, mbc_serial_slave_stop,
         mbc_tcp_master_stop, mbc_serial_master_stop

\* What mbs_disable and mbm_disable may put before the rest of the call.
LEMMA DisableGoesWell ==
  ASSUME NEW i, NEW F \in SUBSET Facts, Sound(i, F)
  PROVE  Path(i, F, FrmStop(i) \o Do(<<"disabled">>), F)
PROOF
<1>1. {"post_CLOSE", "await_DISCONNECTED", "disabled"} \subseteq Ops
  BY DEF Ops
<1>2. /\ Link(i, F, Note("post_CLOSE"), F) /\ Link(i, F, Note("await_DISCONNECTED"), F)
      /\ Link(i, F, Note("disabled"), F)
  BY LinkIdle DEF Idle
<1>3. Path(i, F, Do(<<"post_CLOSE", "await_DISCONNECTED">>), F)
  BY <1>1, <1>2, DoTwo
<1>4. Path(i, F, <<>>, F)
  BY PathNone
<1>5. Path(i, F, FrmStop(i), F)
  BY <1>3, <1>4 DEF FrmStop, mbs_port_tcp_disable, mbm_port_tcp_disable
<1>6. Path(i, F, Do(<<"disabled">>), F)
  BY <1>1, <1>2, DoOne
<1> QED
  BY <1>5, <1>6, PathJoin

\* A call of mbc_..._delete that may delete the object leaves nothing.
LEMMA DeleteGoesWell ==
  ASSUME NEW i \in Inst, NEW F \in SUBSET Facts, Sound(i, F), Working(i, F)
  PROVE  Path(i, F, (IF i \in Slaves THEN mbc_slave_delete(i) ELSE mbc_master_delete(i))
                      \o Do(<<"deleted">>), {})
PROOF
<1> DEFINE c == IF i \in Slaves THEN "queue" ELSE "mbm_sema"
           A == F \ {"started"}
           B == A \ {"task", "event_group", c}
<1>1. A \in SUBSET Facts /\ Sound(i, A) /\ Working(i, A)
  BY WorkingFacts
<1>2. Path(i, F, Do(<<"stop_active">>), A)
  <2>1. Link(i, F, Note("stop_active"), A)
    BY LinkWorking
  <2>2. "stop_active" \in Ops
    BY DEF Ops
  <2> HIDE DEF A
  <2> QED
    BY <2>1, <2>2, DoOne
<1>3. Path(i, A, Puts(<<"task", "event_group", c>>), B)
  <2>1. {"task", "event_group", c} \subseteq Resources
    BY DEF Resources, Controller
  <2>2. "started" \notin A
    OBVIOUS
  <2>3. c \in {"queue", "mbm_sema"}
    OBVIOUS
  <2> HIDE DEF A, c
  <2>4. /\ Sound(i, A \ {"task"}) /\ Sound(i, A \ {"task", "event_group"})
        /\ Sound(i, A \ {"task", "event_group", c})
    BY <1>1, <2>2, <2>3 DEF Sound, Events
  <2> QED
    BY <1>1, <2>1, <2>4, PutsThree
<1>4. B \in SUBSET Facts /\ Sound(i, B)
  BY <1>3, PathEnds
<1>5. /\ "task" \notin B /\ B \ ({"enabled"} \cup Controller) = ObjectOf(i) \cup {"alive"}
      /\ B \cap (Controller \cup {"alive"}) = {"iface", "alive"}
  <2>1. A \ {"enabled"} = Whole(i) \cup {"alive"}
    BY <1>1 DEF Working
  <2>2. /\ ObjectOf(i) \cap Controller = {} /\ ControllerOf(i) = {"iface", "event_group", "task", c}
        /\ "alive" \notin Controller /\ "enabled" \notin ObjectOf(i) \cup Controller \cup {"alive"}
        /\ {"iface", "event_group", "task", c} \subseteq Controller
        /\ "alive" \notin ObjectOf(i) /\ c # "iface"
    BY WholeIsFacts DEF ControllerOf, Controller, Whole
  <2>3. Whole(i) = ControllerOf(i) \cup ObjectOf(i)
    BY DEF Whole
  <2> HIDE DEF c, A
  <2> QED
    BY <2>1, <2>2, <2>3
<1>6. Path(i, B, Do(<<"object_delete">>), {"iface", "alive"})
  <2> HIDE DEF B
  <2>1. After(Note("object_delete"), B) = {"iface", "alive"}
    BY <1>5, StepIs DEF After
  <2>2. Allowed(i, Note("object_delete"), B)
    BY <1>5, StepIs DEF Allowed
  <2>3. Sound(i, {"iface", "alive"}) /\ {"iface", "alive"} \in SUBSET Facts
    BY SoundController DEF Controller, Facts, Resources, Marks
  <2>4. Link(i, B, Note("object_delete"), {"iface", "alive"})
    BY <1>4, <2>1, <2>2, <2>3 DEF Link
  <2>5. "object_delete" \in Ops
    BY DEF Ops
  <2> QED
    BY <1>4, <2>4, <2>5, DoOne
<1>7. Path(i, {"iface", "alive"}, Put("iface"), {"alive"})
  <2>1. Sound(i, {"iface", "alive"}) /\ {"iface", "alive"} \in SUBSET Facts /\ "iface" \in Resources
    BY <1>6, PathEnds DEF Resources, Controller
  <2>2. {"iface", "alive"} \ {"iface"} = {"alive"}
    OBVIOUS
  <2>3. Sound(i, {"alive"})
    BY SoundController
  <2> QED
    BY <2>1, <2>2, <2>3, PathPut
<1>8. Path(i, {"alive"}, Do(<<"deleted">>), {})
  <2>1. After(Note("deleted"), {"alive"}) = {}
    BY StepIs DEF After
  <2>2. Allowed(i, Note("deleted"), {"alive"})
    BY StepIs DEF Allowed
  <2>3. Sound(i, {}) /\ Sound(i, {"alive"}) /\ {"alive"} \in SUBSET Facts
    BY SoundController DEF Facts, Marks
  <2>4. Link(i, {"alive"}, Note("deleted"), {})
    BY <2>1, <2>2, <2>3 DEF Link
  <2>5. "deleted" \in Ops
    BY DEF Ops
  <2> QED
    BY <2>3, <2>4, <2>5, DoOne
<1>9. Path(i, F, Do(<<"stop_active">>) \o Puts(<<"task", "event_group", c>>)
                   \o Do(<<"object_delete">>), {"iface", "alive"})
  <2> HIDE DEF A, B, c
  <2> QED
    BY <1>2, <1>3, <1>6, PathJoin
<1>10. (IF i \in Slaves THEN mbc_slave_delete(i) ELSE mbc_master_delete(i))
         = Do(<<"stop_active">>) \o Puts(<<"task", "event_group", c>>)
             \o Do(<<"object_delete">>) \o Put("iface")
  BY DEF mbc_slave_delete, mbc_master_delete, mbc_tcp_slave_delete, mbc_serial_slave_delete,
     mbc_tcp_master_delete, mbc_serial_master_delete
<1> HIDE DEF c
<1> QED
  BY <1>7, <1>8, <1>9, <1>10, PathJoin

-------------------------------------------------------------------------------
(* The error paths.                                                        *)

LEMMA LeadsJoin ==
  ASSUME NEW i, NEW p, NEW q, NEW F, NEW G, Path(i, F, p, G), Leads(i, G, q)
  PROVE  Leads(i, F, p \o q)
PROOF
  BY PathJoin DEF Leads

\* A call that fails leaves the instance absent if it left nothing, else lost.
LEMMA AbandonedLeads ==
  ASSUME NEW i, NEW F \in SUBSET Facts, Sound(i, F),
         F \cap Resources = {} => F \subseteq {"alive"},
         "driver" \in F <=> "counted" \in F, F \cap {"sema", "opening", "SHUTDOWN"} = {}
  PROVE  Leads(i, F, Do(<<"abandoned">>))
PROOF
<1> DEFINE G == IF F \cap Resources = {} THEN {} ELSE (F \ {"alive"}) \cup {"lost"}
<1>1. G = After(Note("abandoned"), F)
  BY StepIs DEF After
<1>2. G \in SUBSET Facts
  BY DEF Facts, Marks
<1>3. AtRest(i, G)
  BY DEF AtRest
<1>4. Sound(i, G)
  BY DEF Sound, Events
<1>5. Allowed(i, Note("abandoned"), F)
  BY <1>1, <1>3, StepIs DEF Allowed
<1>6. Link(i, F, Note("abandoned"), G)
  BY <1>1, <1>2, <1>4, <1>5 DEF Link
<1>7. "abandoned" \in Ops
  BY DEF Ops
<1> HIDE DEF G
<1>8. Path(i, F, Do(<<"abandoned">>), G)
  BY <1>6, <1>7, DoOne
<1> QED
  BY <1>2, <1>3, <1>8 DEF Leads

LEMMA AbandonedController ==
  ASSUME NEW i, NEW F \in SUBSET Controller, Sound(i, F)
  PROVE  Leads(i, F, Do(<<"abandoned">>))
PROOF
<1>1. F \in SUBSET Facts /\ F \subseteq Resources /\ "driver" \notin F /\ "counted" \notin F
      /\ F \cap {"sema", "opening", "SHUTDOWN"} = {}
  BY DEF Controller, Resources, Facts
<1> QED
  BY <1>1, AbandonedLeads

\* The error paths of the controllers free what they know of.
LEMMA IfaceFreed ==
  ASSUME NEW i, NEW F \in SUBSET Controller, Sound(i, F)
  PROVE  /\ Leads(i, F, mbc_serial_slave_iface_free \o Do(<<"abandoned">>))
         /\ Leads(i, F, mbc_serial_master_iface_free \o Do(<<"abandoned">>))
         /\ mbc_serial_slave_iface_free \in Seq(Steps) /\ mbc_serial_master_iface_free \in Seq(Steps)
PROOF
<1>1. F \in SUBSET Facts /\ {"task", "event_group", "queue", "iface"} \subseteq Resources
      /\ {"task", "event_group", "iface"} \subseteq Resources
  BY DEF Controller, Resources, Facts
<1>2. \A G \in SUBSET F : "task" \notin G => G \in SUBSET Controller /\ Sound(i, G)
  BY SoundController
<1>3. Path(i, F, mbc_serial_slave_iface_free, F \ {"task", "event_group", "queue", "iface"})
  <2>1. /\ Sound(i, F \ {"task"}) /\ Sound(i, F \ {"task", "event_group"})
        /\ Sound(i, F \ {"task", "event_group", "queue"})
        /\ Sound(i, F \ {"task", "event_group", "queue", "iface"})
    BY <1>2
  <2> QED
    BY <1>1, <2>1, PutsFour DEF mbc_serial_slave_iface_free
<1>4. Path(i, F, mbc_serial_master_iface_free, F \ {"task", "event_group", "iface"})
  <2>1. /\ Sound(i, F \ {"task"}) /\ Sound(i, F \ {"task", "event_group"})
        /\ Sound(i, F \ {"task", "event_group", "iface"})
    BY <1>2
  <2> QED
    BY <1>1, <2>1, PutsThree DEF mbc_serial_master_iface_free
<1>5. Leads(i, F \ {"task", "event_group", "queue", "iface"}, Do(<<"abandoned">>))
  BY <1>2, AbandonedController
<1>6. Leads(i, F \ {"task", "event_group", "iface"}, Do(<<"abandoned">>))
  BY <1>2, AbandonedController
<1> QED
  BY <1>3, <1>4, <1>5, <1>6, LeadsJoin, PathEnds

\* The registration of the default handlers fails.
LEMMA FunctionsFailLeads ==
  ASSUME NEW i \in Inst, Sound(i, Whole(i) \ {"functions"})
  PROVE  Leads(i, Whole(i) \ {"functions"},
               ObjectDelete(i)
               \o (CASE i \in RtuSlaves \cup AsciiSlaves   -> mbc_serial_slave_iface_free
                     [] i \in RtuMasters \cup AsciiMasters -> mbc_serial_master_iface_free
                     [] OTHER -> <<>>)
               \o Do(<<"abandoned">>))
PROOF
<1> DEFINE F == Whole(i) \ {"functions"}
           G == F \cap (Controller \cup {"alive"})
<1>1. F \in SUBSET Facts /\ Resting(F)
  BY WholeIsFacts DEF Resting
<1>2. F \ (Controller \cup {"alive", "object", "functions"}) = TransportOf(i)
  <2>1. TransportOf(i) \cap (Controller \cup {"alive", "object", "functions"}) = {}
    BY DEF TransportOf, DriverFacts, Events, Controller
  <2>2. ControllerOf(i) \subseteq Controller
    BY WholeIsFacts
  <2> QED
    BY <2>1, <2>2 DEF Whole, ObjectOf
<1>3. Path(i, F, ObjectDelete(i), G)
  BY <1>1, <1>2, ObjectDeleted
<1>4. G \in SUBSET Controller
  BY WholeIsFacts
<1>5. Sound(i, G)
  BY <1>3, PathEnds
<1> HIDE DEF F, G
<1>6. /\ Leads(i, G, mbc_serial_slave_iface_free \o Do(<<"abandoned">>))
      /\ Leads(i, G, mbc_serial_master_iface_free \o Do(<<"abandoned">>))
      /\ Leads(i, G, Do(<<"abandoned">>))
  BY <1>4, <1>5, IfaceFreed, AbandonedController
<1>7. ASSUME NEW q, q \in Seq(Steps), Leads(i, G, q \o Do(<<"abandoned">>))
      PROVE  Leads(i, F, ObjectDelete(i) \o q \o Do(<<"abandoned">>))
  <2>1. ObjectDelete(i) \in Seq(Steps)
    BY <1>3, PathEnds
  <2>2. Do(<<"abandoned">>) \in Seq(Steps)
    <3> DEFINE ops == <<"abandoned">>
    <3>1. ops \in Seq(Ops)
      BY DEF Ops
    <3> HIDE DEF ops
    <3>2. Do(ops) \in Seq(Steps)
      BY <3>1, DoIs
    <3> QED
      BY <3>2 DEF ops
  <2>3. (ObjectDelete(i) \o q) \o Do(<<"abandoned">>) = ObjectDelete(i) \o (q \o Do(<<"abandoned">>))
    BY <1>7, <2>1, <2>2, ConcatAssociative
  <2> QED
    BY <1>3, <1>7, <2>3, LeadsJoin
<1>8. CASE i \in RtuSlaves \cup AsciiSlaves
  <2>1. mbc_serial_slave_iface_free \in Seq(Steps)
    BY <1>4, <1>5, IfaceFreed
  <2> QED
    BY <1>6, <1>7, <1>8, <2>1, Kinds DEF F
<1>9. CASE i \in RtuMasters \cup AsciiMasters
  <2>1. mbc_serial_master_iface_free \in Seq(Steps)
    BY <1>4, <1>5, IfaceFreed
  <2> QED
    BY <1>6, <1>7, <1>9, <2>1, Kinds DEF F
<1>10. CASE i \notin RtuSlaves \cup AsciiSlaves /\ i \notin RtuMasters \cup AsciiMasters
  <2>1. Leads(i, F, ObjectDelete(i) \o <<>> \o Do(<<"abandoned">>))
    <3>1. ObjectDelete(i) \o <<>> = ObjectDelete(i)
      BY <1>3, PathEnds, ConcatEmptySeq
    <3> QED
      BY <1>3, <1>6, <3>1, LeadsJoin
  <2> QED
    BY <1>10, <2>1 DEF F
<1> QED
  BY <1>8, <1>9, <1>10

\* An object that is still enabled is not deleted; a slave loses its interface.
LEMMA NotDeletedLeads ==
  ASSUME NEW i \in Inst, NEW F \in SUBSET Facts, Sound(i, F), "task" \notin F,
         F \ ({"enabled"} \cup Controller) = ObjectOf(i) \cup {"alive"}
  PROVE  Leads(i, F, (IF i \in Slaves THEN Put("iface") ELSE <<>>) \o Do(<<"abandoned">>))
PROOF
<1> DEFINE A == IF i \in Slaves THEN F \ {"iface"} ELSE F
<1>1. Path(i, F, IF i \in Slaves THEN Put("iface") ELSE <<>>, A)
  <2>1. Sound(i, F \ {"iface"})
    BY DEF Sound, Events
  <2>2. "iface" \in Resources
    BY DEF Resources, Controller
  <2>3. Path(i, F, Put("iface"), F \ {"iface"}) /\ Path(i, F, <<>>, F)
    BY <2>1, <2>2, PathPut, PathNone
  <2> QED
    BY <2>3
<1>2. A \in SUBSET Facts /\ Sound(i, A)
  BY <1>1, PathEnds
<1>3. ObjectOf(i) \subseteq A /\ A \subseteq ObjectOf(i) \cup Controller \cup {"enabled", "alive"}
  <2>1. "iface" \notin ObjectOf(i)
    BY WholeIsFacts DEF Controller
  <2> QED
    BY <2>1
<1>4. "object" \in ObjectOf(i) /\ "object" \in Resources
  BY DEF ObjectOf, Resources
<1>5. ObjectOf(i) \cap {"sema", "opening", "SHUTDOWN"} = {} /\ ("driver" \in ObjectOf(i) <=> "counted" \in ObjectOf(i))
  BY DEF ObjectOf, TransportOf, DriverFacts, Events
<1>6. (Controller \cup {"enabled", "alive"}) \cap {"sema", "opening", "SHUTDOWN", "driver", "counted"} = {}
  BY DEF Controller
<1>7. Leads(i, A, Do(<<"abandoned">>))
  <2> HIDE DEF A
  <2>1. A \cap {"sema", "opening", "SHUTDOWN"} = {} /\ ("driver" \in A <=> "counted" \in A) /\ A \cap Resources # {}
    BY <1>3, <1>4, <1>5, <1>6
  <2> QED
    BY <1>2, <2>1, AbandonedLeads
<1> QED
  BY <1>1, <1>7, LeadsJoin
-------------------------------------------------------------------------------
(* The invariant.                                                          *)

\* The variables of an instance agree with its facts.  A TCP slave's ERROR
\* handler may stand in the loop without being one of them; what is said of
\* the driver's task ends when a task is stopped inside a handler.
Shows(i, F) ==
  /\ held[i] = F \cap Resources
  /\ life[i] = "alive" <=> "alive" \in F
  /\ life[i] = "lost" <=> "lost" \in F
  /\ sema[i] # "none" => "sema" \in F
  /\ \A e \in Events : /\ e \in F => <<i, e>> \in inLoop
                       /\ <<i, e>> \in inLoop /\ ~(i \in TcpSlaves /\ e = "ERROR") => e \in F
  /\ started[i] => "started" \in F
  /\ state[i] = "ENABLED" => "enabled" \in F
  /\ "SHUTDOWN" \in F => "SHUTDOWN" \in flags[i]
  /\ i \in Tcp /\ "looped" \in F => loop
  /\ i \in Tcp /\ "opening" \in F => i \in counting
  /\ ~loopHeld =>
       /\ drv[i] # "none" => "driver_task" \in F
       /\ sema[i] = "given" /\ "SHUTDOWN" \in flags[i] => drv[i] = "none"

Counts(F) == loopCount = Cardinality({i \in Tcp : "counted" \in F[i]})

\* As long as the calls are apart the loop exists from the first registration
\* on to the last.
LoopKept(F) ==
  apart => (loop <=> loopCount > 0 \/ \E i \in Tcp : "opening" \in F[i])

\* Calls that are apart are between their two looks one at a time.
OneCounts == apart => \A i, j \in counting : i = j

\* The programs go well from the facts F, and the variables agree with them.
Follows(F) ==
  /\ todo \in [Inst -> Seq(Steps)] /\ held \in [Inst -> SUBSET Resources]
  /\ inLoop \subseteq Tcp \X Events
  /\ \A i \in Inst : Leads(i, F[i], todo[i]) /\ Shows(i, F[i])
  /\ Counts(F) /\ LoopKept(F) /\ OneCounts

Followed == \E F \in [Inst -> SUBSET Facts] : Follows(F)

Ranges ==
  /\ life \in [Inst -> {"absent", "alive", "lost"}]
  /\ state \in [Inst -> {"NOT_INITIALIZED", "DISABLED", "ENABLED"}]
  /\ started \in [Inst -> BOOLEAN] /\ active \in [Inst -> BOOLEAN]
  /\ connected \in [Inst -> BOOLEAN]
  /\ drv \in [Inst -> {"none", "running", "suspended"}]
  /\ flags \in [Inst -> SUBSET {"SUSPEND", "SHUTDOWN", "DISCONNECTED"}]
  /\ sema \in [Inst -> {"none", "empty", "given"}]
  /\ loop \in BOOLEAN /\ loopHeld \in BOOLEAN /\ loopCount \in Nat
  /\ apart \in BOOLEAN /\ counting \subseteq Tcp
  /\ queue \in Seq(Tcp \X Events) /\ Len(queue) <= MaxQueue
  /\ faults \in 0 .. MaxFaults

IInv == Ranges /\ Followed

-------------------------------------------------------------------------------
(* What the steps of a program are allowed to find.                        *)

LEMMA TcpInst == Tcp \subseteq Inst /\ TcpSlaves \subseteq Tcp /\ TcpMasters \subseteq Tcp
PROOF
  BY DEF Tcp, Inst, Slaves, Masters

LEMMA FactsApart ==
  /\ Resources \cap Events = {} /\ Resources \cap Marks = {} /\ Events \cap Marks = {}
  /\ Resources \subseteq Facts /\ Events \subseteq Facts /\ Marks \subseteq Facts
  /\ \A m \in Marks : m \notin Resources /\ m \notin Events
PROOF
  BY DEF Resources, Controller, Events, Marks, Facts

\* The next step of a call in progress is allowed, and the rest goes well.
LEMMA Goes ==
  ASSUME NEW F \in [Inst -> SUBSET Facts], Follows(F), NEW i \in Inst, todo[i] # <<>>
  PROVE  \E s \in Steps : \E G \in SUBSET Facts :
           /\ s = Head(todo[i]) /\ G = After(s, F[i]) /\ Allowed(i, s, F[i])
           /\ Sound(i, F[i]) /\ Sound(i, G) /\ Leads(i, G, Tail(todo[i]))
PROOF
<1>1. PICK H \in SUBSET Facts : Path(i, F[i], todo[i], H) /\ AtRest(i, H)
  BY DEF Follows, Leads
<1> DEFINE s == Head(todo[i])
           G == After(s, F[i])
<1>2. Link(i, F[i], s, G) /\ Path(i, G, Tail(todo[i]), H)
  BY <1>1, PathStep
<1>3. s \in Steps
  BY <1>1, PathEnds
<1>4. G \in SUBSET Facts /\ Allowed(i, s, F[i]) /\ Sound(i, F[i]) /\ Sound(i, G)
  BY <1>2 DEF Link
<1>5. Leads(i, G, Tail(todo[i]))
  BY <1>1, <1>2 DEF Leads
<1> HIDE DEF s, G
<1>6. s = Head(todo[i]) /\ G = After(s, F[i])
  BY DEF s, G
<1> QED
  BY <1>3, <1>4, <1>5, <1>6

\* An instance without a call in progress is at rest.
LEMMA Rests ==
  ASSUME NEW F \in [Inst -> SUBSET Facts], Follows(F), NEW i \in Inst
  PROVE  /\ Sound(i, F[i])
         /\ todo[i] = <<>> => AtRest(i, F[i])
PROOF
<1>1. PICK H \in SUBSET Facts : Path(i, F[i], todo[i], H) /\ AtRest(i, H)
  BY DEF Follows, Leads
<1> QED
  BY <1>1, PathEnds

\* Nothing is left to do, and the facts are those of an instance at rest.
LEMMA NothingToDo ==
  ASSUME NEW i, NEW F \in SUBSET Facts, Sound(i, F), AtRest(i, F)
  PROVE  Leads(i, F, <<>>)
PROOF
  BY PathNone DEF Leads

LEMMA LeadsIsProgram ==
  ASSUME NEW i, NEW F, NEW p, Leads(i, F, p)
  PROVE  p \in Seq(Steps)
PROOF
  BY PathEnds DEF Leads

LEMMA CountedFinite ==
  ASSUME NEW F \in [Inst -> SUBSET Facts]
  PROVE  IsFiniteSet({i \in Tcp : "counted" \in F[i]})
PROOF
<1>1. IsFiniteSet(Tcp)
  BY InstancesAssumption
<1> QED
  BY <1>1, FS_Subset
-------------------------------------------------------------------------------
(* How a step keeps the invariant.                                         *)

\* A step of instance i gives it the facts G and leaves it the program p.
LEMMA Advance ==
  ASSUME NEW F \in [Inst -> SUBSET Facts], Follows(F), NEW i \in Inst, NEW G \in SUBSET Facts,
         NEW p, Leads(i, G, p), todo' = [todo EXCEPT ![i] = p],
         held' \in [Inst -> SUBSET Resources], (inLoop \subseteq Tcp \X Events)',
         Shows(i, G)', \A j \in Inst : j # i => Shows(j, F[j])',
         OneCounts', Counts([F EXCEPT ![i] = G])', LoopKept([F EXCEPT ![i] = G])'
  PROVE  Followed'
PROOF
<1> DEFINE H == [F EXCEPT ![i] = G]
<1>1. H \in [Inst -> SUBSET Facts] /\ H[i] = G /\ \A j \in Inst : j # i => H[j] = F[j]
  OBVIOUS
<1>2. todo \in [Inst -> Seq(Steps)]
  BY DEF Follows
<1>3. p \in Seq(Steps)
  BY LeadsIsProgram
<1>4. todo' \in [Inst -> Seq(Steps)] /\ todo'[i] = p /\ \A j \in Inst : j # i => todo'[j] = todo[j]
  BY <1>2, <1>3
<1>5. \A j \in Inst : Leads(j, H[j], todo[j])'
  BY <1>1, <1>4 DEF Follows
<1>6. \A j \in Inst : Shows(j, H[j])'
  BY <1>1
<1>8. Counts(H)' /\ LoopKept(H)'
  OBVIOUS
<1> HIDE DEF H
<1>9. Follows(H)'
  BY <1>4, <1>5, <1>6, <1>8 DEF Follows
<1> QED
  BY <1>1, <1>9 DEF Followed

\* The part of a step that does not touch what the instances share.
Untouched(j) ==
  /\ held'[j] = held[j] /\ life'[j] = life[j] /\ started'[j] = started[j]
  /\ state'[j] = state[j] /\ drv'[j] = drv[j] /\ flags'[j] = flags[j] /\ sema'[j] = sema[j]

LEMMA Move ==
  ASSUME NEW F \in [Inst -> SUBSET Facts], Follows(F), NEW i \in Inst, NEW G \in SUBSET Facts,
         NEW p, Leads(i, G, p), todo' = [todo EXCEPT ![i] = p],
         held' \in [Inst -> SUBSET Resources], UNCHANGED shared,
         Shows(i, G)', \A j \in Inst : j # i => Untouched(j),
         "counted" \in G <=> "counted" \in F[i], "opening" \in G <=> "opening" \in F[i]
  PROVE  Followed'
PROOF
<1> DEFINE H == [F EXCEPT ![i] = G]
<1>1. UNCHANGED <<inLoop, loop, loopCount, counting, apart, loopHeld, queue>>
  BY DEF shared, counts
<1>2. (inLoop \subseteq Tcp \X Events)' /\ OneCounts'
  BY <1>1 DEF Follows, OneCounts
<1>3. \A j \in Inst : j # i => Shows(j, F[j])'
  <2> SUFFICES ASSUME NEW j \in Inst, j # i PROVE Shows(j, F[j])'
    OBVIOUS
  <2>1. Shows(j, F[j]) /\ Untouched(j)
    BY DEF Follows
  <2> QED
    BY <1>1, <2>1 DEF Shows, Untouched
<1>4. \A j \in Tcp : ("counted" \in H[j] <=> "counted" \in F[j])
                     /\ ("opening" \in H[j] <=> "opening" \in F[j])
  BY TcpInst
<1> HIDE DEF H
<1>5. {j \in Tcp : "counted" \in H[j]} = {j \in Tcp : "counted" \in F[j]}
  BY <1>4
<1>6. Counts(H)'
  BY <1>1, <1>5 DEF Follows, Counts
<1>7. LoopKept(H)'
  BY <1>1, <1>4 DEF Follows, LoopKept
<1> QED
  BY <1>2, <1>3, <1>6, <1>7, Advance DEF H

\* A step of i that leaves its facts, and all variables but its program.
LEMMA Turn ==
  ASSUME NEW F \in [Inst -> SUBSET Facts], Follows(F), NEW i \in Inst, NEW p,
         Leads(i, F[i], p), todo' = [todo EXCEPT ![i] = p],
         UNCHANGED <<held, life, started, state, drv, flags, sema, shared>>
  PROVE  Followed'
PROOF
<1>1. held' \in [Inst -> SUBSET Resources] /\ UNCHANGED shared
  BY DEF Follows
<1>2. \A j \in Inst : Untouched(j)
  BY DEF Untouched
<1>3. Shows(i, F[i])'
  BY <1>2 DEF Follows, Shows, Untouched, shared, counts
<1>4. F[i] \in SUBSET Facts
  OBVIOUS
<1> QED
  BY <1>1, <1>2, <1>3, <1>4, Move

\* A step that is not one of a call.
LEMMA Aside ==
  ASSUME NEW F \in [Inst -> SUBSET Facts], Follows(F),
         UNCHANGED <<todo, held, inLoop, loop, loopCount, counting, apart>>,
         \A j \in Inst : Shows(j, F[j])'
  PROVE  Followed'
PROOF
<1>1. todo' \in [Inst -> Seq(Steps)] /\ held' \in [Inst -> SUBSET Resources]
      /\ (inLoop \subseteq Tcp \X Events)'
  BY DEF Follows
<1>2. \A j \in Inst : Leads(j, F[j], todo[j])'
  BY DEF Follows
<1>3. Counts(F)' /\ LoopKept(F)' /\ OneCounts'
  BY DEF Follows, Counts, LoopKept, OneCounts
<1>4. Follows(F)'
  BY <1>1, <1>2, <1>3 DEF Follows
<1> QED
  BY <1>4 DEF Followed

\* A chip that has just started.
Fresh ==
  /\ todo = [i \in Inst |-> <<>>]
  /\ life = [i \in Inst |-> "absent"]
  /\ held = [i \in Inst |-> {}]
  /\ state = [i \in Inst |-> "NOT_INITIALIZED"]
  /\ started = [i \in Inst |-> FALSE]
  /\ drv = [i \in Inst |-> "none"]
  /\ flags = [i \in Inst |-> {}]
  /\ sema = [i \in Inst |-> "none"]
  /\ inLoop = {} /\ loop = FALSE /\ loopHeld = FALSE /\ queue = <<>>
  /\ loopCount = 0 /\ counting = {} /\ apart = TRUE

LEMMA FreshFollowed == Fresh => Followed
PROOF
<1> SUFFICES ASSUME Fresh PROVE Followed
  OBVIOUS
<1> DEFINE F == [i \in Inst |-> {}]
<1>1. F \in [Inst -> SUBSET Facts]
  OBVIOUS
<1>2. todo \in [Inst -> Seq(Steps)] /\ held \in [Inst -> SUBSET Resources] /\ inLoop \subseteq Tcp \X Events
  <2>1. <<>> \in Seq(Steps)
    BY EmptySeq
  <2> QED
    BY <2>1 DEF Fresh
<1>3. \A i \in Inst : Leads(i, F[i], todo[i])
  <2> SUFFICES ASSUME NEW i \in Inst PROVE Leads(i, {}, <<>>)
    BY DEF Fresh
  <2>1. Sound(i, {}) /\ AtRest(i, {})
    BY DEF Sound, AtRest
  <2> QED
    BY <2>1, NothingToDo
<1>4. \A i \in Inst : Shows(i, F[i])
  BY DEF Fresh, Shows
<1>5. Counts(F)
  <2>1. {i \in Tcp : "counted" \in F[i]} = {}
    BY TcpInst
  <2> QED
    BY <2>1, FS_EmptySet DEF Fresh, Counts
<1>6. LoopKept(F)
  <2>1. ~ \E i \in Tcp : "opening" \in F[i]
    BY TcpInst
  <2>2. loop = FALSE /\ ~(loopCount > 0)
    BY DEF Fresh
  <2> HIDE DEF F
  <2> QED
    BY <2>1, <2>2 DEF LoopKept
<1>7. OneCounts
  BY DEF Fresh, OneCounts
<1>8. Follows(F)
  <2> HIDE DEF F
  <2> QED
    BY <1>2, <1>3, <1>4, <1>5, <1>6, <1>7 DEF Follows
<1> QED
  BY <1>1, <1>8 DEF Followed

LEMMA PanicFollowed == Panic => Followed'
PROOF
<1>1. Panic => Fresh'
  BY DEF Panic, Fresh
<1>2. Fresh' => Followed'
  BY FreshFollowed, PTL
<1> QED
  BY <1>1, <1>2
-------------------------------------------------------------------------------
(* The steps of the calls.                                                 *)

\* What each step that is not idle makes of the facts.
LEMMA AfterIs ==
  ASSUME NEW s, NEW F
  PROVE  /\ s.op = "get" => After(s, F) = F \cup {s.of}
         /\ s.op = "put" => After(s, F) = F \ {s.of}
         /\ s.op = "register" => After(s, F) = F \cup {s.of, "looped"}
         /\ s.op = "unregister" => After(s, F) = F \ {s.of}
         /\ s.op = "loop_init" => After(s, F) = F \cup {"opening"}
         /\ s.op = "task_create" => After(s, F) = (F \ {"opening"}) \cup {"driver_task", "counted"}
         /\ s.op = "loop_uncount"
              => After(s, F) = (F \ {"counted", "looped", "ERROR"}) \cup {"opening"}
         /\ s.op = "loop_delete" => After(s, F) = F \ {"opening"}
         /\ s.op = "set_SHUTDOWN" => After(s, F) = F \cup {"SHUTDOWN"}
         /\ s.op = "await_shutdown" => After(s, F) = F \ {"SHUTDOWN", "driver_task"}
         /\ s.op = "sema_create" => After(s, F) = F \cup {"sema"}
         /\ s.op = "sema_delete" => After(s, F) = F \ {"sema"}
         /\ s.op = "set_STARTED" => After(s, F) = F \cup {"started"}
         /\ s.op \in {"clear_STARTED", "clear_STARTED_late", "stop_active"}
              => After(s, F) = F \ {"started"}
         /\ s.op \in {"enable", "enabled"} => After(s, F) = F \cup {"enabled"}
         /\ s.op = "object_delete" => After(s, F) = F \cap (Controller \cup {"alive"})
         /\ s.op = "created" => After(s, F) = F \cup {"alive"}
         /\ s.op = "deleted" => After(s, F) = F \ {"alive"}
         /\ s.op = "abandoned" => After(s, F) = IF F \cap Resources = {} THEN {}
                                                ELSE (F \ {"alive"}) \cup {"lost"}
         /\ s.op \in Idle => After(s, F) = F
PROOF
  BY DEF After, Idle

LEMMA BusyRuns ==
  ASSUME NEW i \in Inst, NEW op, Runs(i, op)
  PROVE  i \in Busy /\ todo[i] # <<>> /\ Head(todo[i]).op = op
PROOF
  BY DEF Runs, Busy

\* An allocation, and a release.
LEMMA GetStepFollowed ==
  ASSUME NEW F \in [Inst -> SUBSET Facts], Follows(F), NEW i \in Inst, GetStep(i)
  PROVE  Followed'
PROOF
<1>1. i \in Busy /\ todo[i] # <<>> /\ Head(todo[i]).op = "get"
  BY BusyRuns DEF GetStep
<1>2. PICK s \in Steps : \E G \in SUBSET Facts :
        /\ s = Head(todo[i]) /\ G = After(s, F[i]) /\ Allowed(i, s, F[i])
        /\ Sound(i, F[i]) /\ Sound(i, G) /\ Leads(i, G, Tail(todo[i]))
  BY <1>1, Goes
<1>3. PICK G \in SUBSET Facts :
        /\ s = Head(todo[i]) /\ G = After(s, F[i]) /\ Allowed(i, s, F[i])
        /\ Sound(i, F[i]) /\ Sound(i, G) /\ Leads(i, G, Tail(todo[i]))
  BY <1>2
<1>4. s.of \in Resources /\ G = F[i] \cup {s.of}
  BY <1>1, <1>3, AfterIs DEF Allowed
<1>5. held' = [held EXCEPT ![i] = @ \cup {s.of}]
  BY <1>3 DEF GetStep, Of
<1>6. held \in [Inst -> SUBSET Resources] /\ held[i] = F[i] \cap Resources
  BY DEF Follows, Shows
<1>7. held' \in [Inst -> SUBSET Resources] /\ held'[i] = G \cap Resources
      /\ \A j \in Inst : j # i => held'[j] = held[j]
  BY <1>4, <1>5, <1>6
<1>8. UNCHANGED <<life, state, started, drv, flags, sema, shared>>
  BY DEF GetStep, driver
<1>9. \A m \in Marks \cup Events : m \in G <=> m \in F[i]
  BY <1>4, FactsApart
<1>10. Shows(i, G)'
  BY <1>7, <1>8, <1>9 DEF Follows, Shows, Marks, shared, counts
<1>11. \A j \in Inst : j # i => Untouched(j)
  BY <1>7, <1>8 DEF Untouched
<1>12. todo' = [todo EXCEPT ![i] = Tail(todo[i])]
  BY DEF GetStep, Continue
<1>13. "counted" \in Marks /\ "opening" \in Marks
  BY DEF Marks
<1> QED
  BY <1>1, <1>3, <1>7, <1>8, <1>9, <1>10, <1>11, <1>12, <1>13, Move

LEMMA PutStepFollowed ==
  ASSUME NEW F \in [Inst -> SUBSET Facts], Follows(F), NEW i \in Inst, PutStep(i)
  PROVE  Followed'
PROOF
<1>1. i \in Busy /\ todo[i] # <<>> /\ Head(todo[i]).op = "put"
  BY BusyRuns DEF PutStep
<1>2. PICK s \in Steps, G \in SUBSET Facts :
        /\ s = Head(todo[i]) /\ G = After(s, F[i]) /\ Allowed(i, s, F[i])
        /\ Leads(i, G, Tail(todo[i]))
  BY <1>1, Goes
<1>3. s.of \in Resources /\ G = F[i] \ {s.of}
  BY <1>1, <1>2, AfterIs DEF Allowed
<1>4. held' = [held EXCEPT ![i] = @ \ {s.of}]
  BY <1>2 DEF PutStep, Of
<1>5. held \in [Inst -> SUBSET Resources] /\ held[i] = F[i] \cap Resources
  BY DEF Follows, Shows
<1>6. held' \in [Inst -> SUBSET Resources] /\ held'[i] = G \cap Resources
      /\ \A j \in Inst : j # i => held'[j] = held[j]
  BY <1>3, <1>4, <1>5
<1>7. UNCHANGED <<life, state, started, drv, flags, sema, shared>>
  BY DEF PutStep, driver
<1>8. \A m \in Marks \cup Events : m \in G <=> m \in F[i]
  BY <1>3, FactsApart
<1>9. Shows(i, G)'
  BY <1>6, <1>7, <1>8 DEF Follows, Shows, Marks, shared, counts
<1>10. \A j \in Inst : j # i => Untouched(j)
  BY <1>6, <1>7 DEF Untouched
<1>11. todo' = [todo EXCEPT ![i] = Tail(todo[i])]
  BY DEF PutStep, Continue
<1>12. "counted" \in Marks /\ "opening" \in Marks
  BY DEF Marks
<1> QED
  BY <1>1, <1>2, <1>6, <1>7, <1>8, <1>9, <1>10, <1>11, <1>12, Move

\* The two failures of a create that are no panic: the facts do not change,
\* and the error path goes well from them.
LEMMA ControllerFailsFollowed ==
  ASSUME NEW F \in [Inst -> SUBSET Facts], Follows(F), NEW i \in Inst, ControllerFails(i)
  PROVE  Followed'
PROOF
<1>1. i \in Busy /\ todo[i] # <<>> /\ Head(todo[i]).op = "get" /\ Head(todo[i]).of \in Controller
  BY BusyRuns DEF ControllerFails, Of
<1>2. PICK s \in Steps, G \in SUBSET Facts :
        s = Head(todo[i]) /\ Allowed(i, s, F[i]) /\ Sound(i, F[i])
  BY <1>1, Goes
<1>3. F[i] \in SUBSET Controller
  BY <1>1, <1>2 DEF Allowed
<1> DEFINE p == (IF i \in RtuSlaves \cup AsciiSlaves THEN mbc_serial_slave_iface_free
                 ELSE mbc_serial_master_iface_free) \o Do(<<"abandoned">>)
<1>4. Leads(i, F[i], p)
  BY <1>2, <1>3, IfaceFreed
<1>5. todo' = [todo EXCEPT ![i] = p]
  BY DEF ControllerFails
<1>6. UNCHANGED <<held, life, started, state, drv, flags, sema, shared>>
  BY DEF ControllerFails, own, driver
<1> HIDE DEF p
<1> QED
  BY <1>1, <1>4, <1>5, <1>6, Turn

LEMMA FunctionsFailFollowed ==
  ASSUME NEW F \in [Inst -> SUBSET Facts], Follows(F), NEW i \in Inst, FunctionsFail(i)
  PROVE  Followed'
PROOF
<1>1. i \in Busy /\ todo[i] # <<>> /\ Head(todo[i]).op = "get" /\ Head(todo[i]).of = "functions"
  BY BusyRuns DEF FunctionsFail, Of
<1>2. PICK s \in Steps, G \in SUBSET Facts :
        s = Head(todo[i]) /\ Allowed(i, s, F[i]) /\ Sound(i, F[i])
  BY <1>1, Goes
<1>3. F[i] = Whole(i) \ {"functions"}
  BY <1>1, <1>2 DEF Allowed
<1> DEFINE p == ObjectDelete(i)
                \o (CASE i \in RtuSlaves \cup AsciiSlaves   -> mbc_serial_slave_iface_free
                      [] i \in RtuMasters \cup AsciiMasters -> mbc_serial_master_iface_free
                      [] OTHER -> <<>>)
                \o Do(<<"abandoned">>)
<1>4. Leads(i, F[i], p)
  BY <1>2, <1>3, FunctionsFailLeads
<1>5. todo' = [todo EXCEPT ![i] = p]
  BY DEF FunctionsFail
<1>6. UNCHANGED <<held, life, started, state, drv, flags, sema, shared>>
  BY DEF FunctionsFail, own, driver
<1> HIDE DEF p
<1> QED
  BY <1>1, <1>4, <1>5, <1>6, Turn

\* The end of a create, of a delete and of a call that fails.
LEMMA CreatedFollowed ==
  ASSUME Ranges, NEW F \in [Inst -> SUBSET Facts], Follows(F), NEW i \in Inst, Created(i)
  PROVE  Followed'
PROOF
<1>1. i \in Busy /\ todo[i] # <<>> /\ Head(todo[i]).op = "created"
  BY BusyRuns DEF Created
<1>2. PICK s \in Steps, G \in SUBSET Facts :
        /\ s = Head(todo[i]) /\ G = After(s, F[i]) /\ Allowed(i, s, F[i])
        /\ Leads(i, G, Tail(todo[i]))
  BY <1>1, Goes
<1>3. G = F[i] \cup {"alive"} /\ "lost" \notin F[i]
  BY <1>1, <1>2, AfterIs, WholeIsFacts DEF Allowed
<1>4. /\ life' = [life EXCEPT ![i] = "alive"] /\ state' = [state EXCEPT ![i] = "DISABLED"]
      /\ UNCHANGED <<held, started, drv, flags, sema, shared>>
  BY DEF Created, driver
<1>5. held' \in [Inst -> SUBSET Resources] /\ held'[i] = G \cap Resources
  BY <1>3, <1>4, FactsApart DEF Follows, Shows, Marks
<1>6. life'[i] = "alive" /\ state'[i] = "DISABLED"
  BY <1>4 DEF Ranges
<1>7. Shows(i, G)'
  BY <1>3, <1>4, <1>5, <1>6 DEF Follows, Shows, Events, shared, counts
<1>8. \A j \in Inst : j # i => Untouched(j)
  BY <1>4 DEF Untouched, Ranges
<1>9. todo' = [todo EXCEPT ![i] = Tail(todo[i])]
  BY DEF Created, Continue
<1>10. ("counted" \in G <=> "counted" \in F[i]) /\ ("opening" \in G <=> "opening" \in F[i])
  BY <1>3
<1> QED
  BY <1>1, <1>2, <1>4, <1>5, <1>7, <1>8, <1>9, <1>10, Move

LEMMA DeletedFollowed ==
  ASSUME Ranges, NEW F \in [Inst -> SUBSET Facts], Follows(F), NEW i \in Inst, Deleted(i)
  PROVE  Followed'
PROOF
<1>1. i \in Busy /\ todo[i] # <<>> /\ Head(todo[i]).op = "deleted"
  BY BusyRuns DEF Deleted
<1>2. PICK s \in Steps, G \in SUBSET Facts :
        /\ s = Head(todo[i]) /\ G = After(s, F[i]) /\ Allowed(i, s, F[i])
        /\ Leads(i, G, Tail(todo[i]))
  BY <1>1, Goes
<1>3. F[i] = {"alive"} /\ G = {}
  BY <1>1, <1>2, AfterIs DEF Allowed
<1>4. /\ life' = [life EXCEPT ![i] = "absent"] /\ state' = [state EXCEPT ![i] = "NOT_INITIALIZED"]
      /\ started' = [started EXCEPT ![i] = FALSE] /\ flags' = [flags EXCEPT ![i] = {}]
      /\ UNCHANGED <<held, drv, sema, shared>>
  BY DEF Deleted
<1>5. held' \in [Inst -> SUBSET Resources] /\ held'[i] = {}
  <2>1. held[i] = {"alive"} \cap Resources
    BY <1>3 DEF Follows, Shows
  <2> QED
    BY <1>4, <2>1, FactsApart DEF Follows, Marks
<1>6. life'[i] = "absent" /\ state'[i] = "NOT_INITIALIZED" /\ ~started'[i] /\ flags'[i] = {}
  BY <1>4 DEF Ranges
<1>7. Shows(i, G)'
  BY <1>3, <1>4, <1>5, <1>6 DEF Follows, Shows, Events, shared, counts
<1>8. \A j \in Inst : j # i => Untouched(j)
  BY <1>4 DEF Untouched, Ranges
<1>9. todo' = [todo EXCEPT ![i] = Tail(todo[i])]
  BY DEF Deleted, Continue
<1>10. ("counted" \in G <=> "counted" \in F[i]) /\ ("opening" \in G <=> "opening" \in F[i])
  BY <1>3
<1> QED
  BY <1>1, <1>2, <1>4, <1>5, <1>7, <1>8, <1>9, <1>10, Move

LEMMA AbandonedFollowed ==
  ASSUME Ranges, NEW F \in [Inst -> SUBSET Facts], Follows(F), NEW i \in Inst, Abandoned(i)
  PROVE  Followed'
PROOF
<1>1. i \in Busy /\ todo[i] # <<>> /\ Head(todo[i]).op = "abandoned"
  BY BusyRuns DEF Abandoned
<1>2. PICK s \in Steps, G \in SUBSET Facts :
        /\ s = Head(todo[i]) /\ G = After(s, F[i]) /\ Allowed(i, s, F[i])
        /\ Leads(i, G, Tail(todo[i]))
  BY <1>1, Goes
<1>3. /\ AtRest(i, G)
      /\ F[i] \cap Resources = {} => F[i] \subseteq {"alive"} /\ G = {}
      /\ F[i] \cap Resources # {} => G = (F[i] \ {"alive"}) \cup {"lost"}
  BY <1>1, <1>2, AfterIs DEF Allowed
<1>4. /\ life' = [life EXCEPT ![i] = IF held[i] = {} THEN "absent" ELSE "lost"]
      /\ flags' = [flags EXCEPT ![i] = IF "flags" \in held[i] THEN @ ELSE {}]
      /\ UNCHANGED <<held, state, started, drv, sema, shared>>
  BY DEF Abandoned
<1>5. held[i] = F[i] \cap Resources /\ held \in [Inst -> SUBSET Resources]
  BY DEF Follows, Shows
<1>6. flags'[i] \subseteq flags[i] /\ life'[i] = IF held[i] = {} THEN "absent" ELSE "lost"
  BY <1>4 DEF Ranges
<1>7. Shows(i, G)' /\ ("counted" \in G <=> "counted" \in F[i]) /\ ("opening" \in G <=> "opening" \in F[i])
  <2>1. CASE F[i] \cap Resources = {}
    BY <1>3, <1>4, <1>5, <1>6, <2>1 DEF Follows, Shows, Events, shared, counts
  <2>2. CASE F[i] \cap Resources # {}
    <3>1. "lost" \in G /\ "alive" \notin G
          /\ \A m \in Facts \ {"alive", "lost"} : m \in G <=> m \in F[i]
      BY <1>3, <2>2
    <3>2. "SHUTDOWN" \notin G
      BY <1>3, <3>1, WholeIsFacts DEF AtRest, Working
    <3>3. /\ \A m \in {"counted", "opening", "sema", "started", "enabled", "looped",
                       "driver_task"} : m \in G <=> m \in F[i]
          /\ \A e \in Events : e \in G <=> e \in F[i]
          /\ \A r \in Resources : r \in G <=> r \in F[i]
      BY <3>1, FactsApart DEF Marks
    <3>4. held'[i] = G \cap Resources /\ life'[i] = "lost"
      BY <1>4, <1>5, <1>6, <2>2, <3>3
    <3>5. Shows(i, G)'
      BY <1>4, <1>6, <3>1, <3>2, <3>3, <3>4 DEF Follows, Shows, shared, counts
    <3> QED
      BY <3>3, <3>5
  <2> QED
    BY <2>1, <2>2
<1>8. \A j \in Inst : j # i => Untouched(j)
  BY <1>4 DEF Untouched, Ranges
<1>9. todo' = [todo EXCEPT ![i] = Tail(todo[i])]
  BY DEF Abandoned, Continue
<1> QED
  BY <1>1, <1>2, <1>4, <1>5, <1>7, <1>8, <1>9, Move

\* The steps that start and stop the transport go by the state of the object.
LEMMA EnableFollowed ==
  ASSUME NEW F \in [Inst -> SUBSET Facts], Follows(F), NEW i \in Inst, Enable(i)
  PROVE  Followed'
PROOF
<1>1. i \in Busy /\ todo[i] # <<>> /\ Head(todo[i]).op = "enable"
  BY BusyRuns DEF Enable
<1>2. PICK s \in Steps, G \in SUBSET Facts :
        /\ s = Head(todo[i]) /\ G = After(s, F[i]) /\ Allowed(i, s, F[i])
        /\ Sound(i, F[i]) /\ Leads(i, G, Tail(todo[i]))
  BY <1>1, Goes
<1>3. Working(i, F[i]) /\ G = F[i] \cup {"enabled"}
  BY <1>1, <1>2, AfterIs DEF Allowed
<1>4. UNCHANGED <<held, life, started, state, drv, flags, sema, shared>>
  BY DEF Enable, own, driver
<1>5. CASE state[i] = "DISABLED"
  <2> DEFINE p == FrmStart(i) \o Do(<<"enabled">>)
  <2>1. Path(i, F[i], p, F[i] \cup {"enabled"})
    BY <1>2, <1>3, StartGoesWell
  <2>2. todo' = [todo EXCEPT ![i] = p \o Tail(todo[i])]
    BY <1>5 DEF Enable, Detour
  <2> HIDE DEF p
  <2>3. Leads(i, F[i], p \o Tail(todo[i]))
    BY <1>2, <1>3, <2>1, LeadsJoin
  <2> QED
    BY <1>1, <1>4, <2>2, <2>3, Turn
<1>6. CASE state[i] # "DISABLED"
  <2>1. todo' = [todo EXCEPT ![i] = <<>>]
    BY <1>6 DEF Enable, Return
  <2>2. Leads(i, F[i], <<>>)
    BY <1>2, <1>3, NothingToDo DEF AtRest
  <2> QED
    BY <1>1, <1>4, <2>1, <2>2, Turn
<1> QED
  BY <1>5, <1>6

LEMMA DisableFollowed ==
  ASSUME NEW F \in [Inst -> SUBSET Facts], Follows(F), NEW i \in Inst, Disable(i)
  PROVE  Followed'
PROOF
<1>1. i \in Busy /\ todo[i] # <<>> /\ Head(todo[i]).op = "disable"
  BY BusyRuns DEF Disable
<1>2. PICK s \in Steps, G \in SUBSET Facts :
        /\ s = Head(todo[i]) /\ G = After(s, F[i])
        /\ Sound(i, F[i]) /\ Leads(i, G, Tail(todo[i]))
  BY <1>1, Goes
<1>3. G = F[i]
  BY <1>1, <1>2, AfterIs DEF Idle
<1> DEFINE p == IF state[i] = "ENABLED" THEN FrmStop(i) \o Do(<<"disabled">>) ELSE <<>>
<1>4. Path(i, F[i], p, F[i])
  BY <1>2, DisableGoesWell, PathNone
<1>5. todo' = [todo EXCEPT ![i] = p \o Tail(todo[i])]
  BY DEF Disable, Detour
<1>6. UNCHANGED <<held, life, started, state, drv, flags, sema, shared>>
  BY DEF Disable, own, driver
<1> HIDE DEF p
<1>7. Leads(i, F[i], p \o Tail(todo[i]))
  BY <1>2, <1>3, <1>4, LeadsJoin
<1> QED
  BY <1>1, <1>5, <1>6, <1>7, Turn

LEMMA EnabledFollowed ==
  ASSUME Ranges, NEW F \in [Inst -> SUBSET Facts], Follows(F), NEW i \in Inst, Enabled(i)
  PROVE  Followed'
PROOF
<1>1. i \in Busy /\ todo[i] # <<>> /\ Head(todo[i]).op = "enabled"
  BY BusyRuns DEF Enabled
<1>2. PICK s \in Steps, G \in SUBSET Facts :
        s = Head(todo[i]) /\ G = After(s, F[i]) /\ Leads(i, G, Tail(todo[i]))
  BY <1>1, Goes
<1>3. G = F[i] \cup {"enabled"}
  BY <1>1, <1>2, AfterIs
<1>4. state' = [state EXCEPT ![i] = "ENABLED"] /\ UNCHANGED <<held, life, started, drv, flags, sema, shared>>
  BY DEF Enabled, driver
<1>5. held' \in [Inst -> SUBSET Resources] /\ held'[i] = G \cap Resources
  BY <1>3, <1>4, FactsApart DEF Follows, Shows, Marks
<1>6. Shows(i, G)'
  BY <1>3, <1>4, <1>5 DEF Follows, Shows, Events, shared, counts
<1>7. \A j \in Inst : j # i => Untouched(j)
  BY <1>4 DEF Untouched, Ranges
<1>8. todo' = [todo EXCEPT ![i] = Tail(todo[i])]
  BY DEF Enabled, Continue
<1>9. ("counted" \in G <=> "counted" \in F[i]) /\ ("opening" \in G <=> "opening" \in F[i])
  BY <1>3
<1> QED
  BY <1>1, <1>2, <1>4, <1>5, <1>6, <1>7, <1>8, <1>9, Move

LEMMA DisabledFollowed ==
  ASSUME Ranges, NEW F \in [Inst -> SUBSET Facts], Follows(F), NEW i \in Inst, Disabled(i)
  PROVE  Followed'
PROOF
<1>1. i \in Busy /\ todo[i] # <<>> /\ Head(todo[i]).op = "disabled"
  BY BusyRuns DEF Disabled
<1>2. PICK s \in Steps, G \in SUBSET Facts :
        s = Head(todo[i]) /\ G = After(s, F[i]) /\ Leads(i, G, Tail(todo[i]))
  BY <1>1, Goes
<1>3. G = F[i]
  BY <1>1, <1>2, AfterIs DEF Idle
<1>4. state' = [state EXCEPT ![i] = "DISABLED"] /\ UNCHANGED <<held, life, started, drv, flags, sema, shared>>
  BY DEF Disabled, driver
<1>5. held' \in [Inst -> SUBSET Resources] /\ state'[i] = "DISABLED"
  BY <1>4 DEF Follows, Ranges
<1>6. Shows(i, G)'
  BY <1>3, <1>4, <1>5 DEF Follows, Shows, shared, counts
<1>7. \A j \in Inst : j # i => Untouched(j)
  BY <1>4 DEF Untouched, Ranges
<1>8. todo' = [todo EXCEPT ![i] = Tail(todo[i])]
  BY DEF Disabled, Continue
<1> QED
  BY <1>1, <1>2, <1>3, <1>4, <1>5, <1>6, <1>7, <1>8, Move

\* The steps around the bit MB_EVENT_STACK_STARTED.
LEMMA AwaitConnectedFollowed ==
  ASSUME NEW F \in [Inst -> SUBSET Facts], Follows(F), NEW i \in Inst, AwaitConnected(i)
  PROVE  Followed'
PROOF
<1>1. i \in Busy /\ todo[i] # <<>> /\ Head(todo[i]).op = "await_CONNECTED"
  BY BusyRuns DEF AwaitConnected
<1>2. PICK s \in Steps, G \in SUBSET Facts :
        /\ s = Head(todo[i]) /\ G = After(s, F[i]) /\ Allowed(i, s, F[i])
        /\ Sound(i, F[i]) /\ Leads(i, G, Tail(todo[i]))
  BY <1>1, Goes
<1>3. Working(i, F[i]) /\ G = F[i]
  BY <1>1, <1>2 DEF Allowed, After
<1>4. UNCHANGED <<held, life, started, state, drv, flags, sema, shared>>
  BY DEF AwaitConnected, own, driver
<1>5. Leads(i, F[i], <<>>)
  BY <1>2, <1>3, NothingToDo DEF AtRest
<1>6. todo' = [todo EXCEPT ![i] = Tail(todo[i])] \/ todo' = [todo EXCEPT ![i] = <<>>]
  BY DEF AwaitConnected, Continue, Return
<1> QED
  BY <1>1, <1>2, <1>3, <1>4, <1>5, <1>6, Turn

LEMMA SetStartedFollowed ==
  ASSUME Ranges, NEW F \in [Inst -> SUBSET Facts], Follows(F), NEW i \in Inst, SetStarted(i)
  PROVE  Followed'
PROOF
<1>1. i \in Busy /\ todo[i] # <<>> /\ Head(todo[i]).op = "set_STARTED"
  BY BusyRuns DEF SetStarted
<1>2. PICK s \in Steps, G \in SUBSET Facts :
        s = Head(todo[i]) /\ G = After(s, F[i]) /\ Leads(i, G, Tail(todo[i]))
  BY <1>1, Goes
<1>3. G = F[i] \cup {"started"}
  BY <1>1, <1>2, AfterIs
<1>4. started' = [started EXCEPT ![i] = TRUE] /\ UNCHANGED <<held, life, state, drv, flags, sema, shared>>
  BY DEF SetStarted, driver
<1>5. held' \in [Inst -> SUBSET Resources] /\ held'[i] = G \cap Resources
  BY <1>3, <1>4, FactsApart DEF Follows, Shows, Marks
<1>6. Shows(i, G)'
  BY <1>3, <1>4, <1>5 DEF Follows, Shows, Events, shared, counts
<1>7. \A j \in Inst : j # i => Untouched(j)
  BY <1>4 DEF Untouched, Ranges
<1>8. todo' = [todo EXCEPT ![i] = Tail(todo[i])]
  BY DEF SetStarted, Continue
<1>9. ("counted" \in G <=> "counted" \in F[i]) /\ ("opening" \in G <=> "opening" \in F[i])
  BY <1>3
<1> QED
  BY <1>1, <1>2, <1>4, <1>5, <1>6, <1>7, <1>8, <1>9, Move

\* The bit is cleared; the call goes on, returns, or only disables the object.
LEMMA Unstarted ==
  ASSUME Ranges, NEW F \in [Inst -> SUBSET Facts], Follows(F), NEW i \in Inst, i \in Busy,
         NEW G \in SUBSET Facts, G = F[i] \ {"started"},
         started' = [started EXCEPT ![i] = FALSE],
         UNCHANGED <<held, life, state, drv, flags, sema, shared>>,
         NEW p, Leads(i, G, p), todo' = [todo EXCEPT ![i] = p]
  PROVE  Followed'
PROOF
<1>1. held' \in [Inst -> SUBSET Resources] /\ held'[i] = G \cap Resources /\ ~started'[i]
  BY FactsApart DEF Follows, Shows, Marks, Ranges
<1>2. Shows(i, G)'
  BY <1>1 DEF Follows, Shows, Events, shared, counts
<1>3. \A j \in Inst : j # i => Untouched(j)
  BY DEF Untouched, Ranges
<1>4. ("counted" \in G <=> "counted" \in F[i]) /\ ("opening" \in G <=> "opening" \in F[i])
  OBVIOUS
<1> QED
  BY <1>1, <1>2, <1>3, <1>4, Move

LEMMA ClearStartedFollowed ==
  ASSUME Ranges, NEW F \in [Inst -> SUBSET Facts], Follows(F), NEW i \in Inst,
         ClearStarted(i) \/ ClearStartedLate(i)
  PROVE  Followed'
PROOF
<1>1. i \in Busy /\ todo[i] # <<>> /\ Head(todo[i]).op \in {"clear_STARTED", "clear_STARTED_late"}
  BY BusyRuns DEF ClearStarted, ClearStartedLate
<1>2. PICK s \in Steps, G \in SUBSET Facts :
        /\ s = Head(todo[i]) /\ G = After(s, F[i]) /\ Allowed(i, s, F[i])
        /\ Sound(i, F[i]) /\ Leads(i, G, Tail(todo[i]))
  BY <1>1, Goes
<1>3. Working(i, F[i]) /\ G = F[i] \ {"started"}
  BY <1>1, <1>2, AfterIs DEF Allowed
<1>4. Sound(i, G) /\ AtRest(i, G)
  <2>1. F[i] \in SUBSET Facts /\ Sound(i, F[i]) /\ Working(i, F[i])
    BY <1>2, <1>3
  <2>2. Sound(i, F[i] \ {"started"}) /\ Working(i, F[i] \ {"started"})
    BY <2>1, WorkingFacts
  <2> QED
    BY <1>3, <2>2 DEF AtRest
<1>5. Leads(i, G, <<>>)
  BY <1>4, NothingToDo
<1>6. Leads(i, G, Do(<<"disable">>))
  <2>1. "disable" \in Idle /\ "disable" \in Ops
    BY DEF Idle, Ops
  <2>2. Link(i, G, Note("disable"), G)
    BY <1>4, <2>1, LinkIdle
  <2>3. Path(i, G, Do(<<"disable">>), G)
    BY <2>1, <2>2, DoOne
  <2> QED
    BY <1>4, <2>3 DEF Leads
<1>7. \/ todo' = [todo EXCEPT ![i] = Tail(todo[i])]
      \/ todo' = [todo EXCEPT ![i] = <<>>]
      \/ todo' = [todo EXCEPT ![i] = Do(<<"disable">>)]
  BY DEF ClearStarted, ClearStartedLate, Continue, Return
<1>8. started' = [started EXCEPT ![i] = FALSE] /\ UNCHANGED <<held, life, state, drv, flags, sema, shared>>
  BY DEF ClearStarted, ClearStartedLate, driver
<1> QED
  BY <1>1, <1>2, <1>3, <1>5, <1>6, <1>7, <1>8, Unstarted

LEMMA InactiveFollowed ==
  ASSUME NEW F \in [Inst -> SUBSET Facts], Follows(F), NEW i \in Inst, Inactive(i)
  PROVE  Followed'
PROOF
<1>1. i \in Busy /\ todo[i] # <<>> /\ Head(todo[i]).op = "inactive"
  BY BusyRuns DEF Inactive
<1>2. PICK s \in Steps, G \in SUBSET Facts :
        s = Head(todo[i]) /\ G = After(s, F[i]) /\ Leads(i, G, Tail(todo[i]))
  BY <1>1, Goes
<1>3. G = F[i]
  BY <1>1, <1>2, AfterIs DEF Idle
<1>4. todo' = [todo EXCEPT ![i] = Tail(todo[i])]
      /\ UNCHANGED <<held, life, started, state, drv, flags, sema, shared>>
  BY DEF Inactive, Continue, driver
<1> QED
  BY <1>1, <1>2, <1>3, <1>4, Turn

\* A delete stops an active instance first; only a disabled object is deleted.
LEMMA StopActiveFollowed ==
  ASSUME Ranges, NEW F \in [Inst -> SUBSET Facts], Follows(F), NEW i \in Inst, StopActive(i)
  PROVE  Followed'
PROOF
<1>1. i \in Busy /\ todo[i] # <<>> /\ Head(todo[i]).op = "stop_active"
  BY BusyRuns DEF StopActive
<1>2. PICK s \in Steps, G \in SUBSET Facts :
        /\ s = Head(todo[i]) /\ G = After(s, F[i]) /\ Allowed(i, s, F[i])
        /\ Sound(i, F[i]) /\ Leads(i, G, Tail(todo[i]))
  BY <1>1, Goes
<1>3. Working(i, F[i]) /\ G = F[i] \ {"started"}
  BY <1>1, <1>2, AfterIs DEF Allowed
<1>4. UNCHANGED <<held, life, started, state, drv, flags, sema, shared>>
  BY DEF StopActive, driver
<1>5. CASE active[i] \/ started[i]
  <2> DEFINE p == StopOf(i)
  <2>1. Path(i, F[i], p, G)
    BY <1>2, <1>3, StopGoesWell
  <2>2. todo' = [todo EXCEPT ![i] = p \o Tail(todo[i])]
    BY <1>5 DEF StopActive, Detour
  <2> HIDE DEF p
  <2>3. Leads(i, F[i], p \o Tail(todo[i]))
    BY <1>2, <2>1, LeadsJoin
  <2> QED
    BY <1>1, <1>4, <2>2, <2>3, Turn
<1>6. CASE ~(active[i] \/ started[i])
  <2>1. todo' = [todo EXCEPT ![i] = Tail(todo[i])]
    BY <1>6 DEF StopActive, Continue
  <2>2. started' = [started EXCEPT ![i] = FALSE]
    BY <1>4, <1>6 DEF Ranges
  <2> QED
    BY <1>1, <1>2, <1>3, <1>4, <2>1, <2>2, Unstarted
<1> QED
  BY <1>5, <1>6

LEMMA DeleteObjectFollowed ==
  ASSUME NEW F \in [Inst -> SUBSET Facts], Follows(F), NEW i \in Inst, DeleteObject(i)
  PROVE  Followed'
PROOF
<1>1. i \in Busy /\ todo[i] # <<>> /\ Head(todo[i]).op = "object_delete"
  BY BusyRuns DEF DeleteObject
<1>2. PICK s \in Steps, G \in SUBSET Facts :
        /\ s = Head(todo[i]) /\ G = After(s, F[i]) /\ Allowed(i, s, F[i])
        /\ Sound(i, F[i]) /\ Leads(i, G, Tail(todo[i]))
  BY <1>1, Goes
<1>3. /\ "task" \notin F[i] /\ F[i] \ ({"enabled"} \cup Controller) = ObjectOf(i) \cup {"alive"}
      /\ G = F[i] \cap (Controller \cup {"alive"})
  BY <1>1, <1>2, AfterIs DEF Allowed
<1>4. UNCHANGED <<held, life, started, state, drv, flags, sema, shared>>
  BY DEF DeleteObject, own, driver
<1>5. CASE state[i] = "DISABLED"
  <2> DEFINE p == ObjectDelete(i)
             H == F[i] \ {"enabled"}
  <2>1. H \in SUBSET Facts /\ Sound(i, H)
    BY <1>2 DEF Sound, Events
  <2>2. H \ (Controller \cup {"alive", "object", "functions"}) = TransportOf(i)
    <3>1. TransportOf(i) \cap (Controller \cup {"alive", "object", "functions", "enabled"}) = {}
      BY DEF TransportOf, DriverFacts, Events, Controller
    <3>2. H \ Controller = ({"object", "functions"} \cup TransportOf(i) \cup {"alive"}) \ {"enabled"}
      BY <1>3, <3>1 DEF ObjectOf
    <3> HIDE DEF H
    <3> QED
      BY <3>1, <3>2
  <2>3. Resting(H)
    <3>1. ObjectOf(i) \cap {"started", "opening", "sema", "SHUTDOWN", "lost"} = {}
      BY DEF ObjectOf, TransportOf, DriverFacts, Events
    <3>2. Controller \cap {"started", "opening", "sema", "SHUTDOWN", "lost"} = {}
      BY DEF Controller
    <3> QED
      BY <1>3, <3>1, <3>2 DEF Resting
  <2>4. G = H \cap (Controller \cup {"alive"})
    <3>1. "enabled" \notin Controller
      BY DEF Controller
    <3> QED
      BY <1>3, <3>1
  <2>5. todo' = [todo EXCEPT ![i] = p \o Tail(todo[i])]
    BY <1>5 DEF DeleteObject, Detour
  <2>6. "counted" \in H <=> "counted" \in F[i]
    OBVIOUS
  <2>7. "opening" \in H <=> "opening" \in F[i]
    OBVIOUS
  <2>8. Shows(i, H)'
    <3>1. held[i] = H \cap Resources
      BY FactsApart DEF Follows, Shows, Marks
    <3>2. \A m \in Facts \ {"enabled"} : m \in H <=> m \in F[i]
      OBVIOUS
    <3>3. {"alive", "lost", "sema", "started", "SHUTDOWN", "looped", "opening", "driver_task"} \cup Events
            \subseteq Facts \ {"enabled"}
      BY DEF Facts, Marks, Events
    <3> HIDE DEF H
    <3> QED
      BY <1>4, <1>5, <3>1, <3>2, <3>3 DEF Follows, Shows, shared, counts
  <2> HIDE DEF p, H
  <2>9. Path(i, H, p, G)
    BY <2>1, <2>2, <2>3, <2>4, ObjectDeleted DEF p
  <2>10. Leads(i, H, p \o Tail(todo[i]))
    BY <1>2, <2>9, LeadsJoin
  <2>11. \A j \in Inst : Untouched(j)
    BY <1>4 DEF Untouched
  <2>12. held' \in [Inst -> SUBSET Resources] /\ UNCHANGED shared
    BY <1>4 DEF Follows
  <2> QED
    BY <1>1, <2>1, <2>5, <2>6, <2>7, <2>8, <2>10, <2>11, <2>12, Move
<1>6. CASE state[i] # "DISABLED"
  <2> DEFINE p == (IF i \in Slaves THEN Put("iface") ELSE <<>>) \o Do(<<"abandoned">>)
  <2>1. todo' = [todo EXCEPT ![i] = p]
    BY <1>6 DEF DeleteObject
  <2>2. Leads(i, F[i], p)
    BY <1>2, <1>3, NotDeletedLeads
  <2> HIDE DEF p
  <2> QED
    BY <1>1, <1>4, <2>1, <2>2, Turn
<1> QED
  BY <1>5, <1>6

\* The application calls the interface of an instance at rest.
LEMMA CallFollowed ==
  ASSUME NEW F \in [Inst -> SUBSET Facts], Follows(F), NEW i \in Inst,
         Create(i) \/ Start(i) \/ Stop(i) \/ Delete(i)
  PROVE  Followed'
PROOF
<1>1. ASSUME NEW p, Call(i, p), Leads(i, F[i], p) PROVE Followed'
  <2>1. /\ todo' = [todo EXCEPT ![i] = p]
        /\ UNCHANGED <<held, life, started, state, drv, flags, sema, shared>>
    BY <1>1 DEF Call, own, driver
  <2> QED
    BY <1>1, <2>1, Turn
<1>2. todo[i] = <<>>
  BY DEF Create, Start, Stop, Delete, Call
<1>3. F[i] \in SUBSET Facts /\ Sound(i, F[i]) /\ AtRest(i, F[i])
  BY <1>2, Rests
<1>4. (life[i] = "alive" <=> "alive" \in F[i]) /\ (life[i] = "lost" <=> "lost" \in F[i])
  BY DEF Follows, Shows
<1>5. CASE Create(i)
  <2>1. F[i] = {}
    BY <1>3, <1>4, <1>5 DEF AtRest, Working, Create
  <2> DEFINE W == Whole(i) \cup {"alive"}
  <2>2. W \in SUBSET Facts
    BY WholeIsFacts DEF Facts, Marks
  <2>3. AtRest(i, W)
    BY WholeIsFacts DEF AtRest, Working
  <2> HIDE DEF W
  <2>4. Leads(i, F[i], CreateOf(i) \o Do(<<"created">>))
    BY <2>1, <2>2, <2>3, CreateGoesWell DEF Leads, W
  <2> QED
    BY <1>1, <1>5, <2>4 DEF Create
<1>6. life[i] = "alive" => Working(i, F[i])
  BY <1>3, <1>4 DEF AtRest
<1>7. CASE Start(i)
  <2>1. Working(i, F[i])
    BY <1>6, <1>7 DEF Start
  <2> DEFINE W == F[i] \cup {"enabled"} \cup {"started"}
  <2>2. W \in SUBSET Facts
    BY DEF Facts, Marks
  <2>3. AtRest(i, W)
    <3>1. Sound(i, F[i] \cup {"enabled"}) /\ Working(i, F[i] \cup {"enabled"})
      BY <1>3, <2>1, WorkingFacts
    <3>2. F[i] \cup {"enabled"} \in SUBSET Facts
      BY DEF Facts, Marks
    <3>3. Working(i, W)
      BY <3>1, <3>2, WorkingFacts
    <3> QED
      BY <3>3 DEF AtRest
  <2> HIDE DEF W
  <2>4. Leads(i, F[i], IF i \in Slaves THEN mbc_slave_start(i) ELSE mbc_master_start(i))
    BY <1>3, <2>1, <2>2, <2>3, StartGoesWell DEF Leads, W
  <2> QED
    BY <1>1, <1>7, <2>4 DEF Start
<1>8. CASE Stop(i)
  <2>1. Working(i, F[i])
    BY <1>6, <1>8 DEF Stop
  <2> DEFINE W == F[i] \ {"started"}
  <2>2. W \in SUBSET Facts /\ AtRest(i, W)
    BY <1>3, <2>1, WorkingFacts DEF AtRest
  <2> HIDE DEF W
  <2>3. Leads(i, F[i], StopOf(i))
    BY <1>3, <2>1, <2>2, StopGoesWell DEF Leads, W
  <2> QED
    BY <1>1, <1>8, <2>3 DEF Stop
<1>9. CASE Delete(i)
  <2>1. Working(i, F[i])
    BY <1>6, <1>9 DEF Delete
  <2>2. {} \in SUBSET Facts /\ AtRest(i, {})
    BY DEF AtRest
  <2>3. Leads(i, F[i], (IF i \in Slaves THEN mbc_slave_delete(i) ELSE mbc_master_delete(i))
                         \o Do(<<"deleted">>))
    BY <1>3, <2>1, <2>2, DeleteGoesWell DEF Leads
  <2> QED
    BY <1>1, <1>9, <2>3 DEF Delete
<1> QED
  BY <1>5, <1>7, <1>8, <1>9

-------------------------------------------------------------------------------
(* The steps of the drivers.                                               *)

\* A step that touches the driver of i, and no fact but these three.
LEMMA DriverMoved ==
  ASSUME NEW F \in [Inst -> SUBSET Facts], Follows(F), NEW i \in Inst, i \in Busy,
         NEW G \in SUBSET Facts, Leads(i, G, Tail(todo[i])),
         \A m \in Facts \ {"sema", "SHUTDOWN", "driver_task"} : m \in G <=> m \in F[i],
         todo' = [todo EXCEPT ![i] = Tail(todo[i])], UNCHANGED <<own, shared>>,
         \A j \in Inst : j # i => drv'[j] = drv[j] /\ flags'[j] = flags[j] /\ sema'[j] = sema[j],
         sema'[i] # "none" => "sema" \in G,
         "SHUTDOWN" \in G => "SHUTDOWN" \in flags'[i],
         ~loopHeld => /\ drv'[i] # "none" => "driver_task" \in G
                      /\ sema'[i] = "given" /\ "SHUTDOWN" \in flags'[i] => drv'[i] = "none"
  PROVE  Followed'
PROOF
<1>1. UNCHANGED <<held, life, started, state, shared>>
  BY DEF own
<1>2. \A j \in Inst : j # i => Untouched(j)
  BY <1>1 DEF Untouched
<1>3. /\ \A m \in {"alive", "lost", "started", "enabled", "looped", "counted", "opening"} :
           m \in G <=> m \in F[i]
      /\ \A e \in Events : e \in G <=> e \in F[i]
      /\ \A r \in Resources : r \in G <=> r \in F[i]
  BY FactsApart DEF Marks
<1>4. held' \in [Inst -> SUBSET Resources] /\ held'[i] = G \cap Resources
  BY <1>1, <1>3 DEF Follows, Shows
<1>5. Shows(i, G)'
  BY <1>1, <1>3, <1>4 DEF Follows, Shows, shared, counts
<1> QED
  BY <1>1, <1>2, <1>3, <1>4, <1>5, Move

LEMMA ResumeFollowed ==
  ASSUME Ranges, NEW F \in [Inst -> SUBSET Facts], Follows(F), NEW i \in Inst, Resume(i)
  PROVE  Followed'
PROOF
<1>1. i \in Busy /\ todo[i] # <<>> /\ Head(todo[i]).op = "resume"
  BY BusyRuns DEF Resume
<1>2. PICK s \in Steps, G \in SUBSET Facts :
        s = Head(todo[i]) /\ G = After(s, F[i]) /\ Leads(i, G, Tail(todo[i]))
  BY <1>1, Goes
<1>3. G = F[i]
  BY <1>1, <1>2, AfterIs DEF Idle
<1>4. /\ flags' = [flags EXCEPT ![i] = @ \ {"SUSPEND"}]
      /\ drv' = [drv EXCEPT ![i] = IF @ = "suspended" THEN "running" ELSE @]
      /\ sema' = sema /\ UNCHANGED <<own, shared>>
      /\ todo' = [todo EXCEPT ![i] = Tail(todo[i])]
  BY DEF Resume, Continue
<1>5. /\ \A j \in Inst : j # i => drv'[j] = drv[j] /\ flags'[j] = flags[j] /\ sema'[j] = sema[j]
      /\ "SHUTDOWN" \in flags'[i] <=> "SHUTDOWN" \in flags[i]
      /\ drv'[i] = "none" <=> drv[i] = "none"
  BY <1>4 DEF Ranges
<1>6. Shows(i, F[i])
  BY DEF Follows
<1>7. /\ sema'[i] # "none" => "sema" \in G
      /\ "SHUTDOWN" \in G => "SHUTDOWN" \in flags'[i]
      /\ ~loopHeld => /\ drv'[i] # "none" => "driver_task" \in G
                      /\ sema'[i] = "given" /\ "SHUTDOWN" \in flags'[i] => drv'[i] = "none"
  BY <1>3, <1>4, <1>5, <1>6 DEF Shows
<1>8. todo' = [todo EXCEPT ![i] = Tail(todo[i])] /\ UNCHANGED <<own, shared>>
  BY <1>4
<1>9. \A j \in Inst : j # i => drv'[j] = drv[j] /\ flags'[j] = flags[j] /\ sema'[j] = sema[j]
  BY <1>5
<1> QED
  BY <1>1, <1>2, <1>3, <1>7, <1>8, <1>9, DriverMoved

LEMMA SetFlagsFollowed ==
  ASSUME Ranges, NEW F \in [Inst -> SUBSET Facts], Follows(F), NEW i \in Inst, SetFlags(i)
  PROVE  Followed'
PROOF
<1>1. i \in Busy /\ todo[i] # <<>>
      /\ Head(todo[i]).op \in {"set_SUSPEND", "set_SHUTDOWN", "clear_DISCONNECTED"}
  BY BusyRuns DEF SetFlags
<1>2. PICK s \in Steps, G \in SUBSET Facts :
        /\ s = Head(todo[i]) /\ G = After(s, F[i]) /\ Allowed(i, s, F[i])
        /\ Leads(i, G, Tail(todo[i]))
  BY <1>1, Goes
<1>3. /\ drv' = drv /\ sema' = sema /\ UNCHANGED <<own, shared>>
      /\ todo' = [todo EXCEPT ![i] = Tail(todo[i])]
  BY DEF SetFlags, Continue
<1>4. Shows(i, F[i])
  BY DEF Follows
<1>5. \A j \in Inst : j # i => drv'[j] = drv[j] /\ flags'[j] = flags[j] /\ sema'[j] = sema[j]
  BY <1>3 DEF SetFlags, Ranges
<1>6. CASE s.op = "set_SHUTDOWN"
  <2>1. G = F[i] \cup {"SHUTDOWN"} /\ "sema" \notin F[i]
    BY <1>2, <1>6, AfterIs DEF Allowed
  <2>2. "SHUTDOWN" \in flags'[i]
    BY <1>2, <1>6 DEF SetFlags, Runs, Ranges
  <2>3. sema'[i] = "none"
    BY <1>3, <1>4, <2>1 DEF Shows
  <2> QED
    BY <1>1, <1>2, <1>3, <1>4, <1>5, <2>1, <2>2, <2>3, DriverMoved DEF Shows
<1>7. CASE s.op \in {"set_SUSPEND", "clear_DISCONNECTED"}
  <2>1. G = F[i]
    BY <1>2, <1>7, AfterIs DEF Idle
  <2>2. "SHUTDOWN" \in flags'[i] <=> "SHUTDOWN" \in flags[i]
    BY <1>2, <1>7 DEF SetFlags, Runs, Ranges
  <2> QED
    BY <1>1, <1>2, <1>3, <1>4, <1>5, <2>1, <2>2, DriverMoved DEF Shows
<1> QED
  BY <1>1, <1>2, <1>6, <1>7

LEMMA SemaFollowed ==
  ASSUME Ranges, NEW F \in [Inst -> SUBSET Facts], Follows(F), NEW i \in Inst,
         SemaCreate(i) \/ SemaDelete(i)
  PROVE  Followed'
PROOF
<1>1. i \in Busy /\ todo[i] # <<>> /\ Head(todo[i]).op \in {"sema_create", "sema_delete"}
  BY BusyRuns DEF SemaCreate, SemaDelete
<1>2. PICK s \in Steps, G \in SUBSET Facts :
        s = Head(todo[i]) /\ G = After(s, F[i]) /\ Leads(i, G, Tail(todo[i]))
  BY <1>1, Goes
<1>3. /\ drv' = drv /\ flags' = flags /\ UNCHANGED <<own, shared>>
      /\ todo' = [todo EXCEPT ![i] = Tail(todo[i])]
  BY DEF SemaCreate, SemaDelete, Continue
<1>4. Shows(i, F[i])
  BY DEF Follows
<1>5. \A j \in Inst : j # i => drv'[j] = drv[j] /\ flags'[j] = flags[j] /\ sema'[j] = sema[j]
  BY <1>3 DEF SemaCreate, SemaDelete, Ranges
<1>6. CASE s.op = "sema_create"
  <2>1. G = F[i] \cup {"sema"}
    BY <1>6, <1>2, AfterIs
  <2>2. sema'[i] = "empty"
    BY <1>2, <1>6 DEF SemaCreate, SemaDelete, Runs, Ranges
  <2> QED
    BY <1>1, <1>2, <1>3, <1>4, <1>5, <2>1, <2>2, DriverMoved DEF Shows
<1>7. CASE s.op = "sema_delete"
  <2>1. G = F[i] \ {"sema"}
    BY <1>7, <1>2, AfterIs
  <2>2. sema'[i] = "none"
    BY <1>2, <1>7 DEF SemaCreate, SemaDelete, Runs, Ranges
  <2> QED
    BY <1>1, <1>2, <1>3, <1>4, <1>5, <2>1, <2>2, DriverMoved DEF Shows
<1> QED
  BY <1>1, <1>2, <1>6, <1>7

\* The same of a step that stops a task inside a handler: what is said of the
\* drivers' tasks ends.
LEMMA DriverLate ==
  ASSUME NEW F \in [Inst -> SUBSET Facts], Follows(F), NEW i \in Inst,
         NEW G \in SUBSET Facts, Leads(i, G, Tail(todo[i])),
         \A m \in Facts \ {"SHUTDOWN", "driver_task"} : m \in G <=> m \in F[i],
         todo' = [todo EXCEPT ![i] = Tail(todo[i])],
         UNCHANGED <<own, flags, sema, inLoop, loop, counts>>, loopHeld' = TRUE,
         "SHUTDOWN" \in G => "SHUTDOWN" \in F[i]
  PROVE  Followed'
PROOF
<1>1. UNCHANGED <<held, life, started, state, flags, sema, inLoop, loop, loopCount, counting, apart>>
  BY DEF own, counts
<1>2. /\ \A m \in {"alive", "lost", "started", "enabled", "looped", "counted", "opening", "sema"} :
           m \in G <=> m \in F[i]
      /\ \A e \in Events : e \in G <=> e \in F[i]
      /\ \A r \in Resources : r \in G <=> r \in F[i]
  BY FactsApart DEF Marks
<1>3. held' \in [Inst -> SUBSET Resources] /\ held'[i] = G \cap Resources
      /\ (inLoop \subseteq Tcp \X Events)' /\ OneCounts'
  BY <1>1, <1>2 DEF Follows, Shows, OneCounts
<1>4. Shows(i, G)'
  BY <1>1, <1>2, <1>3 DEF Follows, Shows
<1>5. \A j \in Inst : j # i => Shows(j, F[j])'
  BY <1>1 DEF Follows, Shows
<1> DEFINE H == [F EXCEPT ![i] = G]
<1>6. \A j \in Tcp : ("counted" \in H[j] <=> "counted" \in F[j])
                     /\ ("opening" \in H[j] <=> "opening" \in F[j])
  BY <1>2, TcpInst
<1> HIDE DEF H
<1>7. {j \in Tcp : "counted" \in H[j]} = {j \in Tcp : "counted" \in F[j]}
  BY <1>6
<1>8. Counts(H)'
  BY <1>1, <1>7 DEF Follows, Counts
<1>9. LoopKept(H)'
  <2>1. LoopKept(F)
    BY DEF Follows
  <2> QED
    BY <1>1, <1>6, <2>1 DEF LoopKept
<1> QED
  BY <1>3, <1>4, <1>5, <1>8, <1>9, Advance DEF H

LEMMA AwaitDriverFollowed ==
  ASSUME Ranges, NEW F \in [Inst -> SUBSET Facts], Follows(F), NEW i \in Inst, AwaitDriver(i)
  PROVE  Followed'
PROOF
<1>1. i \in Busy /\ todo[i] # <<>> /\ Head(todo[i]).op \in {"await_suspend", "await_shutdown"}
  BY BusyRuns DEF AwaitDriver, AwaitCloseDone
<1>2. PICK s \in Steps, G \in SUBSET Facts :
        /\ s = Head(todo[i]) /\ G = After(s, F[i]) /\ Allowed(i, s, F[i])
        /\ Leads(i, G, Tail(todo[i]))
  BY <1>1, Goes
<1>3. /\ sema' = sema /\ flags' = flags /\ UNCHANGED <<own, inLoop, loop, counts, queue>>
      /\ todo' = [todo EXCEPT ![i] = Tail(todo[i])]
      /\ loopHeld' = loopHeld \/ loopHeld' = TRUE
  BY DEF AwaitDriver, AwaitCloseDone, Continue
<1>4. Shows(i, F[i])
  BY DEF Follows
<1>5. CASE loopHeld' = TRUE
  <2>1. G = F[i] \/ G = F[i] \ {"SHUTDOWN", "driver_task"}
    BY <1>1, <1>2, AfterIs DEF Idle
  <2>2. /\ \A m \in Facts \ {"SHUTDOWN", "driver_task"} : m \in G <=> m \in F[i]
        /\ "SHUTDOWN" \in G => "SHUTDOWN" \in F[i]
    BY <2>1
  <2> QED
    BY <1>2, <1>3, <1>5, <2>2, DriverLate
<1>6. CASE loopHeld' = loopHeld /\ s.op = "await_suspend"
  <2>1. AwaitCloseDone(i, "await_suspend", "suspended") /\ UNCHANGED shared
    BY <1>2, <1>3, <1>6 DEF AwaitDriver, AwaitCloseDone, Runs, shared
  <2>2. \/ drv' = drv
        \/ sema[i] = "empty" /\ drv[i] # "none" /\ drv' = [drv EXCEPT ![i] = "suspended"]
    BY <2>1 DEF AwaitCloseDone
  <2>3. \A j \in Inst : j # i => drv'[j] = drv[j] /\ flags'[j] = flags[j] /\ sema'[j] = sema[j]
    BY <1>3, <2>2 DEF Ranges
  <2>4. G = F[i]
    BY <1>2, <1>6, AfterIs DEF Idle
  <2>5. drv'[i] = drv[i] \/ (drv[i] # "none" /\ sema'[i] = "empty")
    BY <1>3, <2>2
  <2> QED
    BY <1>1, <1>2, <1>3, <1>4, <2>1, <2>3, <2>4, <2>5, DriverMoved DEF Shows
<1>7. CASE loopHeld' = loopHeld /\ s.op = "await_shutdown"
  <2>1. AwaitCloseDone(i, "await_shutdown", "none") /\ UNCHANGED shared
    BY <1>2, <1>3, <1>7 DEF AwaitDriver, AwaitCloseDone, Runs, shared
  <2>2. \/ sema[i] = "given" /\ drv' = drv
        \/ drv' = [drv EXCEPT ![i] = "none"]
    BY <2>1 DEF AwaitCloseDone
  <2>3. \A j \in Inst : j # i => drv'[j] = drv[j] /\ flags'[j] = flags[j] /\ sema'[j] = sema[j]
    BY <1>3, <2>2 DEF Ranges
  <2>4. G = F[i] \ {"SHUTDOWN", "driver_task"} /\ "SHUTDOWN" \in F[i]
    BY <1>2, <1>7, AfterIs DEF Allowed
  <2>5. ~loopHeld => drv'[i] = "none"
    BY <1>4, <2>2, <2>4 DEF Shows, Ranges
  <2> QED
    BY <1>1, <1>2, <1>3, <1>4, <2>1, <2>3, <2>4, <2>5, DriverMoved DEF Shows
<1> QED
  BY <1>1, <1>2, <1>3, <1>5, <1>6, <1>7

LEMMA AwaitDisconnectedFollowed ==
  ASSUME NEW F \in [Inst -> SUBSET Facts], Follows(F), NEW i \in Inst, AwaitDisconnected(i)
  PROVE  Followed'
PROOF
<1>1. i \in Busy /\ todo[i] # <<>> /\ Head(todo[i]).op = "await_DISCONNECTED"
  BY BusyRuns DEF AwaitDisconnected
<1>2. PICK s \in Steps, G \in SUBSET Facts :
        s = Head(todo[i]) /\ G = After(s, F[i]) /\ Leads(i, G, Tail(todo[i]))
  BY <1>1, Goes
<1>3. G = F[i]
  BY <1>1, <1>2, AfterIs DEF Idle
<1>4. todo' = [todo EXCEPT ![i] = Tail(todo[i])]
      /\ UNCHANGED <<held, life, started, state, drv, flags, sema, shared>>
  BY DEF AwaitDisconnected, Continue, own, driver
<1> QED
  BY <1>1, <1>2, <1>3, <1>4, Turn

-------------------------------------------------------------------------------
(* The steps around the loop.                                              *)

\* The driver's task is created, and the driver counts.
LEMMA TaskCreateFollowed ==
  ASSUME Ranges, NEW F \in [Inst -> SUBSET Facts], Follows(F), NEW i \in Tcp, TaskCreate(i)
  PROVE  Followed'
PROOF
<1>0. i \in Inst
  BY TcpInst
<1>1. i \in Busy /\ todo[i] # <<>> /\ Head(todo[i]).op = "task_create"
  BY <1>0, BusyRuns DEF TaskCreate
<1>2. PICK s \in Steps, G \in SUBSET Facts :
        /\ s = Head(todo[i]) /\ G = After(s, F[i]) /\ Allowed(i, s, F[i])
        /\ Leads(i, G, Tail(todo[i]))
  BY <1>0, <1>1, Goes
<1>3. /\ G = (F[i] \ {"opening"}) \cup {"driver_task", "counted"}
      /\ "opening" \in F[i] /\ "counted" \notin F[i] /\ "sema" \notin F[i]
  BY <1>1, <1>2, AfterIs DEF Allowed
<1>4. /\ drv' = [drv EXCEPT ![i] = "running"] /\ loopCount' = loopCount + 1
      /\ UNCHANGED <<held, life, started, state, flags, sema, inLoop, loop, apart, loopHeld>>
      /\ counting' = counting \ {i}
      /\ todo' = [todo EXCEPT ![i] = Tail(todo[i])]
  BY DEF TaskCreate, Continue, own
<1>5. Shows(i, F[i])
  BY <1>0 DEF Follows
<1>6. held' \in [Inst -> SUBSET Resources] /\ (inLoop \subseteq Tcp \X Events)' /\ OneCounts'
  BY <1>4 DEF Follows, OneCounts
<1>7. \A j \in Inst : j # i => Shows(j, F[j])'
  BY <1>4 DEF Follows, Shows, Ranges
<1>8. Shows(i, G)'
  <2>1. held[i] = G \cap Resources
    BY <1>3, <1>5, FactsApart DEF Shows, Marks
  <2>2. sema[i] = "none"
    BY <1>3, <1>5 DEF Shows
  <2>3. \A e \in Events : e \in G <=> e \in F[i]
    BY <1>3 DEF Events
  <2> QED
    BY <1>3, <1>4, <1>5, <2>1, <2>2, <2>3 DEF Shows
<1> DEFINE H == [F EXCEPT ![i] = G]
<1>9. /\ {j \in Tcp : "counted" \in H[j]} = {j \in Tcp : "counted" \in F[j]} \cup {i}
      /\ i \notin {j \in Tcp : "counted" \in F[j]}
  BY <1>0, <1>3, TcpInst
<1>10. Counts(H)'
  <2>1. Cardinality({j \in Tcp : "counted" \in F[j]} \cup {i})
          = Cardinality({j \in Tcp : "counted" \in F[j]}) + 1
    BY <1>9, CountedFinite, FS_AddElement
  <2> HIDE DEF H
  <2> QED
    BY <1>4, <1>9, <2>1 DEF Follows, Counts
<1>11. LoopKept(H)'
  <2>1. apart => loop
    BY <1>3 DEF Follows, LoopKept
  <2>2. loopCount' > 0
    BY <1>4 DEF Ranges
  <2> HIDE DEF H
  <2> QED
    BY <1>4, <2>1, <2>2 DEF LoopKept, Ranges
<1> QED
  BY <1>0, <1>1, <1>2, <1>4, <1>6, <1>7, <1>8, <1>10, <1>11, Advance

LEMMA LoopInitFollowed ==
  ASSUME Ranges, NEW F \in [Inst -> SUBSET Facts], Follows(F), NEW i \in Tcp,
         mb_drv_event_loop_init(i)
  PROVE  Followed'
PROOF
<1>0. i \in Inst
  BY TcpInst
<1>1. i \in Busy /\ todo[i] # <<>> /\ Head(todo[i]).op = "loop_init"
  BY <1>0, BusyRuns DEF mb_drv_event_loop_init
<1>2. PICK s \in Steps, G \in SUBSET Facts :
        s = Head(todo[i]) /\ G = After(s, F[i]) /\ Leads(i, G, Tail(todo[i]))
  BY <1>0, <1>1, Goes
<1>3. G = F[i] \cup {"opening"}
  BY <1>1, <1>2, AfterIs
<1>4. /\ loop' = (loop \/ loopCount = 0)
      /\ UNCHANGED <<held, life, started, state, drv, flags, sema, inLoop, loopCount, loopHeld>>
      /\ counting' = counting \cup {i} /\ apart' = (apart /\ counting = {})
      /\ todo' = [todo EXCEPT ![i] = Tail(todo[i])]
  BY DEF mb_drv_event_loop_init, EntersCount, Continue, own, driver
<1>5. held' \in [Inst -> SUBSET Resources] /\ (inLoop \subseteq Tcp \X Events)' /\ OneCounts'
  BY <1>4 DEF Follows, OneCounts
<1>6. \A j \in Inst : j # i => Shows(j, F[j])'
  BY <1>4 DEF Follows, Shows
<1>7. Shows(i, G)'
  <2>1. Shows(i, F[i])
    BY <1>0 DEF Follows
  <2>2. held[i] = G \cap Resources
    BY <1>3, <2>1, FactsApart DEF Shows, Marks
  <2>3. \A e \in Events : e \in G <=> e \in F[i]
    BY <1>3 DEF Events
  <2> QED
    BY <1>3, <1>4, <2>1, <2>2, <2>3 DEF Shows
<1> DEFINE H == [F EXCEPT ![i] = G]
<1>8. {j \in Tcp : "counted" \in H[j]} = {j \in Tcp : "counted" \in F[j]}
  BY <1>0, <1>3, TcpInst
<1>9. Counts(H)'
  <2> HIDE DEF H
  <2> QED
    BY <1>4, <1>8 DEF Follows, Counts
<1>10. LoopKept(H)'
  <2>1. "opening" \in H[i]
    BY <1>0, <1>3
  <2>2. apart' => loop'
    <3>1. loopCount = 0 \/ loopCount > 0
      BY DEF Ranges
    <3>2. apart' /\ loopCount > 0 => loop
      BY <1>4 DEF Follows, LoopKept
    <3> QED
      BY <1>4, <3>1, <3>2
  <2>3. loop' \in BOOLEAN
    BY <1>4 DEF Ranges
  <2> HIDE DEF H
  <2> QED
    BY <2>1, <2>2, <2>3 DEF LoopKept
<1> QED
  BY <1>0, <1>1, <1>2, <1>4, <1>5, <1>6, <1>7, <1>9, <1>10, Advance

\* A driver counts itself down; the loop stays.
LEMMA UncountLoopFollowed ==
  ASSUME Ranges, NEW F \in [Inst -> SUBSET Facts], Follows(F), NEW i \in Tcp, UncountLoop(i)
  PROVE  Followed'
PROOF
<1>0. i \in Inst /\ (i \in TcpSlaves \/ i \in TcpMasters)
  BY TcpInst DEF Tcp
<1>1. i \in Busy /\ todo[i] # <<>> /\ Head(todo[i]).op = "loop_uncount"
  BY <1>0, BusyRuns DEF UncountLoop
<1>2. PICK s \in Steps, G \in SUBSET Facts :
        /\ s = Head(todo[i]) /\ G = After(s, F[i]) /\ Allowed(i, s, F[i])
        /\ Sound(i, F[i]) /\ Sound(i, G) /\ Leads(i, G, Tail(todo[i]))
  BY <1>0, <1>1, Goes
<1>3. /\ G = (F[i] \ {"counted", "looped", "ERROR"}) \cup {"opening"}
      /\ "counted" \in F[i] /\ "looped" \in F[i] /\ "sema" \in F[i]
  BY <1>1, <1>2, AfterIs DEF Allowed
<1>4. Shows(i, F[i])
  BY <1>0 DEF Follows
<1> DEFINE C == {j \in Tcp : "counted" \in F[j]}
           H == [F EXCEPT ![i] = G]
<1>5. IsFiniteSet(C) /\ i \in C /\ loopCount = Cardinality(C)
  BY <1>3, CountedFinite DEF Follows, Counts
<1>6. {j \in Tcp : "counted" \in H[j]} = C \ {i}
  BY <1>0, <1>3, TcpInst
<1>7. Cardinality(C \ {i}) = loopCount - 1 /\ loopCount > 0
  <2>1. \A j \in C : Cardinality(C \ {j}) = Cardinality(C) - 1
    BY <1>5, FS_RemoveElement
  <2>2. IsFiniteSet(C \ {i})
    BY <1>5, FS_Subset
  <2>3. Cardinality(C \ {i}) \in Nat
    BY <2>2, FS_CardinalityType
  <2>4. Cardinality(C \ {i}) = loopCount - 1
    BY <1>5, <2>1
  <2> HIDE DEF C
  <2> QED
    BY <2>3, <2>4 DEF Ranges
<1>8. /\ loopCount' = loopCount - 1 /\ loop
      /\ UNCHANGED <<held, life, started, state, drv, flags, sema, inLoop, loop, loopHeld>>
      /\ counting' = counting \cup {i} /\ apart' = (apart /\ counting = {})
      /\ todo' = [todo EXCEPT ![i] = Tail(todo[i])]
  <2>1. loop
    BY <1>3, <1>4 DEF Shows
  <2> HIDE DEF C
  <2> QED
    BY <1>7, <2>1 DEF UncountLoop, EntersCount, Continue, own, driver
<1>9. Counts(H)'
  <2> HIDE DEF H, C
  <2> QED
    BY <1>6, <1>7, <1>8 DEF Counts
<1>10. G \cap Events = {}
  <2>1. "looped" \notin G
    BY <1>3
  <2> QED
    BY <1>2, <2>1 DEF Sound
<1>11. ~(<<i, "CLOSE">> \in inLoop) /\ ~(<<i, "TIMEOUT">> \in inLoop)
       /\ (i \in TcpMasters => ~(<<i, "ERROR">> \in inLoop))
  <2>1. "CLOSE" \notin F[i] /\ "TIMEOUT" \notin F[i] /\ (i \in TcpMasters => "ERROR" \notin F[i])
    BY <1>2, <1>3 DEF Sound
  <2>2. i \in TcpMasters => i \notin TcpSlaves
    BY <1>0, Kinds
  <2>3. {"CLOSE", "TIMEOUT", "ERROR"} \subseteq Events
    BY DEF Events
  <2> QED
    BY <1>4, <2>1, <2>2, <2>3 DEF Shows
<1>12. Shows(i, G)'
  <2>1. held[i] = G \cap Resources
    BY <1>3, <1>4, FactsApart DEF Shows, Marks, Events
  <2>2. \A e \in Events : e \notin G /\ (<<i, e>> \in inLoop' => i \in TcpSlaves /\ e = "ERROR")
    BY <1>0, <1>8, <1>10, <1>11 DEF Events
  <2> QED
    BY <1>3, <1>4, <1>8, <2>1, <2>2 DEF Shows
<1>13. \A j \in Inst : j # i => Shows(j, F[j])'
  BY <1>8 DEF Follows, Shows
<1>14. held' \in [Inst -> SUBSET Resources] /\ (inLoop \subseteq Tcp \X Events)' /\ OneCounts'
  BY <1>8 DEF Follows, OneCounts
<1>15. LoopKept(H)'
  <2>1. "opening" \in H[i]
    BY <1>0, <1>3
  <2> HIDE DEF H, C
  <2> QED
    BY <1>8, <2>1 DEF LoopKept, Ranges
<1> QED
  BY <1>0, <1>2, <1>8, <1>9, <1>12, <1>13, <1>14, <1>15, Advance

\* The last driver takes the loop with it: no other counts, so that no other
\* has a handler there.
LEMMA DeleteLoopFollowed ==
  ASSUME Ranges, NEW F \in [Inst -> SUBSET Facts], Follows(F), NEW i \in Tcp, DeleteLoop(i)
  PROVE  Followed'
PROOF
<1>0. i \in Inst
  BY TcpInst
<1>1. i \in Busy /\ todo[i] # <<>> /\ Head(todo[i]).op = "loop_delete"
  BY <1>0, BusyRuns DEF DeleteLoop
<1>2. PICK s \in Steps, G \in SUBSET Facts :
        /\ s = Head(todo[i]) /\ G = After(s, F[i]) /\ Allowed(i, s, F[i])
        /\ Sound(i, F[i]) /\ Sound(i, G) /\ Leads(i, G, Tail(todo[i]))
  BY <1>0, <1>1, Goes
<1>3. /\ G = F[i] \ {"opening"}
      /\ "opening" \in F[i] /\ "counted" \notin F[i] /\ "looped" \notin F[i]
  BY <1>1, <1>2, AfterIs DEF Allowed
<1>4. /\ IF loopCount = 0 THEN loop' = FALSE /\ inLoop' = {} ELSE UNCHANGED <<loop, inLoop>>
      /\ UNCHANGED <<held, life, started, state, drv, flags, sema, loopCount, apart, loopHeld>>
      /\ counting' = counting \ {i}
      /\ todo' = [todo EXCEPT ![i] = Tail(todo[i])]
  BY DEF DeleteLoop, Continue, own, driver
<1>5. inLoop' \subseteq inLoop
  BY <1>4
<1> DEFINE H == [F EXCEPT ![i] = G]
<1>6. /\ \A j \in Tcp : "counted" \in H[j] <=> "counted" \in F[j]
      /\ \A j \in Tcp : "opening" \in H[j] <=> j # i /\ "opening" \in F[j]
  BY <1>0, <1>3, TcpInst
<1>7. Counts(H)'
  <2> HIDE DEF H
  <2>1. {j \in Tcp : "counted" \in H[j]} = {j \in Tcp : "counted" \in F[j]}
    BY <1>6
  <2> QED
    BY <1>4, <2>1 DEF Follows, Counts
<1>8. ASSUME loopCount = 0
      PROVE  \A j \in Tcp : "counted" \notin F[j]
  <2> DEFINE C == {j \in Tcp : "counted" \in F[j]}
  <2>1. IsFiniteSet(C) /\ Cardinality(C) = 0
    BY <1>8, CountedFinite DEF Follows, Counts
  <2>2. C = {}
    <3> HIDE DEF C
    <3> QED
      BY <2>1, FS_EmptySet
  <2> QED
    BY <2>2
<1>9. ASSUME NEW j \in Inst
      PROVE  /\ \A e \in Events : /\ e \in F[j] => <<j, e>> \in inLoop'
                                  /\ <<j, e>> \in inLoop' /\ ~(j \in TcpSlaves /\ e = "ERROR")
                                       => e \in F[j]
             /\ j \in Tcp /\ "looped" \in F[j] => loop'
  <2>1. Shows(j, F[j]) /\ Sound(j, F[j])
    BY Rests DEF Follows
  <2>2. CASE loopCount # 0
    BY <1>4, <2>1, <2>2 DEF Shows
  <2>3. CASE loopCount = 0 /\ j \in Tcp
    <3>1. "looped" \notin F[j] /\ F[j] \cap Events = {}
      BY <1>8, <2>1, <2>3 DEF Sound
    <3> QED
      BY <1>4, <2>3, <3>1
  <2>4. CASE j \notin Tcp
    <3>1. \A e \in Events : <<j, e>> \notin inLoop
      BY <2>4 DEF Follows
    <3> QED
      BY <1>5, <2>1, <2>4, <3>1 DEF Shows
  <2> QED
    BY <2>2, <2>3, <2>4
<1>10. Shows(i, G)'
  <2>1. Shows(i, F[i])
    BY <1>0 DEF Follows
  <2>2. held[i] = G \cap Resources
    BY <1>3, <2>1, FactsApart DEF Shows, Marks
  <2>3. \A e \in Events : e \in G <=> e \in F[i]
    BY <1>3 DEF Events
  <2> QED
    BY <1>0, <1>3, <1>4, <1>9, <2>1, <2>2, <2>3 DEF Shows
<1>11. ASSUME NEW j \in Inst, j # i PROVE Shows(j, F[j])'
  <2>1. Shows(j, F[j])
    BY DEF Follows
  <2> QED
    BY <1>4, <1>9, <1>11, <2>1 DEF Shows
<1>12. held' \in [Inst -> SUBSET Resources] /\ (inLoop \subseteq Tcp \X Events)' /\ OneCounts'
  BY <1>4, <1>5 DEF Follows, OneCounts
<1>13. LoopKept(H)'
  <2> SUFFICES ASSUME apart
               PROVE  loop' <=> loopCount' > 0 \/ \E j \in Tcp : "opening" \in H[j]
    BY <1>4 DEF LoopKept
  <2>1. ~ \E j \in Tcp : "opening" \in H[j]
    <3> SUFFICES ASSUME NEW j \in Tcp, j # i, "opening" \in F[j] PROVE FALSE
      BY <1>6
    <3>1. Shows(i, F[i]) /\ Shows(j, F[j])
      BY <1>0, TcpInst DEF Follows
    <3>2. i \in counting /\ j \in counting
      BY <1>3, <3>1 DEF Shows
    <3> QED
      BY <3>2 DEF Follows, OneCounts
  <2>2. loop
    BY <1>3 DEF Follows, LoopKept
  <2> HIDE DEF H
  <2>3. CASE loopCount = 0
    <3>1. loop' = FALSE /\ ~(loopCount' > 0)
      BY <1>4, <2>3
    <3> QED
      BY <2>1, <3>1
  <2>4. CASE loopCount # 0
    <3>1. loop' = TRUE /\ loopCount' > 0
      BY <1>4, <2>2, <2>4 DEF Ranges
    <3> QED
      BY <3>1
  <2> QED
    BY <2>3, <2>4
<1> QED
  BY <1>0, <1>2, <1>4, <1>7, <1>10, <1>11, <1>12, <1>13, Advance

LEMMA RegisterFollowed ==
  ASSUME NEW F \in [Inst -> SUBSET Facts], Follows(F), NEW i \in Tcp, mb_drv_register_handler(i)
  PROVE  Followed'
PROOF
<1>0. i \in Inst
  BY TcpInst
<1>1. i \in Busy /\ todo[i] # <<>> /\ Head(todo[i]).op = "register"
  BY <1>0, BusyRuns DEF mb_drv_register_handler
<1>2. PICK s \in Steps, G \in SUBSET Facts :
        /\ s = Head(todo[i]) /\ G = After(s, F[i]) /\ Allowed(i, s, F[i])
        /\ Leads(i, G, Tail(todo[i]))
  BY <1>0, <1>1, Goes
<1>3. G = F[i] \cup {s.of, "looped"} /\ s.of \in Events
  BY <1>1, <1>2, AfterIs DEF Allowed
<1>4. /\ loop /\ inLoop' = inLoop \cup {<<i, s.of>>}
      /\ UNCHANGED <<held, life, started, state, drv, flags, sema, loop, loopCount, counting, apart,
                     loopHeld>>
      /\ todo' = [todo EXCEPT ![i] = Tail(todo[i])]
  BY <1>2 DEF mb_drv_register_handler, Of, Continue, own, driver, counts
<1>5. held' \in [Inst -> SUBSET Resources] /\ (inLoop \subseteq Tcp \X Events)' /\ OneCounts'
  BY <1>3, <1>4 DEF Follows, OneCounts
<1>6. \A j \in Inst : j # i => Shows(j, F[j])'
  <2> SUFFICES ASSUME NEW j \in Inst, j # i PROVE Shows(j, F[j])'
    OBVIOUS
  <2>1. Shows(j, F[j])
    BY DEF Follows
  <2>2. \A e \in Events : <<j, e>> \in inLoop' <=> <<j, e>> \in inLoop
    BY <1>4
  <2> QED
    BY <1>4, <2>1, <2>2 DEF Shows
<1>7. \A m \in {"counted", "opening", "alive", "lost", "sema", "started", "enabled", "SHUTDOWN",
                "driver_task"} : m \in G <=> m \in F[i]
  BY <1>3 DEF Events
<1>8. Shows(i, G)'
  <2>1. Shows(i, F[i])
    BY <1>0 DEF Follows
  <2>2. held[i] = G \cap Resources
    BY <1>3, <2>1, FactsApart DEF Shows, Marks
  <2>3. \A e \in Events : /\ e \in G <=> e \in F[i] \/ e = s.of
                          /\ <<i, e>> \in inLoop' <=> <<i, e>> \in inLoop \/ e = s.of
    <3>1. "looped" \notin Events
      BY DEF Events
    <3> QED
      BY <1>3, <1>4, <3>1
  <2> QED
    BY <1>4, <1>7, <2>1, <2>2, <2>3 DEF Shows
<1> DEFINE H == [F EXCEPT ![i] = G]
<1>9. \A j \in Tcp : /\ "counted" \in H[j] <=> "counted" \in F[j]
                     /\ "opening" \in H[j] <=> "opening" \in F[j]
  BY <1>0, <1>7, TcpInst
<1>10. Counts(H)' /\ LoopKept(H)'
  <2> HIDE DEF H
  <2>1. {j \in Tcp : "counted" \in H[j]} = {j \in Tcp : "counted" \in F[j]}
    BY <1>9
  <2> QED
    BY <1>4, <1>9, <2>1 DEF Follows, Counts, LoopKept
<1> QED
  BY <1>0, <1>1, <1>2, <1>4, <1>5, <1>6, <1>8, <1>10, Advance

LEMMA UnregisterFollowed ==
  ASSUME NEW F \in [Inst -> SUBSET Facts], Follows(F), NEW i \in Tcp, mb_drv_unregister_handler(i)
  PROVE  Followed'
PROOF
<1>0. i \in Inst
  BY TcpInst
<1>1. i \in Busy /\ todo[i] # <<>> /\ Head(todo[i]).op = "unregister"
  BY <1>0, BusyRuns DEF mb_drv_unregister_handler
<1>2. PICK s \in Steps, G \in SUBSET Facts :
        /\ s = Head(todo[i]) /\ G = After(s, F[i]) /\ Allowed(i, s, F[i])
        /\ Leads(i, G, Tail(todo[i]))
  BY <1>0, <1>1, Goes
<1>3. G = F[i] \ {s.of} /\ s.of \in Events
  BY <1>1, <1>2, AfterIs DEF Allowed
<1>4. /\ inLoop' = inLoop \ {<<i, s.of>>}
      /\ UNCHANGED <<held, life, started, state, drv, flags, sema, loop, loopCount, counting, apart,
                     loopHeld>>
      /\ todo' = [todo EXCEPT ![i] = Tail(todo[i])]
  BY <1>2 DEF mb_drv_unregister_handler, Of, Continue, own, driver, counts
<1>5. held' \in [Inst -> SUBSET Resources] /\ (inLoop \subseteq Tcp \X Events)' /\ OneCounts'
  BY <1>4 DEF Follows, OneCounts
<1>6. \A j \in Inst : j # i => Shows(j, F[j])'
  <2> SUFFICES ASSUME NEW j \in Inst, j # i PROVE Shows(j, F[j])'
    OBVIOUS
  <2>1. Shows(j, F[j])
    BY DEF Follows
  <2>2. \A e \in Events : <<j, e>> \in inLoop' <=> <<j, e>> \in inLoop
    BY <1>4
  <2> QED
    BY <1>4, <2>1, <2>2 DEF Shows
<1>7. \A m \in {"counted", "opening", "alive", "lost", "sema", "started", "enabled", "SHUTDOWN",
                "looped", "driver_task"} : m \in G <=> m \in F[i]
  BY <1>3 DEF Events
<1>8. Shows(i, G)'
  <2>1. Shows(i, F[i])
    BY <1>0 DEF Follows
  <2>2. held[i] = G \cap Resources
    BY <1>3, <2>1, FactsApart DEF Shows
  <2>3. \A e \in Events : /\ e \in G <=> e \in F[i] /\ e # s.of
                          /\ <<i, e>> \in inLoop' <=> <<i, e>> \in inLoop /\ e # s.of
    BY <1>3, <1>4
  <2> QED
    BY <1>4, <1>7, <2>1, <2>2, <2>3 DEF Shows
<1> DEFINE H == [F EXCEPT ![i] = G]
<1>9. \A j \in Tcp : /\ "counted" \in H[j] <=> "counted" \in F[j]
                     /\ "opening" \in H[j] <=> "opening" \in F[j]
  BY <1>0, <1>7, TcpInst
<1>10. Counts(H)' /\ LoopKept(H)'
  <2> HIDE DEF H
  <2>1. {j \in Tcp : "counted" \in H[j]} = {j \in Tcp : "counted" \in F[j]}
    BY <1>9
  <2> QED
    BY <1>4, <1>9, <2>1 DEF Follows, Counts, LoopKept
<1> QED
  BY <1>0, <1>1, <1>2, <1>4, <1>5, <1>6, <1>8, <1>10, Advance

LEMMA PostCloseFollowed ==
  ASSUME NEW F \in [Inst -> SUBSET Facts], Follows(F), NEW i \in Tcp, PostClose(i)
  PROVE  Followed'
PROOF
<1>0. i \in Inst
  BY TcpInst
<1>1. i \in Busy /\ todo[i] # <<>> /\ Head(todo[i]).op = "post_CLOSE"
  BY <1>0, BusyRuns DEF PostClose
<1>2. PICK s \in Steps, G \in SUBSET Facts :
        s = Head(todo[i]) /\ G = After(s, F[i]) /\ Leads(i, G, Tail(todo[i]))
  BY <1>0, <1>1, Goes
<1>3. G = F[i]
  BY <1>1, <1>2, AfterIs DEF Idle
<1>4. /\ UNCHANGED <<held, life, started, state, drv, flags, sema, inLoop, loop, loopCount, counting,
                     apart, loopHeld>>
      /\ todo' = [todo EXCEPT ![i] = Tail(todo[i])]
  BY DEF PostClose, Continue, own, driver, counts
<1>5. OneCounts'
  BY <1>4 DEF Follows, OneCounts
<1>6. held' \in [Inst -> SUBSET Resources] /\ (inLoop \subseteq Tcp \X Events)'
  BY <1>4 DEF Follows
<1>7. \A j \in Inst : Shows(j, F[j])'
  BY <1>4 DEF Follows, Shows
<1>8. [F EXCEPT ![i] = G] = F
  BY <1>0, <1>3
<1>9. Counts(F)' /\ LoopKept(F)'
  BY <1>4 DEF Follows, Counts, LoopKept
<1> QED
  BY <1>0, <1>1, <1>2, <1>3, <1>4, <1>5, <1>6, <1>7, <1>8, <1>9, Advance

-------------------------------------------------------------------------------
(* The driver tasks.                                                       *)

LEMMA ObeyFollowed ==
  ASSUME Ranges, NEW F \in [Inst -> SUBSET Facts], Follows(F), NEW i \in Tcp,
         mb_drv_check_suspend_shutdown(i)
  PROVE  Followed'
PROOF
<1>0. i \in Inst
  BY TcpInst
<1>1. /\ drv[i] = "running" /\ sema[i] # "none"
      /\ drv' = [drv EXCEPT ![i] = IF "SHUTDOWN" \in flags[i] THEN "none" ELSE "suspended"]
      /\ sema' = [sema EXCEPT ![i] = "given"]
      /\ UNCHANGED <<todo, held, life, started, state, flags, inLoop, loop, loopCount, counting,
                     apart, loopHeld>>
  BY DEF mb_drv_check_suspend_shutdown, Told, Obeys, own, shared, counts
<1>2. \A j \in Inst : Shows(j, F[j])'
  <2> SUFFICES ASSUME NEW j \in Inst PROVE Shows(j, F[j])'
    OBVIOUS
  <2>1. Shows(j, F[j])
    BY DEF Follows
  <2>2. CASE j # i
    BY <1>1, <2>1, <2>2 DEF Shows, Ranges
  <2>3. CASE j = i
    <3>1. sema'[i] = "given" /\ drv'[i] = IF "SHUTDOWN" \in flags[i] THEN "none" ELSE "suspended"
      BY <1>0, <1>1 DEF Ranges
    <3> QED
      BY <1>1, <2>1, <2>3, <3>1 DEF Shows
  <2> QED
    BY <2>2, <2>3
<1> QED
  BY <1>1, <1>2, Aside

LEMMA PostEventFollowed ==
  ASSUME NEW F \in [Inst -> SUBSET Facts], Follows(F), NEW i \in Tcp, PostEvent(i)
  PROVE  Followed'
PROOF
<1>1. UNCHANGED <<todo, held, life, started, state, drv, flags, sema, inLoop, loop, loopCount,
                  counting, apart, loopHeld>>
  BY DEF PostEvent, own, driver, counts
<1>2. \A j \in Inst : Shows(j, F[j])'
  BY <1>1 DEF Follows, Shows
<1> QED
  BY <1>1, <1>2, Aside

\* A handler finds its instance told to stop only when it is the one that a TCP
\* slave leaves in the loop: the others are unregistered by then.
LEMMA ToldInHandler ==
  ASSUME Ranges, NEW F \in [Inst -> SUBSET Facts], Follows(F), NEW j \in Tcp, NEW e \in Events,
         <<j, e>> \in inLoop, Told(j)
  PROVE  j \in TcpSlaves /\ e = "ERROR" /\ <<j, "CLOSE">> \notin inLoop
PROOF
<1>1. j \in Inst /\ (j \in TcpSlaves \/ j \in TcpMasters)
  BY TcpInst DEF Tcp
<1>2. Shows(j, F[j]) /\ Sound(j, F[j])
  BY <1>1, Rests DEF Follows
<1>3. "sema" \in F[j]
  BY <1>2 DEF Told, Shows
<1>4. "CLOSE" \notin F[j] /\ "TIMEOUT" \notin F[j] /\ (j \in TcpMasters => "ERROR" \notin F[j])
  BY <1>2, <1>3 DEF Sound
<1>5. "CLOSE" \in Events /\ "CLOSE" # "ERROR"
  BY DEF Events
<1>6. <<j, "CLOSE">> \notin inLoop
  BY <1>2, <1>4, <1>5 DEF Shows
<1>7. j \in TcpSlaves /\ e = "ERROR"
  <2> SUFFICES ASSUME ~(j \in TcpSlaves /\ e = "ERROR") PROVE FALSE
    OBVIOUS
  <2>1. e \in F[j]
    BY <1>2 DEF Shows
  <2> QED
    BY <1>1, <1>4, <2>1 DEF Events
<1> QED
  BY <1>6, <1>7

LEMMA RunLoopFollowed ==
  ASSUME Ranges, NEW F \in [Inst -> SUBSET Facts], Follows(F), NEW t \in Tcp, RunLoop(t)
  PROVE  Followed'
PROOF
<1> DEFINE j == Head(queue)[1]
           e == Head(queue)[2]
           told == Head(queue) \in inLoop /\ Told(j)
<1>1. queue # <<>> /\ queue \in Seq(Tcp \X Events)
  BY DEF RunLoop, Ranges
<1>2. Head(queue) = <<j, e>> /\ j \in Tcp /\ e \in Events /\ j \in Inst /\ t \in Inst
  <2>1. Head(queue) \in Tcp \X Events
    BY <1>1
  <2> QED
    BY <2>1, TcpInst
<1>3. /\ flags' = flags \/ flags' = [flags EXCEPT ![j] = @ \cup {"DISCONNECTED"}]
      /\ loopHeld' = told /\ ~loopHeld
      /\ IF told THEN Obeys(t, j) ELSE UNCHANGED <<drv, sema>>
      /\ UNCHANGED <<todo, held, life, started, state, inLoop, loop, loopCount, counting, apart>>
  BY DEF RunLoop, own, counts
<1>4. \A k \in Inst : "SHUTDOWN" \in flags'[k] <=> "SHUTDOWN" \in flags[k]
  <2>1. flags \in [Inst -> SUBSET {"SUSPEND", "SHUTDOWN", "DISCONNECTED"}]
    BY DEF Ranges
  <2>2. flags' = flags \/ flags' = [flags EXCEPT ![j] = @ \cup {"DISCONNECTED"}]
    BY <1>3
  <2> HIDE DEF j, e, told
  <2> QED
    BY <1>2, <2>1, <2>2
<1>5. \A k \in Inst : Shows(k, F[k])'
  <2> SUFFICES ASSUME NEW k \in Inst PROVE Shows(k, F[k])'
    OBVIOUS
  <2>1. Shows(k, F[k]) /\ Shows(j, F[j])
    BY <1>2 DEF Follows
  <2>2. CASE told
    <3>1. sema' = [sema EXCEPT ![j] = "given"] /\ sema[j] # "none" /\ loopHeld'
      BY <1>3, <2>2 DEF Obeys, Told
    <3>2. sema'[k] # "none" => "sema" \in F[k]
      BY <1>2, <2>1, <3>1 DEF Shows, Ranges
    <3> HIDE DEF j, e, told
    <3> QED
      BY <1>3, <1>4, <2>1, <3>1, <3>2 DEF Shows
  <2>3. CASE ~told
    <3>1. UNCHANGED <<drv, sema>>
      BY <1>3, <2>3
    <3> HIDE DEF j, e, told
    <3> QED
      BY <1>3, <1>4, <2>1, <3>1 DEF Shows
  <2> QED
    BY <2>2, <2>3
<1> HIDE DEF j, e, told
<1> QED
  BY <1>3, <1>5, Aside

LEMMA ConnDoneFollowed ==
  ASSUME NEW F \in [Inst -> SUBSET Facts], Follows(F), NEW i \in Tcp, mbc_tcp_master_conn_done_cb(i)
  PROVE  Followed'
PROOF
<1>1. CASE Panic
  BY <1>1, PanicFollowed
<1>2. CASE UNCHANGED <<todo, life, held, state, started, active, driver, shared>>
  <2>1. UNCHANGED <<todo, held, life, started, state, drv, flags, sema, inLoop, loop, loopCount,
                    counting, apart, loopHeld>>
    BY <1>2 DEF driver, shared, counts
  <2>2. \A j \in Inst : Shows(j, F[j])'
    BY <2>1 DEF Follows, Shows
  <2> QED
    BY <2>1, <2>2, Aside
<1> QED
  BY <1>1, <1>2 DEF mbc_tcp_master_conn_done_cb

-------------------------------------------------------------------------------
(* The invariant holds.                                                    *)

LEMMA FollowedKept ==
  ASSUME Ranges, Followed, Next
  PROVE  Followed'
PROOF
<1>1. PICK F \in [Inst -> SUBSET Facts] : Follows(F)
  BY DEF Followed
<1>2. ASSUME NEW i \in Inst, CreatePanics(i) PROVE Followed'
  BY <1>2, PanicFollowed DEF CreatePanics
<1>3. ASSUME NEW i \in Inst, CallStep(i) PROVE Followed'
  BY <1>1, <1>2, <1>3, GetStepFollowed, PutStepFollowed, ControllerFailsFollowed,
     FunctionsFailFollowed, CreatedFollowed, DeletedFollowed, AbandonedFollowed, EnableFollowed,
     EnabledFollowed, DisableFollowed, DisabledFollowed, AwaitConnectedFollowed,
     SetStartedFollowed, ClearStartedFollowed, InactiveFollowed, StopActiveFollowed,
     DeleteObjectFollowed DEF CallStep
<1>4. ASSUME NEW i \in Tcp, DriverStep(i) PROVE Followed'
  <2>1. i \in Inst
    BY TcpInst
  <2>2. CallFindsNoLoop(i) => Followed'
    BY PanicFollowed DEF CallFindsNoLoop
  <2> QED
    BY <1>1, <1>4, <2>1, <2>2, TaskCreateFollowed, ResumeFollowed, SetFlagsFollowed, SemaFollowed,
       AwaitDriverFollowed, LoopInitFollowed, UncountLoopFollowed, DeleteLoopFollowed,
       RegisterFollowed, UnregisterFollowed, PostCloseFollowed, AwaitDisconnectedFollowed
    DEF DriverStep
<1>5. ASSUME NEW i \in Tcp, Task(i) PROVE Followed'
  <2>1. TaskFindsNoLoop(i) => Followed'
    BY PanicFollowed DEF TaskFindsNoLoop
  <2> QED
    BY <1>1, <1>5, <2>1, ObeyFollowed, PostEventFollowed, RunLoopFollowed, ConnDoneFollowed
    DEF Task
<1> QED
  BY <1>1, <1>3, <1>4, <1>5, CallFollowed DEF Next

LEMMA RangesPanic ==
  ASSUME Ranges, Panic, faults' \in 0 .. MaxFaults
  PROVE  Ranges'
PROOF
<1>1. 0 <= MaxQueue
  BY InstancesAssumption
<1>2. queue' = <<>> /\ <<>> \in Seq(Tcp \X Events) /\ Len(<<>>) = 0
  BY EmptySeq DEF Panic
<1> QED
  BY <1>1, <1>2 DEF Ranges, Panic

LEMMA RangesFault ==
  ASSUME Ranges, Fault \/ UNCHANGED faults
  PROVE  faults' \in 0 .. MaxFaults
PROOF
<1>1. MaxFaults \in Nat
  BY InstancesAssumption
<1> QED
  BY <1>1 DEF Ranges, Fault

LEMMA RangesCalls ==
  ASSUME Ranges, NEW i \in Inst, Create(i) \/ Start(i) \/ Stop(i) \/ Delete(i) \/ CallStep(i)
  PROVE  Ranges'
PROOF
<1>1. CASE Create(i) \/ Start(i) \/ Stop(i) \/ Delete(i)
  BY <1>1 DEF Create, Start, Stop, Delete, Call, own, driver, shared, counts, Ranges
<1>2. CASE GetStep(i) \/ PutStep(i)
  BY <1>2 DEF GetStep, PutStep, driver, shared, counts, Ranges
<1>3. CASE ControllerFails(i) \/ FunctionsFail(i)
  <2>1. faults' \in 0 .. MaxFaults
    BY <1>3, RangesFault DEF ControllerFails, FunctionsFail
  <2>2. UNCHANGED <<own, driver, shared>>
    BY <1>3 DEF ControllerFails, FunctionsFail
  <2> QED
    BY <2>1, <2>2 DEF own, driver, shared, counts, Ranges
<1>4. CASE CreatePanics(i)
  BY <1>4, RangesFault, RangesPanic DEF CreatePanics
<1>5. CASE Created(i)
  BY <1>5 DEF Created, driver, shared, counts, Ranges
<1>6. CASE Deleted(i)
  BY <1>6 DEF Deleted, driver, shared, counts, Ranges
<1>7. CASE Abandoned(i)
  BY <1>7 DEF Abandoned, driver, shared, counts, Ranges
<1>8. CASE Enable(i) \/ Disable(i) \/ DeleteObject(i)
  BY <1>8 DEF Enable, Disable, DeleteObject, own, driver, shared, counts, Ranges
<1>9. CASE Enabled(i) \/ Disabled(i)
  BY <1>9 DEF Enabled, Disabled, driver, shared, counts, Ranges
<1>10. CASE AwaitConnected(i)
  <2>1. faults' \in 0 .. MaxFaults
    BY <1>10, RangesFault DEF AwaitConnected
  <2>2. UNCHANGED <<own, driver, shared>>
    BY <1>10 DEF AwaitConnected
  <2> QED
    BY <2>1, <2>2 DEF own, driver, shared, counts, Ranges
<1>11. CASE SetStarted(i)
  BY <1>11 DEF SetStarted, driver, shared, counts, Ranges
<1>12. CASE ClearStarted(i) \/ ClearStartedLate(i)
  BY <1>12 DEF ClearStarted, ClearStartedLate, driver, shared, counts, Ranges
<1>13. CASE Inactive(i)
  BY <1>13 DEF Inactive, driver, shared, counts, Ranges
<1>14. CASE StopActive(i)
  BY <1>14 DEF StopActive, driver, shared, counts, Ranges
<1> QED
  BY <1>1, <1>2, <1>3, <1>4, <1>5, <1>6, <1>7, <1>8, <1>9, <1>10, <1>11, <1>12, <1>13, <1>14
  DEF CallStep

LEMMA RangesPost ==
  ASSUME Ranges, NEW i \in Tcp, NEW e \in Events, Post(i, e)
  PROVE  queue' \in Seq(Tcp \X Events) /\ Len(queue') <= MaxQueue
PROOF
<1>1. MaxQueue \in Nat /\ <<i, e>> \in Tcp \X Events
  BY InstancesAssumption
<1> QED
  BY <1>1 DEF Post, Ranges

LEMMA RangesDrivers ==
  ASSUME Ranges, NEW i \in Tcp, DriverStep(i)
  PROVE  Ranges'
PROOF
<1>0. i \in Inst /\ MaxQueue \in Nat
  BY TcpInst, InstancesAssumption
<1>1. CASE TaskCreate(i)
  BY <1>0, <1>1 DEF TaskCreate, own, Ranges
<1>2. CASE Resume(i)
  BY <1>0, <1>2 DEF Resume, own, shared, counts, Ranges
<1>3. CASE SetFlags(i)
  <2>1. flags' \in [Inst -> SUBSET {"SUSPEND", "SHUTDOWN", "DISCONNECTED"}]
    BY <1>0, <1>3 DEF SetFlags, Ranges
  <2>2. UNCHANGED <<own, drv, sema, shared, faults>>
    BY <1>3 DEF SetFlags
  <2> QED
    BY <2>1, <2>2 DEF own, shared, counts, Ranges
<1>4. CASE SemaCreate(i) \/ SemaDelete(i)
  BY <1>0, <1>4 DEF SemaCreate, SemaDelete, own, shared, counts, Ranges
<1>5. CASE AwaitDriver(i)
  <2>1. faults' \in 0 .. MaxFaults
    BY <1>5, RangesFault DEF AwaitDriver, AwaitCloseDone
  <2>2. drv' \in [Inst -> {"none", "running", "suspended"}]
    BY <1>0, <1>5 DEF AwaitDriver, AwaitCloseDone, Ranges
  <2>3. UNCHANGED <<own, flags, sema, inLoop, loop, counts, queue>>
        /\ (loopHeld' = loopHeld \/ loopHeld' = TRUE)
    BY <1>5 DEF AwaitDriver, AwaitCloseDone
  <2> QED
    BY <2>1, <2>2, <2>3 DEF own, counts, Ranges
<1>6. CASE mb_drv_event_loop_init(i)
  BY <1>0, <1>6 DEF mb_drv_event_loop_init, EntersCount, own, driver, Ranges
<1>7. CASE UncountLoop(i)
  <2>1. loopCount' \in Nat
    BY <1>7 DEF UncountLoop, Ranges
  <2>2. /\ UNCHANGED <<own, driver, loop, loopHeld, queue, faults>>
        /\ counting' = counting \cup {i} /\ apart' = (apart /\ counting = {})
    BY <1>7 DEF UncountLoop, EntersCount
  <2> QED
    BY <2>1, <2>2 DEF own, driver, Ranges
<1>8. CASE DeleteLoop(i)
  <2>1. loop' \in BOOLEAN /\ queue' \in Seq(Tcp \X Events) /\ Len(queue') <= MaxQueue
    <3>1. <<>> \in Seq(Tcp \X Events) /\ Len(<<>>) = 0
      BY EmptySeq
    <3>2. \/ loop' = FALSE /\ queue' = <<>>
          \/ loop' = loop /\ queue' = queue
      BY <1>8 DEF DeleteLoop
    <3>3. CASE loop' = FALSE /\ queue' = <<>>
      <4>1. Len(queue') = 0 /\ queue' \in Seq(Tcp \X Events)
        BY <3>1, <3>3
      <4>2. Len(queue') <= MaxQueue
        BY <1>0, <4>1
      <4> QED
        BY <3>3, <4>1, <4>2
    <3>4. CASE loop' = loop /\ queue' = queue
      BY <3>4 DEF Ranges
    <3> QED
      BY <3>2, <3>3, <3>4
  <2>2. UNCHANGED <<own, driver, loopCount, apart, loopHeld, faults>> /\ counting' = counting \ {i}
    BY <1>8 DEF DeleteLoop
  <2> QED
    BY <2>1, <2>2 DEF own, driver, Ranges
<1>9. CASE mb_drv_register_handler(i) \/ mb_drv_unregister_handler(i)
  BY <1>9 DEF mb_drv_register_handler, mb_drv_unregister_handler, own, driver, counts, Ranges
<1>10. CASE PostClose(i)
  <2>1. queue' \in Seq(Tcp \X Events) /\ Len(queue') <= MaxQueue
    BY <1>10, RangesPost DEF PostClose, Events
  <2>2. UNCHANGED <<own, driver, loop, counts, loopHeld, faults>>
    BY <1>10 DEF PostClose
  <2> QED
    BY <2>1, <2>2 DEF own, driver, counts, Ranges
<1>11. CASE AwaitDisconnected(i)
  <2>1. faults' \in 0 .. MaxFaults
    BY <1>11, RangesFault DEF AwaitDisconnected
  <2>2. UNCHANGED <<own, driver, shared>>
    BY <1>11 DEF AwaitDisconnected
  <2> QED
    BY <2>1, <2>2 DEF own, driver, shared, counts, Ranges
<1>12. CASE CallFindsNoLoop(i)
  BY <1>12, RangesFault, RangesPanic DEF CallFindsNoLoop
<1> QED
  BY <1>1, <1>2, <1>3, <1>4, <1>5, <1>6, <1>7, <1>8, <1>9, <1>10, <1>11, <1>12 DEF DriverStep

LEMMA RangesTasks ==
  ASSUME Ranges, NEW i \in Tcp, Task(i)
  PROVE  Ranges'
PROOF
<1>0. i \in Inst
  BY TcpInst
<1>1. CASE mb_drv_check_suspend_shutdown(i)
  <2>1. UNCHANGED <<own, flags, shared, faults>>
    BY <1>1 DEF mb_drv_check_suspend_shutdown
  <2>2. /\ drv' \in [Inst -> {"none", "running", "suspended"}]
        /\ sema' \in [Inst -> {"none", "empty", "given"}]
    BY <1>0, <1>1 DEF mb_drv_check_suspend_shutdown, Obeys, Ranges
  <2> QED
    BY <2>1, <2>2 DEF own, shared, counts, Ranges
<1>2. CASE PostEvent(i)
  <2>1. queue' \in Seq(Tcp \X Events) /\ Len(queue') <= MaxQueue
    BY <1>2, RangesPost DEF PostEvent, Events
  <2>2. UNCHANGED <<own, driver, loop, counts, loopHeld, faults>>
    BY <1>2 DEF PostEvent
  <2> QED
    BY <2>1, <2>2 DEF own, driver, counts, Ranges
<1>3. CASE RunLoop(i)
  <2> DEFINE j == Head(queue)[1]
             told == Head(queue) \in inLoop /\ Told(j)
  <2>1. queue # <<>> /\ queue' = Tail(queue) /\ queue \in Seq(Tcp \X Events) /\ Len(queue) <= MaxQueue
    BY <1>3 DEF RunLoop, Ranges
  <2>2. Head(queue) \in Tcp \X Events /\ queue' \in Seq(Tcp \X Events) /\ Len(queue') = Len(queue) - 1
    BY <2>1, HeadTailProperties
  <2>3. j \in Inst
    BY <2>2, TcpInst
  <2>4. /\ flags' = flags \/ flags' = [flags EXCEPT ![j] = @ \cup {"DISCONNECTED"}]
        /\ loopHeld' = told
        /\ IF told THEN Obeys(i, j) ELSE UNCHANGED <<drv, sema>>
        /\ UNCHANGED <<own, loop, counts, faults>>
    BY <1>3 DEF RunLoop
  <2>5. Len(queue') <= MaxQueue
    <3>1. MaxQueue \in Nat
      BY InstancesAssumption
    <3> QED
      BY <2>1, <2>2, <3>1
  <2>6. told \in BOOLEAN
    OBVIOUS
  <2> HIDE DEF j, told
  <2>7. flags' \in [Inst -> SUBSET {"SUSPEND", "SHUTDOWN", "DISCONNECTED"}]
    BY <2>3, <2>4 DEF Ranges
  <2>8. /\ drv' \in [Inst -> {"none", "running", "suspended"}]
        /\ sema' \in [Inst -> {"none", "empty", "given"}]
    BY <1>0, <2>3, <2>4 DEF Obeys, Ranges
  <2> QED
    BY <2>2, <2>4, <2>5, <2>6, <2>7, <2>8 DEF own, counts, Ranges
<1>4. CASE mbc_tcp_master_conn_done_cb(i)
  <2>1. faults' \in 0 .. MaxFaults
    BY <1>4, RangesFault DEF mbc_tcp_master_conn_done_cb
  <2>2. CASE Panic
    BY <2>1, <2>2, RangesPanic
  <2>3. CASE ~Panic
    <3>1. connected' = [connected EXCEPT ![i] = TRUE]
          /\ UNCHANGED <<todo, life, held, state, started, active, driver, shared>>
      BY <1>4, <2>3 DEF mbc_tcp_master_conn_done_cb
    <3> QED
      BY <1>0, <2>1, <3>1 DEF driver, shared, counts, Ranges
  <2> QED
    BY <2>2, <2>3
<1>5. CASE TaskFindsNoLoop(i)
  BY <1>5, RangesFault, RangesPanic DEF TaskFindsNoLoop
<1> QED
  BY <1>1, <1>2, <1>3, <1>4, <1>5 DEF Task

LEMMA InitIInv == Init => IInv
PROOF
<1> SUFFICES ASSUME Init PROVE IInv
  OBVIOUS
<1>1. Fresh
  BY DEF Init, Fresh
<1>2. Followed
  BY <1>1, FreshFollowed
<1>3. {MaxQueue, MaxFaults} \subseteq Nat
  BY InstancesAssumption
<1>4. queue = <<>> /\ <<>> \in Seq(Tcp \X Events) /\ Len(<<>>) = 0
  BY EmptySeq DEF Init
<1>5. Ranges
  <2>1. queue \in Seq(Tcp \X Events) /\ Len(queue) = 0
    BY <1>4
  <2>2. Len(queue) <= MaxQueue /\ 0 \in 0 .. MaxFaults
    BY <1>3, <2>1
  <2> QED
    BY <2>1, <2>2 DEF Init, Ranges
<1> QED
  BY <1>2, <1>5 DEF IInv

LEMMA NextIInv == IInv /\ [Next]_vars => IInv'
PROOF
<1> SUFFICES ASSUME IInv, [Next]_vars PROVE IInv'
  OBVIOUS
<1>1. CASE Next
  <2>1. Followed'
    BY <1>1, FollowedKept DEF IInv
  <2>2. Ranges'
    BY <1>1, RangesCalls, RangesDrivers, RangesTasks DEF Next, IInv
  <2> QED
    BY <2>1, <2>2 DEF IInv
<1>2. CASE UNCHANGED vars
  <2>1. UNCHANGED <<todo, held, life, started, state, active, connected, drv, flags, sema, inLoop,
                    loop, loopCount, counting, apart, loopHeld, queue, faults>>
    BY <1>2 DEF vars, own, driver, shared, counts
  <2>2. Ranges'
    BY <2>1 DEF IInv, Ranges
  <2>3. PICK F \in [Inst -> SUBSET Facts] : Follows(F)
    BY DEF IInv, Followed
  <2>4. \A j \in Inst : Shows(j, F[j])'
    BY <2>1, <2>3 DEF Follows, Shows
  <2> QED
    BY <2>1, <2>2, <2>3, <2>4, Aside DEF IInv
<1> QED
  BY <1>1, <1>2

LEMMA Invariance == Spec => []IInv
PROOF
  BY InitIInv, NextIInv, PTL DEF Spec

\* The variables stay in their ranges, in every order of the steps and with
\* calls on different instances at the same time or not; the counter of the
\* shared loop (mb_drv_loop_inst_counter) never exceeds the TCP drivers.
THEOREM TypeCorrect == Spec => []TypeOK
PROOF
<1>1. IInv => TypeOK
  <2> SUFFICES ASSUME IInv PROVE TypeOK
    OBVIOUS
  <2>1. PICK F \in [Inst -> SUBSET Facts] : Follows(F)
    BY DEF IInv, Followed
  <2>2. \A i \in Inst : held[i] \subseteq Resources
    BY <2>1 DEF Follows
  <2>3. loopCount \in 0 .. Cardinality(Tcp)
    <3> DEFINE C == {i \in Tcp : "counted" \in F[i]}
    <3>1. IsFiniteSet(Tcp) /\ C \subseteq Tcp
      BY InstancesAssumption
    <3>2. Cardinality(C) \in Nat /\ Cardinality(Tcp) \in Nat /\ Cardinality(C) <= Cardinality(Tcp)
      BY <3>1, FS_Subset, FS_CardinalityType
    <3> QED
      BY <2>1, <3>2 DEF Follows, Counts
  <2>4. inLoop \subseteq Tcp \X Events
    BY <2>1 DEF Follows
  <2> QED
    BY <2>2, <2>3, <2>4 DEF IInv, Ranges, TypeOK
<1> QED
  BY <1>1, Invariance, PTL

\* An instance between two calls that has anything has its event object too and,
\* when it is a TCP slave, its transactions.
LEMMA RestsWhole ==
  ASSUME NEW F \in [Inst -> SUBSET Facts], Follows(F), NEW i \in Inst, life[i] # "lost"
  PROVE  \/ F[i] = {}
         \/ "event" \in F[i] /\ (i \in TcpSlaves => "transactions" \in F[i])
         \/ Early(i) = {"event", "transactions"}
PROOF
<1>1. CASE todo[i] # <<>>
  BY <1>1 DEF Early
<1>2. CASE todo[i] = <<>>
  <2>1. AtRest(i, F[i]) /\ "lost" \notin F[i]
    BY <1>2, Rests DEF Follows, Shows
  <2>2. CASE F[i] = {}
    BY <1>2, <2>2
  <2>3. CASE Working(i, F[i])
    <3>1. "event" \in Whole(i) /\ (i \in TcpSlaves => "transactions" \in Whole(i))
      BY DEF Whole, ObjectOf, TransportOf
    <3>2. Whole(i) \subseteq F[i]
      BY <2>3 DEF Working
    <3> QED
      BY <1>2, <3>1, <3>2 DEF Early
  <2> QED
    BY <2>1, <2>2, <2>3 DEF AtRest
<1> QED
  BY <1>1, <1>2

\* What runs by itself has all it uses between the calls and, but for the event
\* object and the transactions, half-way through every call: with calls on
\* several instances at a time, lost connections and failures.  The driver
\* tasks lose that when one of them has been stopped inside a handler.
THEOREM UsersAlwaysGoneFirst == Spec => []UsersGoneFirst
PROOF
<1>1. IInv => UsersGoneFirst
  <2> SUFFICES ASSUME IInv, NEW i \in Inst, life[i] # "lost"
               PROVE  /\ \A r \in held[i] \cap DOMAIN Uses : Uses[r] \ Early(i) \subseteq held[i]
                      /\ ~loopHeld /\ drv[i] # "none" => DriverUses(i) \ Early(i) \subseteq held[i]
                      /\ \A e \in Events :
                           <<i, e>> \in inLoop /\ ~(i \in TcpSlaves /\ e = "ERROR")
                             => HandlerUses(i) \ Early(i) \subseteq held[i]
                      /\ started[i] /\ state[i] = "ENABLED"
                           => {"task", "object", "functions", "transport", "timer", "event", "port"}
                                \subseteq held[i]
    BY DEF UsersGoneFirst
  <2>1. PICK F \in [Inst -> SUBSET Facts] : Follows(F)
    BY DEF IInv, Followed
  <2>2. Shows(i, F[i]) /\ Sound(i, F[i]) /\ held[i] = F[i] \cap Resources
    BY <2>1, Rests DEF Follows, Shows
  <2>3. {"iface", "event_group", "port", "transport", "uart", "bus_sema", "driver", "flags",
         "task", "object", "functions", "timer", "event", "transactions"} \subseteq Resources
    BY DEF Resources, Controller
  <2>4. F[i] # {} => \A x \in {"event"} \cup (IF i \in TcpSlaves THEN {"transactions"} ELSE {}) :
                        x \in held[i] \/ x \in Early(i)
    BY <2>1, <2>2, <2>3, RestsWhole
  <2>5. \A r \in held[i] \cap DOMAIN Uses : Uses[r] \ Early(i) \subseteq held[i]
    <3>1. /\ DOMAIN Uses = {"task", "timer", "port_task"}
          /\ Uses["task"] = {"iface", "event_group"}
          /\ Uses["timer"] = {"port", "transport", "event"}
          /\ Uses["port_task"] = {"port", "uart", "bus_sema", "event"}
      BY DEF Uses
    <3>2. "task" \in held[i] => Uses["task"] \subseteq held[i]
      BY <2>2, <2>3, <3>1 DEF Sound
    <3>3. "timer" \in held[i] => Uses["timer"] \ Early(i) \subseteq held[i]
      BY <2>2, <2>3, <2>4, <3>1 DEF Sound
    <3>4. "port_task" \in held[i] => Uses["port_task"] \ Early(i) \subseteq held[i]
      BY <2>2, <2>3, <2>4, <3>1 DEF Sound
    <3> QED
      BY <3>1, <3>2, <3>3, <3>4
  <2>6. ASSUME ~loopHeld, drv[i] # "none" PROVE DriverUses(i) \ Early(i) \subseteq held[i]
    <3>1. {"driver", "flags", "port"} \subseteq held[i] /\ F[i] # {}
      BY <2>2, <2>3, <2>6 DEF Shows, Sound
    <3> QED
      BY <2>4, <3>1 DEF DriverUses
  <2>7. ASSUME NEW e \in Events, <<i, e>> \in inLoop, ~(i \in TcpSlaves /\ e = "ERROR")
        PROVE  HandlerUses(i) \ Early(i) \subseteq held[i]
    <3>1. e \in F[i]
      BY <2>2, <2>7 DEF Shows
    <3>2. {"driver", "port"} \subseteq held[i]
      BY <2>2, <2>3, <3>1 DEF Sound
    <3> QED
      BY <2>4, <3>1, <3>2 DEF HandlerUses, DriverUses
  <2>8. started[i] => {"task", "object", "functions", "transport", "timer", "event", "port"}
                        \subseteq held[i]
    BY <2>2, <2>3 DEF Shows, Sound
  <2> QED
    BY <2>5, <2>6, <2>7, <2>8
<1> QED
  BY <1>1, Invariance, PTL

\* An instance whose delete returned ESP_OK, or whose create failed without a
\* leak, has nothing left, also when calls on several instances overlap and
\* connections are lost; of the driver tasks that is so until one of them has
\* been stopped inside a handler.
THEOREM DeleteAlwaysFreesAll == Spec => []DeleteFreesAll
PROOF
<1>1. IInv => DeleteFreesAll
  <2> SUFFICES ASSUME IInv, NEW i \in Inst, life[i] = "absent", todo[i] = <<>>
               PROVE  /\ held[i] = {} /\ sema[i] = "none"
                      /\ ~loopHeld => drv[i] = "none"
                      /\ i \in TcpMasters => \A e \in Events : <<i, e>> \notin inLoop
                      /\ i \in TcpSlaves => \A e \in Events \ {"ERROR"} : <<i, e>> \notin inLoop
    BY DEF DeleteFreesAll
  <2>1. PICK F \in [Inst -> SUBSET Facts] : Follows(F)
    BY DEF IInv, Followed
  <2>2. Shows(i, F[i]) /\ AtRest(i, F[i])
    BY <2>1, Rests DEF Follows
  <2>3. F[i] = {}
    BY <2>2 DEF Shows, AtRest, Working
  <2>4. i \in TcpMasters => i \notin TcpSlaves
    BY Kinds
  <2> QED
    BY <2>2, <2>3, <2>4 DEF Shows
<1> QED
  BY <1>1, Invariance, PTL

\* An enabled port has its handlers in the loop, always.  As long as the calls
\* of mb_drv_event_loop_init and of mb_drv_event_loop_deinit come one after the
\* other, the loop exists while a driver's task does, unless one was stopped
\* inside a handler, and between the calls its counter is the number of the
\* drivers.
THEOREM LoopAlwaysServesAll == Spec => []LoopServesAll
PROOF
<1>1. IInv => LoopServesAll
  <2> SUFFICES ASSUME IInv PROVE LoopServesAll
    OBVIOUS
  <2>1. PICK F \in [Inst -> SUBSET Facts] : Follows(F)
    BY DEF IInv, Followed
  <2>2. \A i \in Tcp : i \in Inst /\ Shows(i, F[i]) /\ Sound(i, F[i])
    BY <2>1, TcpInst, Rests DEF Follows
  <2> DEFINE C == {i \in Tcp : "counted" \in F[i]}
  <2>3. loopCount = Cardinality(C) /\ IsFiniteSet(C)
    BY <2>1, CountedFinite DEF Follows, Counts
  <2>4. ASSUME apart, ~loopHeld, NEW i \in Tcp, drv[i] # "none" PROVE loop
    <3>1. i \in C
      BY <2>2, <2>4 DEF Shows, Sound
    <3>2. loopCount # 0
      <4> HIDE DEF C
      <4> QED
        BY <2>3, <3>1, FS_EmptySet
    <3> QED
      BY <2>1, <2>4, <3>2 DEF Follows, LoopKept, IInv, Ranges
  <2>5. ASSUME NEW i \in Tcp, state[i] = "ENABLED" PROVE {i} \X Events \subseteq inLoop
    BY <2>2, <2>5 DEF Shows, Sound
  <2>6. ASSUME apart, Busy = {}
        PROVE  /\ loopCount = Cardinality({i \in Tcp : "driver" \in held[i]})
               /\ loop = (loopCount > 0)
    <3>1. \A i \in Tcp : AtRest(i, F[i])
      BY <2>1, <2>2, <2>6, Rests DEF Busy
    <3>2. \A i \in Tcp : "opening" \notin F[i] /\ ("driver" \in F[i] <=> "counted" \in F[i])
      <4> SUFFICES ASSUME NEW i \in Tcp
                   PROVE  "opening" \notin F[i] /\ ("driver" \in F[i] <=> "counted" \in F[i])
        OBVIOUS
      <4>1. CASE Working(i, F[i])
        <5>1. {"driver", "counted"} \subseteq Whole(i) /\ "opening" \notin Whole(i)
          BY WholeIsFacts DEF Whole, ObjectOf, TransportOf, DriverFacts
        <5> QED
          BY <4>1, <5>1 DEF Working
      <4>2. CASE ~Working(i, F[i])
        BY <3>1, <4>2 DEF AtRest
      <4> QED
        BY <4>1, <4>2
    <3>3. "driver" \in Resources
      BY DEF Resources
    <3>4. C = {i \in Tcp : "driver" \in held[i]}
      BY <2>2, <3>2, <3>3 DEF Shows
    <3>5. loop <=> loopCount > 0
      BY <2>1, <2>6, <3>2 DEF Follows, LoopKept
    <3>6. loop \in BOOLEAN
      BY DEF IInv, Ranges
    <3> HIDE DEF C
    <3>7. loop = (loopCount > 0)
      BY <3>5, <3>6
    <3> QED
      BY <2>3, <3>4, <3>7
  <2> QED
    BY <2>4, <2>5, <2>6 DEF LoopServesAll
<1> QED
  BY <1>1, Invariance, PTL

\* The steps that may leave the loop's mutex behind.
LEMMA HeldBy ==
  ASSUME Next, ~loopHeld, loopHeld'
  PROVE  (\E i \in Tcp : AwaitDriver(i)) \/ (\E t \in Tcp : RunLoop(t))
PROOF
<1>1. ~Panic
  BY DEF Panic
<1>2. ~UNCHANGED shared
  BY DEF shared
<1>3. ASSUME NEW i \in Inst, Create(i) \/ Start(i) \/ Stop(i) \/ Delete(i) PROVE FALSE
  BY <1>2, <1>3 DEF Create, Start, Stop, Delete, Call
<1>4. ASSUME NEW i \in Inst, CallStep(i) PROVE FALSE
  BY <1>1, <1>2, <1>4 DEF CallStep, GetStep, PutStep, ControllerFails, FunctionsFail, CreatePanics,
     Created, Deleted, Abandoned, Enable, Enabled, Disable, Disabled, AwaitConnected, SetStarted,
     ClearStarted, ClearStartedLate, Inactive, StopActive, DeleteObject
<1>5. ASSUME NEW i \in Tcp, DriverStep(i) PROVE AwaitDriver(i)
  BY <1>1, <1>2, <1>5 DEF DriverStep, TaskCreate, Resume, SetFlags, SemaCreate, SemaDelete,
     mb_drv_event_loop_init, UncountLoop, DeleteLoop, mb_drv_register_handler,
     mb_drv_unregister_handler, PostClose, AwaitDisconnected, CallFindsNoLoop
<1>6. ASSUME NEW i \in Tcp, Task(i) PROVE RunLoop(i)
  BY <1>1, <1>2, <1>6 DEF Task, mb_drv_check_suspend_shutdown, PostEvent,
     mbc_tcp_master_conn_done_cb, TaskFindsNoLoop
<1> QED
  BY <1>3, <1>4, <1>5, <1>6 DEF Next

\* Only an ERROR event of a TCP slave that is being deleted, or a driver task
\* that is late for its own create or delete, leaves the loop's mutex with a
\* task that will not release it, whatever the instances and their calls.
THEOREM StopsOnlyInHandler == Spec => StoppedInHandler
PROOF
<1> DEFINE ByError ==
             \E i \in TcpSlaves : /\ queue # <<>> /\ Head(queue) = <<i, "ERROR">>
                                  /\ sema[i] # "none" /\ <<i, "CLOSE">> \notin inLoop
           ByDelay ==
             \E i \in Tcp : /\ drv[i] = "running" /\ faults' = faults + 1
                            /\ Runs(i, "await_suspend") \/ Runs(i, "await_shutdown")
<1>1. ASSUME IInv, [Next]_vars
      PROVE  [~loopHeld /\ loopHeld' => ByError \/ ByDelay]_vars
  <2> SUFFICES ASSUME Next, ~loopHeld, loopHeld' PROVE ByError \/ ByDelay
    BY <1>1
  <2>1. CASE \E i \in Tcp : AwaitDriver(i)
    <3>1. PICK i \in Tcp : AwaitDriver(i)
      BY <2>1
    <3>2. drv[i] = "running" /\ Fault /\ (Runs(i, "await_suspend") \/ Runs(i, "await_shutdown"))
      BY <3>1 DEF AwaitDriver, AwaitCloseDone
    <3>3. ByDelay
      BY <3>2 DEF Fault
    <3> QED
      BY <3>3
  <2>2. CASE \E t \in Tcp : RunLoop(t)
    <3>1. PICK t \in Tcp : RunLoop(t)
      BY <2>2
    <3> DEFINE j == Head(queue)[1]
               e == Head(queue)[2]
    <3>2. queue # <<>> /\ Head(queue) \in inLoop /\ Told(j)
      BY <3>1 DEF RunLoop
    <3>3. Head(queue) = <<j, e>> /\ j \in Tcp /\ e \in Events
      <4>1. Head(queue) \in Tcp \X Events
        BY <1>1, <3>2 DEF IInv, Ranges
      <4> QED
        BY <4>1
    <3> HIDE DEF j, e
    <3>4. PICK F \in [Inst -> SUBSET Facts] : Follows(F)
      BY <1>1 DEF IInv, Followed
    <3>5. j \in TcpSlaves /\ e = "ERROR" /\ <<j, "CLOSE">> \notin inLoop
      BY <1>1, <3>2, <3>3, <3>4, ToldInHandler DEF IInv
    <3>6. sema[j] # "none"
      BY <3>2 DEF Told
    <3>7. ByError
      BY <3>2, <3>3, <3>5, <3>6
    <3> QED
      BY <3>7
  <2> QED
    BY <2>1, <2>2, HeldBy
<1>2. Spec => [][~loopHeld /\ loopHeld' => ByError \/ ByDelay]_vars
  <2> HIDE DEF ByError, ByDelay
  <2> QED
    BY <1>1, Invariance, PTL DEF Spec
<1> QED
  BY <1>2, PTL DEF StoppedInHandler

=============================================================================
