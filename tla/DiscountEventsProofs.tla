------------------------ MODULE DiscountEventsProofs ------------------------
(***************************************************************************)
(* The discounts of the products agree with the events, for any number of  *)
(* events, products, server processes and calls of the admin: StatusAgrees *)
(* and DeletionResets.                                                     *)
(***************************************************************************)
EXTENDS DiscountEvents, TLAPS

(* TypeOK needs the shape of the calls and ticks: which fields are filled   *)
(* in at which step.                                                        *)

CallShape(a) ==
    LET c == call[a] IN
    /\ c.pc = "new" => c.op = "none" /\ c.id = None /\ c.seen = Absent
    /\ c.pc = "save" => c.op = "create"
    /\ c.pc \in {"conflict", "write"} => c.op = "update"
    /\ c.pc = "apply" => c.op \in {"update", "delete"}
    /\ c.pc = "remove" => c.op = "delete"
    /\ IF c.op = "none" THEN c.id = None ELSE c.id \in Events
    /\ c.op = "delete" \/ c.pc \in {"conflict", "write", "apply"} => c.seen \in Row
    /\ c.pc \in {"save", "conflict", "write"} \/ (c.pc = "apply" /\ c.op = "update") => c.data \in Row

TickShape(i) ==
    /\ tick[i].pc \in {"idle", "find"} => DOMAIN tick[i].todo = {}
    /\ tick[i].pc = "apply" => tick[i].current \in DOMAIN tick[i].todo
    /\ tick[i].pc # "apply" => tick[i].current = None

TypeInv ==
    /\ TypeOK
    /\ \A a \in Calls : CallShape(a)
    /\ \A i \in Instances : TickShape(i)

Todo == UNION {[S -> Row] : S \in SUBSET Events}

LEMMA AbsentIsNoRow == Absent \notin Row /\ Absent.status = "none"
BY DEF Absent, Row, Statuses

LEMMA IdleTickType == IdleTick \in Tick /\ <<>> \in Todo /\ DOMAIN IdleTick.todo = {} /\ DOMAIN <<>> = {}
<1>1. <<>> = [e \in {} |-> e]
  OBVIOUS
<1>2. <<>> \in [{} -> Row]
  BY <1>1
<1>3. <<>> \in Todo /\ DOMAIN <<>> = {}
  BY <1>2 DEF Todo
<1>4. 0 \in 0..MaxTime /\ None \in Events \cup {None}
  BY EventsAssumption
<1>5. QED
  BY <1>3, <1>4 DEF IdleTick, Tick, Todo

LEMMA InitTyped == Init => TypeInv
<1> SUFFICES ASSUME Init PROVE TypeInv
  OBVIOUS
<1>1. event \in [Events -> Row \cup {Absent}]
  BY EventsAssumption DEF Init, NewRow, Row, Statuses
<1>2. call \in [Calls -> Call]
  <2>1. NewCall \in Call
    BY DEF NewCall, Call
  <2>2. QED
    BY <2>1 DEF Init
<1>3. reach \in [Events -> SUBSET Products]
  <2>1. ASSUME NEW e \in Events
        PROVE  (IF Exists(e) THEN Covers[event[e].target] ELSE {}) \in SUBSET Products
    BY <1>1, EventsAssumption DEF Exists, Row
  <2>2. QED
    BY <2>1 DEF Init
<1>4. tick \in [Instances -> Tick]
  BY IdleTickType DEF Init
<1>5. TypeOK
  <2>1. /\ now = 0 /\ discount = [p \in Products |-> 0] /\ lock = None /\ shopUpdates = {}
        /\ touched = {} /\ raced = {} /\ kills = 0 /\ overtaken = FALSE
    BY DEF Init
  <2>2. 0 \in 0..MaxTime /\ 0 \in 0..MaxKills
    BY EventsAssumption
  <2>3. QED
    BY <1>1, <1>2, <1>3, <1>4, <2>1, <2>2 DEF TypeOK
<1>6. ASSUME NEW a \in Calls PROVE CallShape(a)
  BY AbsentIsNoRow DEF Init, CallShape, NewCall
<1>7. ASSUME NEW i \in Instances PROVE TickShape(i)
  BY IdleTickType DEF Init, TickShape, IdleTick
<1>8. QED
  BY <1>5, <1>6, <1>7 DEF TypeInv

\* What a step makes of its tick, field by field.
TickIs(i, pc, time, todo, current) ==
    /\ tick' \in [Instances -> Tick]
    /\ tick'[i].pc = pc /\ tick'[i].now = time /\ tick'[i].todo = todo /\ tick'[i].current = current
    /\ \A j \in Instances : j # i => tick'[j] = tick[j]

LEMMA TickFields ==
    ASSUME TypeOK, NEW i \in Instances
    PROVE  /\ tick' = [tick EXCEPT ![i] = IdleTick] => TickIs(i, "idle", 0, <<>>, None)
           /\ tick' = [tick EXCEPT ![i] = [IdleTick EXCEPT !.pc = "find", !.now = now]]
                 => TickIs(i, "find", now, <<>>, None)
           /\ \A todo \in Todo :
                 tick' = [tick EXCEPT ![i].pc = "next", ![i].todo = todo]
                    => TickIs(i, "next", tick[i].now, todo, tick[i].current)
           /\ \A todo \in Todo :
                 tick' = [tick EXCEPT ![i] = [tick[i] EXCEPT !.pc = "next", !.current = None, !.todo = todo]]
                    => TickIs(i, "next", tick[i].now, todo, None)
           /\ \A e \in Events :
                 tick' = [tick EXCEPT ![i].pc = "apply", ![i].current = e]
                    => TickIs(i, "apply", tick[i].now, tick[i].todo, e)
<1> DEFINE Step == {"idle", "find", "next", "apply"}
           Time == 0..MaxTime
           Todos == Todo
           Current == Events \cup {None}
           T == [pc : Step, now : Time, todo : Todos, current : Current]
<1>1. /\ tick \in [Instances -> T] /\ now \in Time /\ None \in Current /\ IdleTick \in T
      /\ "find" \in Step /\ "next" \in Step /\ "apply" \in Step /\ Events \subseteq Current
      /\ IdleTick = [pc |-> "idle", now |-> 0, todo |-> <<>>, current |-> None]
  BY IdleTickType DEF TypeOK, Tick, Todo, IdleTick
<1>2. Tick = T
  BY DEF Tick, Todo
<1> HIDE DEF Step, Time, Todos, Current
<1>3. ASSUME tick' = [tick EXCEPT ![i] = IdleTick] PROVE TickIs(i, "idle", 0, <<>>, None)
  BY <1>1, <1>2, <1>3 DEF TickIs
<1>4. ASSUME tick' = [tick EXCEPT ![i] = [IdleTick EXCEPT !.pc = "find", !.now = now]]
      PROVE  TickIs(i, "find", now, <<>>, None)
  BY <1>1, <1>2, <1>4 DEF TickIs
<1>5. ASSUME NEW todo \in Todos, tick' = [tick EXCEPT ![i].pc = "next", ![i].todo = todo]
      PROVE  TickIs(i, "next", tick[i].now, todo, tick[i].current)
  BY <1>1, <1>2, <1>5 DEF TickIs
<1>6. ASSUME NEW todo \in Todos,
             tick' = [tick EXCEPT ![i] = [tick[i] EXCEPT !.pc = "next", !.current = None, !.todo = todo]]
      PROVE  TickIs(i, "next", tick[i].now, todo, None)
  BY <1>1, <1>2, <1>6 DEF TickIs
<1>7. ASSUME NEW e \in Events, tick' = [tick EXCEPT ![i].pc = "apply", ![i].current = e]
      PROVE  TickIs(i, "apply", tick[i].now, tick[i].todo, e)
  BY <1>1, <1>2, <1>7 DEF TickIs
<1>8. QED
  BY <1>3, <1>4, <1>5, <1>6, <1>7 DEF Todos

\* What a step makes of its call.
CallIs(a, pc, op, id, seen, data) ==
    /\ call' \in [Calls -> Call]
    /\ call'[a].pc = pc /\ call'[a].op = op /\ call'[a].id = id
    /\ call'[a].seen = seen /\ call'[a].data = data
    /\ \A b \in Calls : b # a => call'[b] = call[b]

LEMMA CallFields ==
    ASSUME TypeOK, NEW a \in Calls
    PROVE  /\ \A pc \in {"write", "apply", "remove"} :
                 Goto(a, pc) => CallIs(a, pc, call[a].op, call[a].id, call[a].seen, call[a].data)
           /\ Finish(a) => CallIs(a, "done", call[a].op, call[a].id,
                                  IF call[a].op = "delete" THEN call[a].seen ELSE Absent, Absent)
           /\ call' = [call EXCEPT ![a] = [NewCall EXCEPT !.pc = "done"]]
                 => CallIs(a, "done", "none", None, Absent, Absent)
           /\ \A e \in Events, data \in Row :
                 Begin(a, [NewCall EXCEPT !.pc = "save", !.op = "create", !.id = e, !.data = data])
                    => CallIs(a, "save", "create", e, Absent, data)
           /\ \A e \in Events, seen \in Row, data \in Row :
                 Begin(a, [NewCall EXCEPT !.pc = "conflict", !.op = "update", !.id = e, !.seen = seen,
                                          !.data = data])
                    => CallIs(a, "conflict", "update", e, seen, data)
           /\ \A e \in Events, seen \in Row, pc \in {"apply", "remove"} :
                 Begin(a, [NewCall EXCEPT !.pc = pc, !.op = "delete", !.id = e, !.seen = seen])
                    => CallIs(a, pc, "delete", e, seen, Absent)
<1> DEFINE Step == {"new", "save", "conflict", "write", "apply", "remove", "done"}
           Op == {"none", "create", "update", "delete"}
           Id == Events \cup {None}
           Data == Row \cup {Absent}
           C == [pc : Step, op : Op, id : Id, seen : Data, data : Data]
<1>1. /\ call \in [Calls -> C] /\ None \in Id /\ Absent \in Data /\ Events \subseteq Id /\ Row \subseteq Data
      /\ {"write", "apply", "remove", "save", "conflict", "done", "new"} \subseteq Step
      /\ {"none", "create", "update", "delete"} \subseteq Op
      /\ NewCall = [pc |-> "new", op |-> "none", id |-> None, seen |-> Absent, data |-> Absent]
      /\ NewCall \in C
  BY DEF TypeOK, Call, NewCall
<1>2. Call = C
  BY DEF Call
<1> HIDE DEF Step, Op, Id, Data
<1>3. ASSUME NEW pc \in {"write", "apply", "remove"}, Goto(a, pc)
      PROVE  CallIs(a, pc, call[a].op, call[a].id, call[a].seen, call[a].data)
  BY <1>1, <1>2, <1>3 DEF CallIs, Goto
<1>4. ASSUME Finish(a)
      PROVE  CallIs(a, "done", call[a].op, call[a].id,
                    IF call[a].op = "delete" THEN call[a].seen ELSE Absent, Absent)
  BY <1>1, <1>2, <1>4 DEF CallIs, Finish
<1>5. ASSUME call' = [call EXCEPT ![a] = [NewCall EXCEPT !.pc = "done"]]
      PROVE  CallIs(a, "done", "none", None, Absent, Absent)
  BY <1>1, <1>2, <1>5 DEF CallIs
<1>6. ASSUME NEW e \in Events, NEW data \in Row,
             Begin(a, [NewCall EXCEPT !.pc = "save", !.op = "create", !.id = e, !.data = data])
      PROVE  CallIs(a, "save", "create", e, Absent, data)
  BY <1>1, <1>2, <1>6 DEF CallIs, Begin
<1>7. ASSUME NEW e \in Events, NEW seen \in Row, NEW data \in Row,
             Begin(a, [NewCall EXCEPT !.pc = "conflict", !.op = "update", !.id = e, !.seen = seen,
                                      !.data = data])
      PROVE  CallIs(a, "conflict", "update", e, seen, data)
  BY <1>1, <1>2, <1>7 DEF CallIs, Begin
<1>8. ASSUME NEW e \in Events, NEW seen \in Row, NEW pc \in {"apply", "remove"},
             Begin(a, [NewCall EXCEPT !.pc = pc, !.op = "delete", !.id = e, !.seen = seen])
      PROVE  CallIs(a, pc, "delete", e, seen, Absent)
  BY <1>1, <1>2, <1>8 DEF CallIs, Begin
<1>9. QED
  BY <1>3, <1>4, <1>5, <1>6, <1>7, <1>8

LEMMA TodoRows ==
    ASSUME TypeOK, NEW i \in Instances
    PROVE  /\ tick[i].todo \in Todo /\ DOMAIN tick[i].todo \subseteq Events
           /\ \A f \in DOMAIN tick[i].todo : tick[i].todo[f] \in Row
           /\ \A e : Rest(i, e) \in Todo /\ DOMAIN Rest(i, e) = DOMAIN tick[i].todo \ {e}
           /\ \A e : \A f \in DOMAIN tick[i].todo \ {e} : Rest(i, e)[f] = tick[i].todo[f]
<1>1. tick[i].todo \in Todo
  BY DEF TypeOK, Tick, Todo
<1>2. PICK S \in SUBSET Events : tick[i].todo \in [S -> Row]
  BY <1>1 DEF Todo
<1>3. ASSUME NEW e PROVE Rest(i, e) \in [S \ {e} -> Row]
  BY <1>2 DEF Rest
<1>4. ASSUME NEW e PROVE Rest(i, e) \in Todo
  <2>1. S \ {e} \in SUBSET Events
    OBVIOUS
  <2>2. QED
    BY <1>3, <2>1 DEF Todo
<1>5. QED
  BY <1>1, <1>2, <1>4 DEF Rest

LEMMA ActiveRows ==
    ASSUME TypeOK
    PROVE  /\ [e \in Active |-> event[e]] \in Todo
           /\ \A e \in Active : e \in Events /\ Exists(e) /\ event[e] \in Row
<1>1. \A e \in Active : e \in Events /\ Exists(e) /\ event[e] \in Row
  BY AbsentIsNoRow DEF TypeOK, Active, Exists
<1>2. Active \in SUBSET Events
  BY DEF Active
<1>3. [e \in Active |-> event[e]] \in [Active -> Row]
  BY <1>1
<1>4. QED
  BY <1>1, <1>2, <1>3 DEF Todo

LEMMA TickMoves ==
    ASSUME TypeInv, NEW i \in Instances
    PROVE  /\ Acquire(i) => TickIs(i, "find", now, <<>>, None)
           /\ Find(i) => TickIs(i, "next", tick[i].now, [e \in Active |-> event[e]], None)
           /\ NotStarted(i) =>
                 \E e \in DOMAIN tick[i].todo : TickIs(i, "next", tick[i].now, Rest(i, e), None)
           /\ Mark(i) =>
                 \E e \in DOMAIN tick[i].todo :
                    LET row == tick[i].todo[e]
                        status == DueStatus(row.window, tick[i].now)
                    IN /\ TickIs(i, "apply", tick[i].now, tick[i].todo, e)
                       /\ event' = IF Exists(e) /\ row.status # status
                                   THEN [event EXCEPT ![e].status = status] ELSE event
           /\ Apply(i) => TickIs(i, "next", tick[i].now, Rest(i, tick[i].current), None)
           /\ Release(i) => TickIs(i, "idle", 0, <<>>, None)
<1>0. TypeOK /\ TickShape(i)
  BY DEF TypeInv
<1>1. Acquire(i) => TickIs(i, "find", now, <<>>, None)
  BY <1>0, TickFields DEF Acquire
<1>2. ASSUME Find(i) PROVE TickIs(i, "next", tick[i].now, [e \in Active |-> event[e]], None)
  <2>1. tick[i].current = None
    BY <1>0, <1>2 DEF Find, TickShape
  <2>2. QED
    BY <1>0, <1>2, <2>1, ActiveRows, TickFields DEF Find
<1>3. ASSUME NotStarted(i)
      PROVE  \E e \in DOMAIN tick[i].todo : TickIs(i, "next", tick[i].now, Rest(i, e), None)
  <2>1. PICK e \in DOMAIN tick[i].todo : tick' = [tick EXCEPT ![i] = Continue(i, e)]
    BY <1>3 DEF NotStarted
  <2>2. QED
    BY <1>0, <2>1, TodoRows, TickFields DEF Continue
<1>4. ASSUME Mark(i)
      PROVE  \E e \in DOMAIN tick[i].todo :
                LET row == tick[i].todo[e]
                    status == DueStatus(row.window, tick[i].now)
                IN /\ TickIs(i, "apply", tick[i].now, tick[i].todo, e)
                   /\ event' = IF Exists(e) /\ row.status # status
                               THEN [event EXCEPT ![e].status = status] ELSE event
  <2>1. PICK e \in DOMAIN tick[i].todo :
           LET row == tick[i].todo[e]
               status == DueStatus(row.window, tick[i].now)
           IN /\ tick' = [tick EXCEPT ![i].pc = "apply", ![i].current = e]
              /\ event' = IF Exists(e) /\ row.status # status
                          THEN [event EXCEPT ![e].status = status] ELSE event
    BY <1>4 DEF Mark
  <2>2. TickIs(i, "apply", tick[i].now, tick[i].todo, e)
    BY <1>0, <2>1, TodoRows, TickFields
  <2>3. QED
    BY <2>1, <2>2
<1>5. ASSUME Apply(i) PROVE TickIs(i, "next", tick[i].now, Rest(i, tick[i].current), None)
  <2>1. tick' = [tick EXCEPT ![i] = Continue(i, tick[i].current)]
    BY <1>5 DEF Apply
  <2>2. QED
    BY <1>0, <2>1, TodoRows, TickFields DEF Continue
<1>6. Release(i) => TickIs(i, "idle", 0, <<>>, None)
  BY <1>0, TickFields DEF Release
<1>7. QED
  BY <1>1, <1>2, <1>3, <1>4, <1>5, <1>6

\* A tick goes on with what is left of its events, as they were read.
LEMMA TickGoesOn ==
    ASSUME TypeInv, NEW i \in Instances, NotStarted(i) \/ Apply(i)
    PROVE  \E e, todo :
              /\ TickIs(i, "next", tick[i].now, todo, None)
              /\ DOMAIN todo = DOMAIN tick[i].todo \ {e}
              /\ \A f \in DOMAIN todo : todo[f] = tick[i].todo[f]
<1>1. PICK e : TickIs(i, "next", tick[i].now, Rest(i, e), None)
  BY TickMoves
<1>2. /\ DOMAIN Rest(i, e) = DOMAIN tick[i].todo \ {e}
      /\ \A f \in DOMAIN tick[i].todo \ {e} : Rest(i, e)[f] = tick[i].todo[f]
  BY TodoRows DEF TypeInv
<1>3. QED
  BY <1>1, <1>2

LEMMA CallMoves ==
    ASSUME TypeInv, NEW a \in Calls
    PROVE  /\ Create(a) =>
                 /\ call[a].pc = "new"
                 /\ \E e \in Events, data \in Row :
                       /\ ~Exists(e) /\ reach[e] = {} /\ \A b \in Calls : call[b].id # e
                       /\ CallIs(a, "save", "create", e, Absent, data)
                       /\ touched' = IF data.status = "ON_GOING" THEN touched \cup {e} ELSE touched
           /\ Update(a) =>
                 /\ call[a].pc = "new"
                 /\ \E e \in Events, data \in Row :
                       /\ event[e] \in Row /\ touched' = touched \cup {e}
                       /\ CallIs(a, "conflict", "update", e, event[e], data)
           /\ Delete(a) =>
                 /\ call[a].pc = "new"
                 /\ \E e \in Events :
                       /\ event[e] \in Row /\ touched' = touched \cup {e}
                       /\ CallIs(a, IF event[e].status = "ON_GOING" THEN "apply" ELSE "remove",
                                 "delete", e, event[e], Absent)
           /\ Save(a) => CallIs(a, "done", "create", call[a].id, Absent, Absent)
           /\ FindConflict(a) =>
                 \/ CallIs(a, "done", "update", call[a].id, Absent, Absent)
                 \/ CallIs(a, "write", "update", call[a].id, call[a].seen, call[a].data)
           /\ Write(a) => CallIs(a, "apply", "update", call[a].id, call[a].seen, call[a].data)
           /\ ApplyCall(a) =>
                 IF call[a].op = "delete"
                 THEN CallIs(a, "remove", "delete", call[a].id, call[a].seen, call[a].data)
                 ELSE CallIs(a, "done", "update", call[a].id, Absent, Absent)
           /\ Remove(a) => CallIs(a, "done", "delete", call[a].id, call[a].seen, Absent)
<1>0. TypeOK /\ CallShape(a)
  BY DEF TypeInv
<1>1. ASSUME Create(a)
      PROVE  /\ call[a].pc = "new"
             /\ \E e \in Events, data \in Row :
                   /\ ~Exists(e) /\ reach[e] = {} /\ \A b \in Calls : call[b].id # e
                   /\ CallIs(a, "save", "create", e, Absent, data)
                   /\ touched' = IF data.status = "ON_GOING" THEN touched \cup {e} ELSE touched
  <2>1. PICK e \in Events, target \in Targets, d \in Discounts, w \in Windows, s \in NewStatuses :
           /\ ~Exists(e) /\ reach[e] = {} /\ \A b \in Calls : call[b].id # e
           /\ Begin(a, [NewCall EXCEPT !.pc = "save", !.op = "create", !.id = e,
                        !.data = NewRow(s, target, d, w)])
           /\ touched' = IF s = "ON_GOING" THEN touched \cup {e} ELSE touched
    BY <1>1 DEF Create
  <2>2. NewRow(s, target, d, w) \in Row /\ NewRow(s, target, d, w).status = s
    BY EventsAssumption DEF NewRow, Row
  <2>3. CallIs(a, "save", "create", e, Absent, NewRow(s, target, d, w))
    BY <1>0, <2>1, <2>2, CallFields
  <2>4. QED
    BY <2>1, <2>2, <2>3 DEF Begin
<1>2. ASSUME Update(a)
      PROVE  /\ call[a].pc = "new"
             /\ \E e \in Events, data \in Row :
                   /\ event[e] \in Row /\ touched' = touched \cup {e}
                   /\ CallIs(a, "conflict", "update", e, event[e], data)
  <2>1. PICK e \in Events, target \in Targets, d \in Discounts, w \in Windows, s \in NewStatuses :
           /\ Exists(e) /\ touched' = touched \cup {e}
           /\ Begin(a, [NewCall EXCEPT !.pc = "conflict", !.op = "update", !.id = e, !.seen = event[e],
                        !.data = NewRow(s, target, d, w)])
    BY <1>2 DEF Update
  <2>2. NewRow(s, target, d, w) \in Row /\ event[e] \in Row
    BY <1>0, <2>1, EventsAssumption DEF NewRow, Row, Exists, TypeOK
  <2>3. CallIs(a, "conflict", "update", e, event[e], NewRow(s, target, d, w))
    BY <1>0, <2>1, <2>2, CallFields
  <2>4. QED
    BY <2>1, <2>2, <2>3 DEF Begin
<1>3. ASSUME Delete(a)
      PROVE  /\ call[a].pc = "new"
             /\ \E e \in Events :
                   /\ event[e] \in Row /\ touched' = touched \cup {e}
                   /\ CallIs(a, IF event[e].status = "ON_GOING" THEN "apply" ELSE "remove",
                             "delete", e, event[e], Absent)
  <2>1. PICK e \in Events :
           /\ Exists(e) /\ touched' = touched \cup {e}
           /\ Begin(a, [NewCall EXCEPT !.pc = IF event[e].status = "ON_GOING" THEN "apply" ELSE "remove",
                                       !.op = "delete", !.id = e, !.seen = event[e]])
    BY <1>3 DEF Delete
  <2>2. event[e] \in Row
    BY <1>0, <2>1 DEF Exists, TypeOK
  <2>3. CallIs(a, IF event[e].status = "ON_GOING" THEN "apply" ELSE "remove", "delete", e, event[e], Absent)
    BY <1>0, <2>1, <2>2, CallFields
  <2>4. QED
    BY <2>1, <2>2, <2>3 DEF Begin
<1>4. Save(a) => CallIs(a, "done", "create", call[a].id, Absent, Absent)
  BY <1>0, CallFields DEF Save, CallShape
<1>5. FindConflict(a) =>
         \/ CallIs(a, "done", "update", call[a].id, Absent, Absent)
         \/ CallIs(a, "write", "update", call[a].id, call[a].seen, call[a].data)
  BY <1>0, CallFields DEF FindConflict, CallShape
<1>6. Write(a) => CallIs(a, "apply", "update", call[a].id, call[a].seen, call[a].data)
  BY <1>0, CallFields DEF Write, CallShape
<1>7. ApplyCall(a) =>
         IF call[a].op = "delete"
         THEN CallIs(a, "remove", "delete", call[a].id, call[a].seen, call[a].data)
         ELSE CallIs(a, "done", "update", call[a].id, Absent, Absent)
  BY <1>0, CallFields DEF ApplyCall, CallShape
<1>8. Remove(a) => CallIs(a, "done", "delete", call[a].id, call[a].seen, Absent)
  BY <1>0, CallFields DEF Remove, CallShape
<1>9. QED
  BY <1>1, <1>2, <1>3, <1>4, <1>5, <1>6, <1>7, <1>8

LEMMA SetDiscountType ==
    ASSUME TypeOK, NEW worker \in Instances \cup Calls, NEW target, NEW d \in Discounts \cup {0},
           SetDiscount(worker, target, d)
    PROVE  /\ discount' \in [Products -> Discounts \cup {0}]
           /\ shopUpdates' \subseteq (Instances \cup Calls) \X (Discounts \cup {0})
           /\ overtaken' \in BOOLEAN
<1>1. discount' \in [Products -> Discounts \cup {0}]
  BY DEF TypeOK, SetDiscount, Discounted
<1>2. CASE target = AllShop
  <2>1. <<worker, d>> \in (Instances \cup Calls) \X (Discounts \cup {0})
    OBVIOUS
  <2>2. QED
    BY <1>1, <1>2, <2>1 DEF TypeOK, SetDiscount
<1>3. CASE target # AllShop
  BY <1>1, <1>3 DEF TypeOK, SetDiscount
<1>4. QED
  BY <1>2, <1>3

LEMMA TickTyped ==
    ASSUME TypeInv, NEW i \in Instances, TickStep(i)
    PROVE  TypeInv'
<1>0. TypeOK /\ TickShape(i)
  BY DEF TypeInv
<1>1. call' = call /\ reach' = reach /\ touched' = touched /\ kills' = kills /\ now' = now
  BY DEF TickStep, Acquire, Find, NotStarted, Mark, Apply, Release, history
<1>2. lock' \in Instances \cup {None} /\ raced' \subseteq Calls
  BY <1>0 DEF TickStep, Acquire, Find, NotStarted, Mark, Apply, Release, history, TypeOK
<1>3. tick' \in [Instances -> Tick] /\ \A j \in Instances : TickShape(j)'
  <2>1. ASSUME NEW pc, NEW time, NEW todo, NEW current, TickIs(i, pc, time, todo, current),
               pc \in {"idle", "find"} => DOMAIN todo = {},
               IF pc = "apply" THEN current \in DOMAIN todo ELSE current = None
        PROVE  tick' \in [Instances -> Tick] /\ \A j \in Instances : TickShape(j)'
    BY <2>1 DEF TickIs, TickShape, TypeInv
  <2>2. CASE Acquire(i) \/ Release(i)
    BY <2>1, <2>2, TickMoves, IdleTickType
  <2>3. CASE Find(i)
    BY <2>1, <2>3, TickMoves
  <2>4. CASE NotStarted(i) \/ Apply(i)
    BY <2>1, <2>4, TickMoves
  <2>5. CASE Mark(i)
    BY <2>1, <2>5, TickMoves
  <2>6. QED
    BY <2>2, <2>3, <2>4, <2>5 DEF TickStep
<1>4. event' \in [Events -> Row \cup {Absent}]
  <2>1. CASE Mark(i)
    <3>1. PICK e \in DOMAIN tick[i].todo :
             LET row == tick[i].todo[e]
                 status == DueStatus(row.window, tick[i].now)
             IN event' = IF Exists(e) /\ row.status # status
                         THEN [event EXCEPT ![e].status = status] ELSE event
      BY <2>1, TickMoves
    <3>2. DueStatus(tick[i].todo[e].window, tick[i].now) \in Statuses /\ e \in Events
      BY <1>0, TodoRows DEF DueStatus, Statuses
    <3>3. ASSUME Exists(e), NEW status \in Statuses
          PROVE  [event EXCEPT ![e].status = status] \in [Events -> Row \cup {Absent}]
      <4>1. event[e] \in Row
        BY <1>0, <3>2, <3>3 DEF TypeOK, Exists
      <4>2. [event[e] EXCEPT !.status = status] \in Row
        BY <4>1 DEF Row
      <4>3. QED
        BY <1>0, <3>2, <4>2 DEF TypeOK
    <3>4. QED
      BY <1>0, <3>1, <3>2, <3>3 DEF TypeOK
  <2>2. CASE ~Mark(i)
    BY <1>0, <2>2 DEF TickStep, Acquire, Find, NotStarted, Apply, Release, TypeOK
  <2>3. QED
    BY <2>1, <2>2
<1>5. /\ discount' \in [Products -> Discounts \cup {0}]
      /\ shopUpdates' \subseteq (Instances \cup Calls) \X (Discounts \cup {0})
      /\ overtaken' \in BOOLEAN
  <2>1. CASE Apply(i)
    <3>1. tick[i].todo[tick[i].current] \in Row
      BY <1>0, <2>1, TodoRows DEF Apply, TickShape
    <3>2. DueDiscount(tick[i].todo[tick[i].current], tick[i].now) \in Discounts \cup {0}
      BY <3>1 DEF DueDiscount, Row
    <3>3. QED
      BY <1>0, <2>1, <3>2, SetDiscountType DEF Apply
  <2>2. CASE ~Apply(i)
    BY <1>0, <2>2 DEF TickStep, Acquire, Find, NotStarted, Mark, Release, TypeOK, history
  <2>3. QED
    BY <2>1, <2>2
<1>6. TypeOK'
  BY <1>0, <1>1, <1>2, <1>3, <1>4, <1>5 DEF TypeOK
<1>7. \A a \in Calls : CallShape(a)'
  BY <1>1 DEF CallShape, TypeInv
<1>8. QED
  BY <1>3, <1>6, <1>7 DEF TypeInv

LEMMA CallTyped ==
    ASSUME TypeInv, NEW a \in Calls, CallStep(a)
    PROVE  TypeInv'
<1>0. TypeOK /\ CallShape(a)
  BY DEF TypeInv
<1>1. tick' = tick /\ lock' = lock /\ kills' = kills /\ now' = now
  BY DEF CallStep, Create, Save, Update, FindConflict, Write, Delete, ApplyCall, Remove, history
<1>2. call' \in [Calls -> Call] /\ \A b \in Calls : CallShape(b)'
  <2>1. ASSUME NEW pc, NEW op, NEW id, NEW seen, NEW data, CallIs(a, pc, op, id, seen, data),
               pc # "new",
               pc = "save" => op = "create",
               pc \in {"conflict", "write"} => op = "update",
               pc = "apply" => op \in {"update", "delete"},
               pc = "remove" => op = "delete",
               op # "none", id \in Events,
               op = "delete" \/ pc \in {"conflict", "write", "apply"} => seen \in Row,
               pc \in {"save", "conflict", "write"} \/ (pc = "apply" /\ op = "update") => data \in Row
        PROVE  call' \in [Calls -> Call] /\ \A b \in Calls : CallShape(b)'
    <3>1. CallShape(a)'
      BY <2>1 DEF CallIs, CallShape
    <3>2. ASSUME NEW b \in Calls, b # a PROVE CallShape(b)'
      BY <2>1, <3>2 DEF CallIs, CallShape, TypeInv
    <3>3. QED
      BY <2>1, <3>1, <3>2 DEF CallIs
  <2>2. CASE Create(a)
    BY <2>1, <2>2, CallMoves
  <2>3. CASE Update(a)
    BY <2>1, <2>3, CallMoves
  <2>4. CASE Delete(a)
    BY <2>1, <2>4, CallMoves
  <2>5. CASE Save(a)
    BY <1>0, <2>1, <2>5, CallMoves DEF Save, CallShape
  <2>6. CASE FindConflict(a)
    BY <1>0, <2>1, <2>6, CallMoves DEF FindConflict, CallShape
  <2>7. CASE Write(a)
    <3>1. /\ CallIs(a, "apply", "update", call[a].id, call[a].seen, call[a].data)
          /\ call[a].id \in Events /\ call[a].seen \in Row /\ call[a].data \in Row
      BY <1>0, <2>7, CallMoves DEF Write, CallShape
    <3>2. QED
      BY <2>1, <3>1
  <2>8. CASE ApplyCall(a)
    BY <1>0, <2>1, <2>8, CallMoves DEF ApplyCall, CallShape
  <2>9. CASE Remove(a)
    BY <1>0, <2>1, <2>9, CallMoves DEF Remove, CallShape
  <2>10. QED
    BY <2>2, <2>3, <2>4, <2>5, <2>6, <2>7, <2>8, <2>9 DEF CallStep
<1>3. event' \in [Events -> Row \cup {Absent}] /\ reach' \in [Events -> SUBSET Products]
  <2>1. CASE Save(a) \/ Write(a)
    <3>1. call[a].id \in Events /\ call[a].data \in Row
      BY <1>0, <2>1 DEF Save, Write, CallShape
    <3>2. Covers[call[a].data.target] \in SUBSET Products
      BY <3>1, EventsAssumption DEF Row
    <3>3. QED
      BY <1>0, <2>1, <3>1, <3>2 DEF Save, Write, TypeOK
  <2>2. CASE ~Save(a) /\ ~Write(a)
    BY <1>0, <2>2 DEF CallStep, Create, Update, FindConflict, Delete, ApplyCall, Remove, history, TypeOK
  <2>3. QED
    BY <2>1, <2>2
<1>4. /\ discount' \in [Products -> Discounts \cup {0}]
      /\ shopUpdates' \subseteq (Instances \cup Calls) \X (Discounts \cup {0})
      /\ overtaken' \in BOOLEAN
  <2>1. CASE ApplyCall(a)
    <3>1. CallDiscount(a) \in Discounts \cup {0}
      BY <1>0, <2>1 DEF ApplyCall, CallShape, CallDiscount, Row
    <3>2. QED
      BY <1>0, <2>1, <3>1, SetDiscountType DEF ApplyCall
  <2>2. CASE ~ApplyCall(a)
    BY <1>0, <2>2 DEF CallStep, Create, Save, Update, FindConflict, Write, Delete, Remove, history, TypeOK
  <2>3. QED
    BY <2>1, <2>2
<1>5. touched' \subseteq Events /\ raced' \subseteq Calls
  <2>1. touched' \subseteq Events
    <3>1. CASE Create(a) \/ Update(a) \/ Delete(a)
      BY <1>0, <3>1, CallMoves DEF TypeOK
    <3>2. CASE ~(Create(a) \/ Update(a) \/ Delete(a))
      BY <1>0, <3>2 DEF CallStep, Save, FindConflict, Write, ApplyCall, Remove, history, TypeOK
    <3>3. QED
      BY <3>1, <3>2
  <2>2. raced' \subseteq Calls
    BY <1>0 DEF CallStep, Create, Save, Update, FindConflict, Write, Delete, ApplyCall, Remove, history, Begin, TypeOK
  <2>3. QED
    BY <2>1, <2>2
<1>6. TypeOK'
  BY <1>0, <1>1, <1>2, <1>3, <1>4, <1>5 DEF TypeOK
<1>7. \A i \in Instances : TickShape(i)'
  BY <1>1 DEF TickShape, TypeInv
<1>8. QED
  BY <1>2, <1>6, <1>7 DEF TypeInv

LEMMA OtherTyped ==
    ASSUME TypeInv, Tock \/ ShopUpdate \/ LockExpires \/ UNCHANGED vars
    PROVE  TypeInv'
<1>1. call' = call /\ tick' = tick /\ event' = event /\ reach' = reach
  BY DEF Tock, ShopUpdate, LockExpires, vars, history
<1>2. TypeOK'
  <2>1. CASE Tock
    BY <2>1, EventsAssumption DEF TypeInv, TypeOK, Tock, history
  <2>2. CASE ShopUpdate
    <3>1. PICK u \in shopUpdates : discount' = Discounted(AllShop, u[2]) /\ shopUpdates' = shopUpdates \ {u}
      BY <2>2 DEF ShopUpdate
    <3>2. u[2] \in Discounts \cup {0}
      BY DEF TypeInv, TypeOK
    <3>3. discount' \in [Products -> Discounts \cup {0}]
      BY <3>1, <3>2 DEF Discounted, TypeInv, TypeOK
    <3>4. QED
      BY <2>2, <3>1, <3>3 DEF ShopUpdate, TypeInv, TypeOK, history
  <2>3. CASE LockExpires
    BY <2>3, EventsAssumption DEF TypeInv, TypeOK, LockExpires
  <2>4. CASE UNCHANGED vars
    BY <2>4 DEF TypeInv, TypeOK, vars, history
  <2>5. QED
    BY <2>1, <2>2, <2>3, <2>4
<1>3. QED
  BY <1>1, <1>2 DEF TypeInv, CallShape, TickShape

LEMMA KillTyped ==
    ASSUME TypeInv, NEW worker \in Instances \cup Calls, Kill(worker)
    PROVE  TypeInv'
<1>0. TypeOK
  BY DEF TypeInv
<1>1. /\ UNCHANGED <<now, event, discount, lock, reach, touched, raced, overtaken>>
      /\ kills' \in 0..MaxKills /\ shopUpdates' \subseteq shopUpdates
  BY <1>0, EventsAssumption DEF Kill, TypeOK
<1>2. CASE worker \in Instances
  <2>1. call' = call /\ TickIs(worker, "idle", 0, <<>>, None)
    BY <1>0, <1>2, TickFields DEF Kill
  <2>2. tick' \in [Instances -> Tick] /\ \A j \in Instances : TickShape(j)'
    BY <2>1, IdleTickType DEF TickIs, TickShape, TypeInv
  <2>3. QED
    BY <1>0, <1>1, <2>1, <2>2 DEF TypeInv, TypeOK, CallShape
<1>3. CASE worker \notin Instances
  <2>1. tick' = tick /\ worker \in Calls /\ CallIs(worker, "done", "none", None, Absent, Absent)
    BY <1>0, <1>3, CallFields DEF Kill
  <2>2. call' \in [Calls -> Call] /\ \A b \in Calls : CallShape(b)'
    BY <2>1 DEF CallIs, CallShape, TypeInv
  <2>3. QED
    BY <1>0, <1>1, <2>1, <2>2 DEF TypeInv, TypeOK, TickShape
<1>4. QED
  BY <1>2, <1>3

LEMMA StepTyped == TypeInv /\ [Next]_vars => TypeInv'
BY TickTyped, CallTyped, OtherTyped, KillTyped DEF Next

(* The variables keep their types, and with them the shape of every call    *)
(* and tick: none acts on a field that an earlier query did not fill in.    *)
THEOREM EventsTypeCorrect == Spec => []TypeOK
<1>1. TypeInv => TypeOK
  BY DEF TypeInv
<1>2. QED
  BY <1>1, InitTyped, StepTyped, PTL DEF Spec
-----------------------------------------------------------------------------
(* What an event can ever have written to (reach) covers its row, the rows  *)
(* a tick goes on with, and those a call has read; a product that no event  *)
(* reaches has no discount.  An event being created has not been seen yet.  *)

Fresh(b) ==
    /\ ~Exists(call[b].id) /\ reach[call[b].id] = {}
    /\ \A c \in Calls : c # b => call[c].id # call[b].id

ReachInv ==
    /\ \A e \in Events : Exists(e) => Covers[event[e].target] \subseteq reach[e]
    /\ \A i \in Instances : \A f \in DOMAIN tick[i].todo :
          Covers[tick[i].todo[f].target] \subseteq reach[f]
    /\ \A b \in Calls : call[b].seen # Absent =>
          call[b].id \in Events /\ Covers[call[b].seen.target] \subseteq reach[call[b].id]
    /\ \A b \in Calls : call[b].pc = "save" => Fresh(b)
    /\ shopUpdates # {} => \E f \in Events : Products \subseteq reach[f]
    /\ \A p \in Products : (\A f \in Events : p \notin reach[f]) => discount[p] = 0

LEMMA InitReach == Init => ReachInv
<1> SUFFICES ASSUME Init PROVE ReachInv
  OBVIOUS
<1>1. \A e \in Events : Exists(e) => Covers[event[e].target] \subseteq reach[e]
  BY DEF Init
<1>2. \A i \in Instances : DOMAIN tick[i].todo = {}
  BY IdleTickType DEF Init
<1>3. \A b \in Calls : call[b].seen = Absent /\ call[b].pc = "new"
  BY DEF Init, NewCall
<1>4. shopUpdates = {} /\ \A p \in Products : discount[p] = 0
  BY DEF Init
<1>5. QED
  BY <1>1, <1>2, <1>3, <1>4 DEF ReachInv

LEMMA SetDiscountWrites ==
    ASSUME TypeOK, NEW worker, NEW target \in Targets, NEW d, SetDiscount(worker, target, d)
    PROVE  /\ \A p \in Products : p \notin Covers[target] =>
                 discount'[p] = discount[p] /\ shopUpdates' = shopUpdates /\ overtaken' = overtaken
           /\ \A p \in Covers[target] : target # AllShop =>
                 discount'[p] = d /\ shopUpdates' = shopUpdates /\ overtaken' = overtaken
           /\ target = AllShop => discount' = discount /\ shopUpdates' = shopUpdates \cup {<<worker, d>>}
           /\ target = AllShop /\ ~overtaken' => shopUpdates = {} /\ shopUpdates' = {<<worker, d>>}
           /\ ~overtaken' => ~overtaken
<1>1. Covers[target] \subseteq Products
  BY EventsAssumption
<1>2. QED
  BY <1>1, EventsAssumption DEF TypeOK, SetDiscount, Discounted

\* A tick changes nothing of an event but its status.
LEMMA MarkKeeps ==
    ASSUME TypeInv, NEW i \in Instances, TickStep(i), NEW e \in Events
    PROVE  /\ Exists(e)' <=> Exists(e)
           /\ Exists(e) => /\ event'[e].target = event[e].target
                           /\ event'[e].discount = event[e].discount
                           /\ event'[e].window = event[e].window
           /\ ~Mark(i) => event' = event
<1>0. TypeOK
  BY DEF TypeInv
<1>1. CASE Mark(i)
  <2>1. PICK f \in DOMAIN tick[i].todo :
           LET row == tick[i].todo[f]
               status == DueStatus(row.window, tick[i].now)
           IN event' = IF Exists(f) /\ row.status # status
                       THEN [event EXCEPT ![f].status = status] ELSE event
    BY <1>1, TickMoves
  <2>2. PICK status \in Statuses :
           event' = IF Exists(f) /\ tick[i].todo[f].status # status
                    THEN [event EXCEPT ![f].status = status] ELSE event
    BY <2>1 DEF DueStatus, Statuses
  <2>3. CASE event' = event
    BY <1>1, <2>3 DEF Exists
  <2>4. CASE event' # event
    <3>1. Exists(f) /\ event' = [event EXCEPT ![f].status = status] /\ f \in Events
      BY <1>0, <2>2, <2>4, TodoRows
    <3>2. event[f] \in Row
      BY <1>0, <3>1 DEF TypeOK, Exists
    <3>3. /\ event'[f].status = status /\ event'[f].target = event[f].target
          /\ event'[f].discount = event[f].discount /\ event'[f].window = event[f].window
      BY <1>0, <3>1, <3>2 DEF TypeOK, Row
    <3>4. event'[f] # Absent
      BY <3>3, AbsentIsNoRow DEF Statuses
    <3>5. e # f => event'[e] = event[e]
      BY <1>0, <3>1 DEF TypeOK
    <3>6. QED
      BY <1>1, <3>1, <3>3, <3>4, <3>5 DEF Exists
  <2>5. QED
    BY <2>3, <2>4
<1>2. CASE ~Mark(i)
  BY <1>2 DEF TickStep, Acquire, Find, NotStarted, Apply, Release, Exists
<1>3. QED
  BY <1>1, <1>2

LEMMA TickReach ==
    ASSUME TypeInv, ReachInv, NEW i \in Instances, TickStep(i)
    PROVE  ReachInv'
<1>0. TypeOK /\ TickShape(i)
  BY DEF TypeInv
<1>1. call' = call /\ reach' = reach
  BY DEF TickStep, Acquire, Find, NotStarted, Mark, Apply, Release, history
<1>2. \A e \in Events : (Exists(e)' <=> Exists(e)) /\ (Exists(e) => event'[e].target = event[e].target)
  BY MarkKeeps
<1>3. \A j \in Instances : \A f \in DOMAIN tick'[j].todo : Covers[tick'[j].todo[f].target] \subseteq reach[f]
  <2>1. ASSUME NEW pc, NEW time, NEW todo, NEW current, TickIs(i, pc, time, todo, current),
               \A f \in DOMAIN todo : Covers[todo[f].target] \subseteq reach[f]
        PROVE  \A j \in Instances : \A f \in DOMAIN tick'[j].todo :
                  Covers[tick'[j].todo[f].target] \subseteq reach[f]
    BY <2>1 DEF TickIs, ReachInv
  <2>2. CASE Acquire(i) \/ Release(i)
    BY <2>1, <2>2, TickMoves, IdleTickType
  <2>3. CASE Find(i)
    <3>1. \A f \in Active : Covers[event[f].target] \subseteq reach[f]
      BY <1>0, ActiveRows DEF ReachInv
    <3>2. PICK todo : todo = [e \in Active |-> event[e]] /\ TickIs(i, "next", tick[i].now, todo, None)
      BY <2>3, TickMoves
    <3>3. QED
      BY <2>1, <3>1, <3>2
  <2>4. CASE NotStarted(i) \/ Apply(i)
    <3>1. PICK e, todo :
             /\ TickIs(i, "next", tick[i].now, todo, None)
             /\ DOMAIN todo = DOMAIN tick[i].todo \ {e}
             /\ \A f \in DOMAIN todo : todo[f] = tick[i].todo[f]
      BY <2>4, TickGoesOn
    <3>2. \A f \in DOMAIN todo : Covers[todo[f].target] \subseteq reach[f]
      BY <3>1 DEF ReachInv
    <3>3. QED
      BY <2>1, <3>1, <3>2
  <2>5. CASE Mark(i)
    <3>1. PICK e, todo : todo = tick[i].todo /\ TickIs(i, "apply", tick[i].now, todo, e)
      BY <2>5, TickMoves
    <3>2. QED
      BY <2>1, <3>1 DEF ReachInv
  <2>6. QED
    BY <2>2, <2>3, <2>4, <2>5 DEF TickStep
<1>4. /\ shopUpdates' # {} => \E f \in Events : Products \subseteq reach[f]
      /\ \A p \in Products : (\A f \in Events : p \notin reach[f]) => discount'[p] = 0
  <2>1. CASE Apply(i)
    <3>1. PICK e \in Events : e = tick[i].current /\ e \in DOMAIN tick[i].todo /\ tick[i].todo[e] \in Row
      BY <1>0, <2>1, TodoRows DEF Apply, TickShape
    <3>2. PICK target \in Targets :
             target = tick[i].todo[e].target /\ \E d : SetDiscount(i, target, d)
      BY <2>1, <3>1 DEF Apply, Row
    <3>3. Covers[target] \subseteq reach[e]
      BY <3>1, <3>2 DEF ReachInv
    <3>4. QED
      BY <1>0, <3>2, <3>3, SetDiscountWrites, EventsAssumption DEF ReachInv
  <2>2. CASE ~Apply(i)
    BY <2>2 DEF TickStep, Acquire, Find, NotStarted, Mark, Release, ReachInv, history
  <2>3. QED
    BY <2>1, <2>2
<1>5. \A b \in Calls : call[b].pc = "save" => Fresh(b)'
  <2>1. \A b \in Calls : call[b].pc = "save" => call[b].id \in Events
    BY DEF TypeInv, CallShape
  <2>2. QED
    BY <1>1, <1>2, <2>1 DEF ReachInv, Fresh
<1>6. QED
  BY <1>1, <1>2, <1>3, <1>4, <1>5 DEF ReachInv

LEMMA CallReach ==
    ASSUME TypeInv, ReachInv, NEW a \in Calls, CallStep(a)
    PROVE  ReachInv' /\ \A e \in Events : reach[e] \subseteq reach'[e]
<1>0. TypeOK /\ CallShape(a)
  BY DEF TypeInv
<1>1. tick' = tick
  BY DEF CallStep, Create, Save, Update, FindConflict, Write, Delete, ApplyCall, Remove, history
<1>2. \A e \in Events : reach[e] \subseteq reach'[e]
  <2>1. CASE Save(a)
    BY <1>0, <2>1 DEF Save, TypeOK, CallShape, ReachInv, Fresh
  <2>2. CASE ~Save(a)
    BY <1>0, <2>2 DEF CallStep, Create, Update, FindConflict, Write, Delete, ApplyCall, Remove, history, TypeOK
  <2>3. QED
    BY <2>1, <2>2
<1>3. \A e \in Events : Exists(e)' => Covers[event'[e].target] \subseteq reach'[e]
  <2>1. CASE Save(a) \/ Write(a)
    BY <1>0, <2>1 DEF Save, Write, TypeOK, CallShape, ReachInv, Exists
  <2>2. CASE Remove(a)
    BY <1>0, <2>2 DEF Remove, TypeOK, ReachInv, Exists, history
  <2>3. CASE ~Save(a) /\ ~Write(a) /\ ~Remove(a)
    BY <2>3 DEF CallStep, Create, Update, FindConflict, Delete, ApplyCall, Remove, history, ReachInv, Exists
  <2>4. QED
    BY <2>1, <2>2, <2>3
<1>4. \A b \in Calls : call'[b].seen # Absent =>
         call'[b].id \in Events /\ Covers[call'[b].seen.target] \subseteq reach'[call'[b].id]
  <2>1. ASSUME NEW pc, NEW op, NEW id, NEW seen, NEW data, CallIs(a, pc, op, id, seen, data),
               seen # Absent => id \in Events /\ Covers[seen.target] \subseteq reach[id]
        PROVE  \A b \in Calls : call'[b].seen # Absent =>
                  call'[b].id \in Events /\ Covers[call'[b].seen.target] \subseteq reach'[call'[b].id]
    BY <1>2, <2>1 DEF CallIs, ReachInv
  <2>2. CASE Update(a) \/ Delete(a)
    <3>1. PICK e, pc, op, data :
             e \in Events /\ event[e] \in Row /\ CallIs(a, pc, op, e, event[e], data)
      BY <2>2, CallMoves
    <3>2. Covers[event[e].target] \subseteq reach[e]
      BY <3>1, AbsentIsNoRow DEF ReachInv, Exists
    <3>3. QED
      BY <2>1, <3>1, <3>2
  <2>3. CASE Create(a) \/ Save(a)
    BY <2>1, <2>3, CallMoves
  <2>4. CASE FindConflict(a) \/ Write(a) \/ ApplyCall(a) \/ Remove(a)
    <3>1. PICK pc, op, seen, data : seen \in {Absent, call[a].seen} /\ CallIs(a, pc, op, call[a].id, seen, data)
      BY <2>4, CallMoves
    <3>2. QED
      BY <2>1, <3>1 DEF ReachInv
  <2>5. QED
    BY <2>2, <2>3, <2>4 DEF CallStep
<1>5. \A b \in Calls : call'[b].pc = "save" => Fresh(b)'
  <2> SUFFICES ASSUME NEW b \in Calls, call'[b].pc = "save" PROVE Fresh(b)'
    OBVIOUS
  <2>1. CASE Create(a)
    <3>1. UNCHANGED <<event, reach>>
      BY <2>1 DEF Create
    <3>2. PICK e \in Events, data \in Row :
             /\ ~Exists(e) /\ reach[e] = {} /\ \A c \in Calls : call[c].id # e
             /\ CallIs(a, "save", "create", e, Absent, data)
      BY <2>1, CallMoves
    <3>3. QED
      BY <3>1, <3>2 DEF CallIs, Fresh, Exists, ReachInv
  <2>2. CASE ~Create(a)
    <3>1. b # a /\ call[b].pc = "save" /\ call'[b] = call[b] /\ call[b].id \in Events
      <4>1. PICK pc, op, id, seen, data : pc # "save" /\ CallIs(a, pc, op, id, seen, data)
        BY <2>2, CallMoves DEF CallStep
      <4>2. QED
        BY <4>1 DEF CallIs, TypeInv, CallShape
    <3>2. Fresh(b)
      BY <3>1 DEF ReachInv
    <3>3. CASE Update(a) \/ Delete(a)
      <4>1. PICK e, pc, op, data :
             e \in Events /\ event[e] \in Row /\ CallIs(a, pc, op, e, event[e], data)
        BY <3>3, CallMoves
      <4>2. e # call[b].id
        BY <3>2, <4>1, AbsentIsNoRow DEF Fresh, Exists
      <4>3. UNCHANGED <<event, reach>>
        BY <3>3 DEF Update, Delete
      <4>4. QED
        BY <3>1, <3>2, <4>1, <4>2, <4>3 DEF CallIs, Fresh, Exists
    <3>4. CASE ~Update(a) /\ ~Delete(a)
      <4>1. PICK pc, op, seen, data : CallIs(a, pc, op, call[a].id, seen, data)
        BY <2>2, <3>4, CallMoves DEF CallStep
      <4>2. call[a].id # call[b].id
        BY <3>1, <3>2 DEF Fresh
      <4>3. event'[call[b].id] = event[call[b].id] /\ reach'[call[b].id] = reach[call[b].id]
        BY <1>0, <2>2, <3>1, <3>4, <4>2
        DEF CallStep, Save, FindConflict, Write, ApplyCall, Remove, history, TypeOK
      <4>4. QED
        BY <3>1, <3>2, <4>1, <4>2, <4>3 DEF CallIs, Fresh, Exists
    <3>5. QED
      BY <3>3, <3>4
  <2>3. QED
    BY <2>1, <2>2
<1>6. /\ shopUpdates' # {} => \E f \in Events : Products \subseteq reach'[f]
      /\ \A p \in Products : (\A f \in Events : p \notin reach'[f]) => discount'[p] = 0
  <2>1. CASE ApplyCall(a)
    <3>1. PICK e \in Events : e = call[a].id /\ call[a].seen \in Row
      BY <1>0, <2>1 DEF ApplyCall, CallShape
    <3>2. PICK target \in Targets :
             target = call[a].seen.target /\ \E d : SetDiscount(a, target, d)
      BY <2>1, <3>1 DEF ApplyCall, Row
    <3>3. Covers[target] \subseteq reach[e]
      BY <3>1, <3>2, AbsentIsNoRow DEF ReachInv
    <3>4. QED
      BY <1>0, <1>2, <3>2, <3>3, SetDiscountWrites, EventsAssumption DEF ReachInv
  <2>2. CASE ~ApplyCall(a)
    <3>1. UNCHANGED <<discount, shopUpdates>>
      BY <2>2 DEF CallStep, Create, Save, Update, FindConflict, Write, Delete, Remove, history
    <3>2. QED
      BY <1>2, <3>1 DEF ReachInv
  <2>3. QED
    BY <2>1, <2>2
<1>7. \A i \in Instances : \A f \in DOMAIN tick'[i].todo : Covers[tick'[i].todo[f].target] \subseteq reach'[f]
  BY <1>0, <1>1, <1>2, TodoRows DEF ReachInv
<1>8. QED
  BY <1>2, <1>3, <1>4, <1>5, <1>6, <1>7 DEF ReachInv

LEMMA OtherReach ==
    ASSUME TypeInv, ReachInv,
           Tock \/ ShopUpdate \/ LockExpires \/ UNCHANGED vars \/ \E worker \in Instances \cup Calls : Kill(worker)
    PROVE  ReachInv' /\ reach' = reach
<1>0. TypeOK
  BY DEF TypeInv
<1>1. CASE Tock \/ LockExpires \/ UNCHANGED vars
  BY <1>1 DEF Tock, LockExpires, vars, history, ReachInv, Fresh, Exists
<1>2. CASE ShopUpdate
  <2>1. UNCHANGED <<event, reach, tick, call>> /\ shopUpdates # {} /\ shopUpdates' \subseteq shopUpdates
    BY <1>2 DEF ShopUpdate, history
  <2>2. PICK f \in Events : Products \subseteq reach[f]
    BY <2>1 DEF ReachInv
  <2>3. QED
    BY <2>1, <2>2 DEF ReachInv, Fresh, Exists
<1>3. CASE \E worker \in Instances \cup Calls : Kill(worker)
  <2>1. PICK worker \in Instances \cup Calls : Kill(worker)
    BY <1>3
  <2>2. UNCHANGED <<event, reach, discount>> /\ shopUpdates' \subseteq shopUpdates
    BY <2>1 DEF Kill
  <2>3. CASE worker \in Instances
    <3>1. call' = call /\ TickIs(worker, "idle", 0, <<>>, None)
      BY <1>0, <2>1, <2>3, TickFields DEF Kill
    <3>2. \A i \in Instances : \A f \in DOMAIN tick'[i].todo :
             Covers[tick'[i].todo[f].target] \subseteq reach[f]
      BY <3>1, IdleTickType DEF TickIs, ReachInv
    <3>3. QED
      BY <2>2, <3>1, <3>2 DEF ReachInv, Fresh, Exists
  <2>4. CASE worker \notin Instances
    <3>1. tick' = tick /\ worker \in Calls /\ CallIs(worker, "done", "none", None, Absent, Absent)
      BY <1>0, <2>1, <2>4, CallFields DEF Kill
    <3>2. \A b \in Calls : call'[b].seen # Absent =>
             call'[b].id \in Events /\ Covers[call'[b].seen.target] \subseteq reach[call'[b].id]
      BY <3>1 DEF CallIs, ReachInv
    <3>3. ASSUME NEW b \in Calls, call'[b].pc = "save" PROVE Fresh(b)'
      <4>1. b # worker /\ call'[b] = call[b] /\ call[b].id \in Events /\ Fresh(b)
        BY <3>1, <3>3 DEF CallIs, ReachInv, TypeInv, CallShape
      <4>2. QED
        BY <2>2, <3>1, <4>1, EventsAssumption DEF CallIs, Fresh, Exists
    <3>4. QED
      BY <2>2, <3>1, <3>2, <3>3 DEF ReachInv, Exists
  <2>5. QED
    BY <2>2, <2>3, <2>4
<1>4. QED
  BY <1>1, <1>2, <1>3

LEMMA StepReach ==
    TypeInv /\ ReachInv /\ [Next]_vars => ReachInv' /\ \A e \in Events : reach[e] \subseteq reach'[e]
<1> SUFFICES ASSUME TypeInv, ReachInv, [Next]_vars
             PROVE  ReachInv' /\ \A e \in Events : reach[e] \subseteq reach'[e]
  OBVIOUS
<1>1. ASSUME NEW i \in Instances, TickStep(i) PROVE reach' = reach
  BY <1>1 DEF TickStep, Acquire, Find, NotStarted, Mark, Apply, Release, history
<1>2. QED
  BY <1>1, TickReach, CallReach, OtherReach DEF Next
-----------------------------------------------------------------------------
(* Undisturbed: no process or call has died, and no two updates of the      *)
(* whole shop were under way at once.                                       *)

LEMMA UndisturbedBefore ==
    ASSUME TypeInv, [Next]_vars, Undisturbed'
    PROVE  /\ Undisturbed
           /\ \A worker \in Instances \cup Calls : ~Kill(worker)
           /\ LockExpires => lock \notin Ticking
<1>0. TypeOK /\ kills \in Nat /\ kills' = 0 /\ ~overtaken'
  BY EventsAssumption DEF TypeInv, TypeOK, Undisturbed
<1>1. \A worker \in Instances \cup Calls : ~Kill(worker)
  BY <1>0 DEF Kill
<1>2. kills = 0 /\ (LockExpires => lock \notin Ticking)
  <2>1. CASE LockExpires
    BY <1>0, <2>1 DEF LockExpires
  <2>2. CASE ~LockExpires
    BY <1>0, <1>1, <2>2
    DEF Next, vars, history, Tock, ShopUpdate, TickStep, Acquire, Find, NotStarted, Mark, Apply, Release,
        CallStep, Create, Save, Update, FindConflict, Write, Delete, ApplyCall, Remove
  <2>3. QED
    BY <2>1, <2>2
<1>3. ~overtaken
  BY <1>0, <1>1
  DEF Next, vars, history, Tock, ShopUpdate, LockExpires, TickStep, Acquire, Find, NotStarted, Mark, Apply,
      Release, CallStep, Create, Save, Update, FindConflict, Write, Delete, ApplyCall, Remove, SetDiscount
<1>4. QED
  BY <1>1, <1>2, <1>3 DEF Undisturbed

LEMMA CallsStay ==
    ASSUME TypeInv, [Next]_vars, Undisturbed', NEW b \in Calls, call[b].op # "none"
    PROVE  /\ call'[b].op = call[b].op /\ call'[b].id = call[b].id
           /\ call[b].op = "delete" => call'[b].seen = call[b].seen
<1>1. CASE \E a \in Calls : CallStep(a)
  <2>1. PICK a \in Calls : CallStep(a)
    BY <1>1
  <2>2. CASE Create(a) \/ Update(a) \/ Delete(a)
    <3>1. PICK pc, op, id, seen, data : call[a].pc = "new" /\ CallIs(a, pc, op, id, seen, data)
      BY <2>2, CallMoves
    <3>2. a # b
      BY <3>1 DEF TypeInv, CallShape
    <3>3. QED
      BY <3>1, <3>2 DEF CallIs
  <2>3. CASE Save(a) \/ FindConflict(a) \/ Write(a) \/ ApplyCall(a) \/ Remove(a)
    <3>1. PICK pc, op, seen, data :
             /\ CallIs(a, pc, op, call[a].id, seen, data)
             /\ op = call[a].op
             /\ op = "delete" => seen = call[a].seen
      BY <2>3, CallMoves DEF Save, FindConflict, Write, ApplyCall, Remove, TypeInv, CallShape
    <3>2. QED
      BY <3>1 DEF CallIs
  <2>4. QED
    BY <2>1, <2>2, <2>3 DEF CallStep
<1>2. CASE ~\E a \in Calls : CallStep(a)
  <2>1. call' = call
    BY <1>2, UndisturbedBefore
    DEF Next, vars, Tock, ShopUpdate, LockExpires, TickStep, Acquire, Find, NotStarted, Mark, Apply, Release
  <2>2. QED
    BY <2>1
<1>3. QED
  BY <1>1, <1>2

(* What a tick is to apply, and an update of the whole shop under way, is   *)
(* of an event that has that target still, unless a call has altered it.    *)

Altered(e) == \E b \in Calls : call[b].id = e /\ call[b].op \in {"update", "delete"}
Backed(e, target) == Altered(e) \/ (Exists(e) /\ event[e].target = target)

TodoBacked == \A i \in Instances : \A f \in DOMAIN tick[i].todo : Backed(f, tick[i].todo[f].target)
OriginInv ==
    Undisturbed =>
        /\ TodoBacked
        /\ shopUpdates # {} => \E f \in Events : Products \subseteq reach[f] /\ Backed(f, AllShop)

LEMMA InitOrigin == Init => OriginInv
<1>1. Init => \A i \in Instances : DOMAIN tick[i].todo = {}
  BY IdleTickType DEF Init
<1>2. Init => shopUpdates = {}
  BY DEF Init
<1>3. QED
  BY <1>1, <1>2 DEF OriginInv, TodoBacked

LEMMA BackedStays ==
    ASSUME TypeInv, ReachInv, [Next]_vars, Undisturbed', NEW f \in Events, NEW target, Backed(f, target)
    PROVE  Backed(f, target)'
<1>0. TypeOK
  BY DEF TypeInv
<1>1. CASE Altered(f)
  <2>1. PICK b \in Calls : call[b].id = f /\ call[b].op \in {"update", "delete"}
    BY <1>1 DEF Altered
  <2>2. call'[b].id = f /\ call'[b].op \in {"update", "delete"}
    BY <2>1, CallsStay
  <2>3. QED
    BY <2>2 DEF Altered, Backed
<1>2. CASE ~Altered(f) /\ Exists(f) /\ event[f].target = target
  <2>1. ASSUME NEW i \in Instances, TickStep(i) PROVE Backed(f, target)'
    BY <1>2, <2>1, MarkKeeps DEF Backed
  <2>2. ASSUME NEW a \in Calls, CallStep(a) PROVE Backed(f, target)'
    <3>1. CASE Write(a) \/ Remove(a)
      <4>1. call[a].id # f
        BY <1>2, <3>1 DEF Altered, Write, Remove, TypeInv, CallShape
      <4>2. event'[f] = event[f]
        BY <1>0, <3>1, <4>1 DEF Write, Remove, TypeOK
      <4>3. QED
        BY <1>2, <4>2 DEF Backed, Exists
    <3>2. CASE Save(a)
      <4>1. call[a].id # f
        BY <1>2, <3>2 DEF Save, ReachInv, Fresh
      <4>2. event'[f] = event[f]
        BY <1>0, <3>2, <4>1 DEF Save, TypeOK
      <4>3. QED
        BY <1>2, <4>2 DEF Backed, Exists
    <3>3. CASE Create(a) \/ Update(a) \/ FindConflict(a) \/ Delete(a) \/ ApplyCall(a)
      <4>1. event' = event
        BY <3>3 DEF Create, Update, FindConflict, Delete, ApplyCall
      <4>2. QED
        BY <1>2, <4>1 DEF Backed, Exists
    <3>4. QED
      BY <2>2, <3>1, <3>2, <3>3 DEF CallStep
  <2>3. CASE Tock \/ ShopUpdate \/ LockExpires \/ UNCHANGED vars
    <3>1. event' = event
      BY <2>3 DEF Tock, ShopUpdate, LockExpires, vars
    <3>2. QED
      BY <1>2, <3>1 DEF Backed, Exists
  <2>4. QED
    BY <2>1, <2>2, <2>3, UndisturbedBefore DEF Next
<1>3. QED
  BY <1>1, <1>2 DEF Backed

LEMMA StepOrigin == TypeInv /\ ReachInv /\ OriginInv /\ [Next]_vars => OriginInv'
<1> SUFFICES ASSUME TypeInv, ReachInv, OriginInv, [Next]_vars, Undisturbed'
             PROVE  /\ TodoBacked'
                    /\ shopUpdates' # {} =>
                          \E f \in Events : Products \subseteq reach'[f] /\ Backed(f, AllShop)'
  BY DEF OriginInv
<1>0. TypeOK /\ Undisturbed
  BY UndisturbedBefore DEF TypeInv
<1>1. /\ \A i \in Instances : \A f \in DOMAIN tick[i].todo : Backed(f, tick[i].todo[f].target)
      /\ shopUpdates # {} => \E f \in Events : Products \subseteq reach[f] /\ Backed(f, AllShop)
  BY <1>0 DEF OriginInv, TodoBacked
<1>2. ASSUME shopUpdates # {}
      PROVE  \E f \in Events : Products \subseteq reach'[f] /\ Backed(f, AllShop)'
  BY <1>1, <1>2, BackedStays, StepReach
<1>3. ASSUME tick' = tick
      PROVE  TodoBacked'
  <2> SUFFICES ASSUME NEW i \in Instances, NEW f \in DOMAIN tick[i].todo
               PROVE  \A target : target = tick[i].todo[f].target => Backed(f, target)'
    BY <1>3 DEF TodoBacked, Backed
  <2>1. PICK target : target = tick[i].todo[f].target /\ Backed(f, target) /\ f \in Events
    BY <1>0, <1>1, TodoRows
  <2>2. Backed(f, target)'
    BY <2>1, BackedStays
  <2>3. QED
    BY <2>1, <2>2
<1>4. ASSUME NEW i \in Instances, TickStep(i)
      PROVE  TodoBacked'
  <2>1. \A j \in Instances : \A f \in DOMAIN tick'[j].todo :
           f \in Events /\ Backed(f, tick'[j].todo[f].target)
    <3>1. ASSUME NEW pc, NEW time, NEW todo, NEW current, TickIs(i, pc, time, todo, current),
                 \A f \in DOMAIN todo : f \in Events /\ Backed(f, todo[f].target)
          PROVE  \A j \in Instances : \A f \in DOMAIN tick'[j].todo :
                    f \in Events /\ Backed(f, tick'[j].todo[f].target)
      BY <1>0, <1>1, <3>1, TodoRows DEF TickIs
    <3>2. CASE Acquire(i) \/ Release(i)
      BY <3>1, <3>2, TickMoves, IdleTickType
    <3>3. CASE Find(i)
      <4>1. PICK todo : todo = [e \in Active |-> event[e]] /\ TickIs(i, "next", tick[i].now, todo, None)
        BY <3>3, TickMoves
      <4>2. \A f \in DOMAIN todo : f \in Events /\ Backed(f, todo[f].target)
        BY <1>0, <4>1, ActiveRows DEF Backed
      <4>3. QED
        BY <3>1, <4>1, <4>2
    <3>4. CASE NotStarted(i) \/ Apply(i)
      <4>1. PICK e, todo :
               /\ TickIs(i, "next", tick[i].now, todo, None)
               /\ DOMAIN todo = DOMAIN tick[i].todo \ {e}
               /\ \A f \in DOMAIN todo : todo[f] = tick[i].todo[f]
        BY <3>4, TickGoesOn
      <4>2. \A f \in DOMAIN todo : f \in Events /\ Backed(f, todo[f].target)
        BY <1>0, <1>1, <4>1, TodoRows
      <4>3. QED
        BY <3>1, <4>1, <4>2
    <3>5. CASE Mark(i)
      <4>1. PICK e, todo : todo = tick[i].todo /\ TickIs(i, "apply", tick[i].now, todo, e)
        BY <3>5, TickMoves
      <4>2. QED
        BY <1>0, <1>1, <3>1, <4>1, TodoRows
    <3>6. QED
      BY <1>4, <3>2, <3>3, <3>4, <3>5 DEF TickStep
  <2> SUFFICES ASSUME NEW j \in Instances, NEW f \in DOMAIN tick'[j].todo
               PROVE  \A target : target = tick'[j].todo[f].target => Backed(f, target)'
    BY DEF TodoBacked, Backed
  <2>2. PICK target : target = tick'[j].todo[f].target /\ Backed(f, target) /\ f \in Events
    BY <2>1
  <2>3. Backed(f, target)'
    BY <2>2, BackedStays
  <2>4. QED
    BY <2>2, <2>3
<1>5. ASSUME NEW e \in Events, NEW worker, NEW target \in Targets, NEW d,
             Covers[target] \subseteq reach[e], Backed(e, target), SetDiscount(worker, target, d),
             shopUpdates' # {}
      PROVE  \E f \in Events : Products \subseteq reach'[f] /\ Backed(f, AllShop)'
  <2>1. CASE shopUpdates # {}
    BY <1>2, <2>1
  <2>2. CASE shopUpdates = {}
    <3>1. target = AllShop /\ Products \subseteq reach[e]
      BY <1>5, <2>2, EventsAssumption DEF SetDiscount
    <3>2. QED
      BY <1>5, <3>1, BackedStays, StepReach
  <2>3. QED
    BY <2>1, <2>2
<1>6. ASSUME NEW i \in Instances, TickStep(i), shopUpdates' # {}
      PROVE  \E f \in Events : Products \subseteq reach'[f] /\ Backed(f, AllShop)'
  <2>1. CASE Apply(i)
    <3>1. PICK e \in Events : e = tick[i].current /\ e \in DOMAIN tick[i].todo /\ tick[i].todo[e] \in Row
      BY <1>0, <2>1, TodoRows DEF Apply, TickShape, TypeInv
    <3>2. PICK target \in Targets :
             target = tick[i].todo[e].target /\ \E d : SetDiscount(i, target, d)
      BY <2>1, <3>1 DEF Apply, Row
    <3>3. Covers[target] \subseteq reach[e] /\ Backed(e, target)
      BY <1>1, <3>1, <3>2 DEF ReachInv
    <3>4. QED
      BY <1>5, <1>6, <3>2, <3>3
  <2>2. CASE ~Apply(i)
    <3>1. shopUpdates' = shopUpdates
      BY <1>6, <2>2 DEF TickStep, Acquire, Find, NotStarted, Mark, Release
    <3>2. QED
      BY <1>2, <1>6, <3>1
  <2>3. QED
    BY <2>1, <2>2
<1>7. ASSUME NEW a \in Calls, CallStep(a), shopUpdates' # {}
      PROVE  \E f \in Events : Products \subseteq reach'[f] /\ Backed(f, AllShop)'
  <2>1. CASE ApplyCall(a)
    <3>1. PICK e \in Events :
             e = call[a].id /\ call[a].op \in {"update", "delete"} /\ call[a].seen \in Row
      BY <2>1 DEF ApplyCall, TypeInv, CallShape
    <3>2. PICK target \in Targets :
             target = call[a].seen.target /\ \E d : SetDiscount(a, target, d)
      BY <2>1, <3>1 DEF ApplyCall, Row
    <3>3. Covers[target] \subseteq reach[e] /\ Backed(e, target)
      BY <3>1, <3>2, AbsentIsNoRow DEF ReachInv, Backed, Altered
    <3>4. QED
      BY <1>5, <1>7, <3>2, <3>3
  <2>2. CASE ~ApplyCall(a)
    <3>1. shopUpdates' = shopUpdates
      BY <1>7, <2>2 DEF CallStep, Create, Save, Update, FindConflict, Write, Delete, Remove
    <3>2. QED
      BY <1>2, <1>7, <3>1
  <2>3. QED
    BY <2>1, <2>2
<1>8. CASE \E i \in Instances : TickStep(i)
  BY <1>4, <1>6, <1>8
<1>9. CASE \E a \in Calls : CallStep(a)
  <2>1. tick' = tick
    BY <1>9 DEF CallStep, Create, Save, Update, FindConflict, Write, Delete, ApplyCall, Remove
  <2>2. QED
    BY <1>3, <1>7, <1>9, <2>1
<1>10. CASE Tock \/ ShopUpdate \/ LockExpires \/ UNCHANGED vars
  <2>1. tick' = tick /\ (shopUpdates' # {} => shopUpdates # {})
    BY <1>10 DEF Tock, ShopUpdate, LockExpires, vars
  <2>2. QED
    BY <1>2, <1>3, <2>1
<1>11. QED
  BY <1>8, <1>9, <1>10, UndisturbedBefore DEF Next
-----------------------------------------------------------------------------
(* DeletionResets.  From its read on, no tick runs beside such a deletion,  *)
(* none holds its event, and nobody else writes to the event's own products. *)

Sole(a) == \A b \in Calls \ {a} : call[b].id = call[a].id => call[b].op = "create"
Only(p, e) == \A f \in Events : p \in reach[f] => f = e

Settled(a, p) ==
    /\ call[a].pc = "apply" /\ shopUpdates # {} => call[a].seen.target = AllShop
    /\ call[a].pc # "apply" =>
          (\A u \in shopUpdates : u[2] = 0) /\ (shopUpdates = {} => discount[p] = 0)

DeletionOf(a) ==
    /\ call[a].pc # "done" => \A i \in Instances : tick[i].pc = "idle"
    /\ call[a].pc = "done" => ~Exists(call[a].id)
    /\ \A i \in Instances : call[a].id \notin DOMAIN tick[i].todo
    /\ call[a].seen.status = "ON_GOING" =>
          \A p \in Covers[call[a].seen.target] : Only(p, call[a].id) => Settled(a, p)

DeletionInv ==
    Undisturbed => \A a \in Calls \ raced : call[a].op = "delete" /\ Sole(a) => DeletionOf(a)

LEMMA InitDeletion == Init => DeletionInv
BY DEF Init, DeletionInv, NewCall

\* Steps of ticks, of other calls, and of nobody.
LEMMA DeletionBystander ==
    ASSUME TypeInv, ReachInv, [Next]_vars, Undisturbed', NEW a \in Calls, a \notin raced',
           call[a].op = "delete", Sole(a), DeletionOf(a), ~CallStep(a)
    PROVE  DeletionOf(a)'
<1>0. /\ TypeOK /\ CallShape(a) /\ call[a].id \in Events /\ call[a].seen \in Row
      /\ Covers[call[a].seen.target] \subseteq Products
  BY EventsAssumption DEF TypeInv, CallShape, Row
<1>1. call'[a] = call[a]
  <2>1. ASSUME NEW b \in Calls, CallStep(b) PROVE call'[a] = call[a]
    <3>1. PICK pc, op, id, seen, data : CallIs(b, pc, op, id, seen, data)
      BY <2>1, CallMoves DEF CallStep
    <3>2. QED
      BY <2>1, <3>1 DEF CallIs
  <2>2. CASE ~\E b \in Calls : CallStep(b)
    BY <2>2, UndisturbedBefore
    DEF Next, vars, Tock, ShopUpdate, LockExpires, TickStep, Acquire, Find, NotStarted, Mark, Apply, Release
  <2>3. QED
    BY <2>1, <2>2
<1>2. \A p \in Products : Only(p, call[a].id)' => Only(p, call[a].id)
  BY <1>1, StepReach DEF Only
<1>3. ASSUME UNCHANGED <<tick, event, discount>>, shopUpdates' = shopUpdates PROVE DeletionOf(a)'
  BY <1>0, <1>1, <1>2, <1>3 DEF DeletionOf, Settled, Exists
\* What is written for another event misses the event's own products.
<1>4. ASSUME NEW f \in Events, f # call[a].id, NEW worker, NEW target \in Targets, NEW d,
             Covers[target] \subseteq reach[f], SetDiscount(worker, target, d),
             NEW p \in Covers[call[a].seen.target], Only(p, call[a].id), Settled(a, p)
      PROVE  Settled(a, p)'
  <2>1. p \in Products /\ p \notin Covers[target]
    BY <1>0, <1>4 DEF Only
  <2>2. discount'[p] = discount[p] /\ shopUpdates' = shopUpdates
    BY <1>0, <1>4, <2>1, SetDiscountWrites
  <2>3. QED
    BY <1>1, <1>4, <2>2 DEF Settled
<1>5. ASSUME NEW i \in Instances, TickStep(i) PROVE DeletionOf(a)'
  <2>0. PICK e \in Events : e = call[a].id
    BY <1>0
  <2>1. call[a].pc = "done" /\ ~Exists(e) /\ ~Exists(e)'
    <3>1. CASE call[a].pc # "done"
      <4>1. tick[i].pc = "idle"
        BY <3>1 DEF DeletionOf
      <4>2. Acquire(i)
        BY <1>5, <4>1 DEF TickStep, Find, NotStarted, Mark, Apply, Release
      <4>3. QED
        BY <3>1, <4>2 DEF Acquire
    <3>2. QED
      BY <1>5, <2>0, <3>1, MarkKeeps DEF DeletionOf
  <2>2. \A j \in Instances : call[a].id \notin DOMAIN tick'[j].todo
    <3>1. ASSUME NEW pc, NEW time, NEW todo, NEW current, TickIs(i, pc, time, todo, current),
                 call[a].id \notin DOMAIN todo
          PROVE  \A j \in Instances : call[a].id \notin DOMAIN tick'[j].todo
      BY <3>1 DEF TickIs, DeletionOf
    <3>2. CASE Acquire(i) \/ Release(i)
      BY <3>1, <3>2, TickMoves, IdleTickType
    <3>3. CASE Find(i)
      <4>1. PICK todo : todo = [f \in Active |-> event[f]] /\ TickIs(i, "next", tick[i].now, todo, None)
        BY <3>3, TickMoves
      <4>2. call[a].id \notin DOMAIN todo
        BY <1>0, <2>0, <2>1, <4>1, ActiveRows
      <4>3. QED
        BY <3>1, <4>1, <4>2
    <3>4. CASE NotStarted(i) \/ Apply(i)
      <4>1. PICK f, todo :
               /\ TickIs(i, "next", tick[i].now, todo, None)
               /\ DOMAIN todo = DOMAIN tick[i].todo \ {f}
        BY <3>4, TickGoesOn
      <4>2. QED
        BY <3>1, <4>1 DEF DeletionOf
    <3>5. CASE Mark(i)
      <4>1. PICK f, todo : todo = tick[i].todo /\ TickIs(i, "apply", tick[i].now, todo, f)
        BY <3>5, TickMoves
      <4>2. QED
        BY <3>1, <4>1 DEF DeletionOf
    <3>6. QED
      BY <1>5, <3>2, <3>3, <3>4, <3>5 DEF TickStep
  <2>3. ASSUME NEW p \in Covers[call[a].seen.target], Only(p, call[a].id), Settled(a, p)
        PROVE  Settled(a, p)'
    <3>1. CASE Apply(i)
      <4>1. PICK f \in Events : f = tick[i].current /\ f \in DOMAIN tick[i].todo /\ tick[i].todo[f] \in Row
        BY <1>0, <3>1, TodoRows DEF Apply, TickShape, TypeInv
      <4>2. PICK target \in Targets :
               target = tick[i].todo[f].target /\ \E d : SetDiscount(i, target, d)
        BY <3>1, <4>1 DEF Apply, Row
      <4>3. Covers[target] \subseteq reach[f] /\ f # call[a].id
        BY <4>1, <4>2 DEF ReachInv, DeletionOf
      <4>4. QED
        BY <1>4, <2>3, <4>2, <4>3
    <3>2. CASE ~Apply(i)
      <4>1. UNCHANGED <<discount, shopUpdates>>
        BY <1>5, <3>2 DEF TickStep, Acquire, Find, NotStarted, Mark, Release
      <4>2. QED
        BY <1>1, <2>3, <4>1 DEF Settled
    <3>3. QED
      BY <3>1, <3>2
  <2>4. QED
    BY <1>0, <1>1, <1>2, <2>0, <2>1, <2>2, <2>3 DEF DeletionOf, Exists
<1>6. ASSUME NEW b \in Calls, CallStep(b) PROVE DeletionOf(a)'
  <2>0. b # a
    BY <1>6
  <2>1. b # a /\ tick' = tick
    BY <1>6, <2>0 DEF CallStep, Create, Save, Update, FindConflict, Write, Delete, ApplyCall, Remove, history
  <2>2. call[b].op \in {"update", "delete"} => call[b].id # call[a].id
    BY <2>1 DEF Sole
  <2>3. event'[call[a].id] = event[call[a].id]
    <3>1. CASE Save(b)
      <4>1. call[b].id # call[a].id
        BY <2>1, <3>1 DEF Save, ReachInv, Fresh
      <4>2. QED
        BY <1>0, <3>1, <4>1 DEF Save, TypeOK
    <3>2. CASE Write(b) \/ Remove(b)
      <4>1. call[b].id # call[a].id
        BY <2>2, <3>2 DEF Write, Remove, TypeInv, CallShape
      <4>2. QED
        BY <1>0, <3>2, <4>1 DEF Write, Remove, TypeOK
    <3>3. CASE Create(b) \/ Update(b) \/ FindConflict(b) \/ Delete(b) \/ ApplyCall(b)
      BY <3>3 DEF Create, Update, FindConflict, Delete, ApplyCall
    <3>4. QED
      BY <1>6, <3>1, <3>2, <3>3 DEF CallStep
  <2>4. ASSUME NEW p \in Covers[call[a].seen.target], Only(p, call[a].id), Settled(a, p)
        PROVE  Settled(a, p)'
    <3>1. CASE ApplyCall(b)
      <4>1. PICK f \in Events :
               f = call[b].id /\ call[b].op \in {"update", "delete"} /\ call[b].seen \in Row
        BY <3>1 DEF ApplyCall, TypeInv, CallShape
      <4>2. PICK target \in Targets :
               target = call[b].seen.target /\ \E d : SetDiscount(b, target, d)
        BY <3>1, <4>1 DEF ApplyCall, Row
      <4>3. Covers[target] \subseteq reach[f] /\ f # call[a].id
        BY <2>2, <4>1, <4>2, AbsentIsNoRow DEF ReachInv
      <4>4. QED
        BY <1>4, <2>4, <4>2, <4>3
    <3>2. CASE ~ApplyCall(b)
      <4>1. UNCHANGED <<discount, shopUpdates>>
        BY <1>6, <3>2 DEF CallStep, Create, Save, Update, FindConflict, Write, Delete, Remove
      <4>2. QED
        BY <1>1, <2>4, <4>1 DEF Settled
    <3>3. QED
      BY <3>1, <3>2
  <2>5. QED
    BY <1>0, <1>1, <1>2, <2>1, <2>3, <2>4 DEF DeletionOf, Exists
<1>7. CASE ShopUpdate
  <2>1. PICK u \in shopUpdates : discount' = Discounted(AllShop, u[2]) /\ shopUpdates' = shopUpdates \ {u}
    BY <1>7 DEF ShopUpdate
  <2>2. UNCHANGED <<tick, event>> /\ \A p \in Products : discount'[p] = u[2]
    BY <1>7, <2>1, EventsAssumption DEF ShopUpdate, Discounted
  <2>3. ASSUME NEW p \in Products, Settled(a, p) PROVE Settled(a, p)'
    BY <1>1, <2>1, <2>2, <2>3 DEF Settled
  <2>4. QED
    BY <1>0, <1>1, <1>2, <2>2, <2>3 DEF DeletionOf, Exists
<1>8. CASE Tock \/ LockExpires \/ UNCHANGED vars
  BY <1>3, <1>8 DEF Tock, LockExpires, vars
<1>9. QED
  BY <1>5, <1>6, <1>7, <1>8, UndisturbedBefore DEF Next

\* The deletion's own steps.
LEMMA DeletionGoesOn ==
    ASSUME TypeInv, Undisturbed', NEW a \in Calls, call[a].op = "delete", DeletionOf(a), CallStep(a)
    PROVE  DeletionOf(a)'
<1>0. /\ TypeOK /\ CallShape(a) /\ call[a].id \in Events /\ call[a].seen \in Row /\ ~overtaken'
      /\ Covers[call[a].seen.target] \subseteq Products
  BY EventsAssumption DEF TypeInv, CallShape, Row, Undisturbed
<1>1. call[a].pc \notin {"new", "save", "conflict", "write", "done"} /\ (ApplyCall(a) \/ Remove(a))
  BY <1>0
  DEF CallShape, CallStep, Create, Save, Update, FindConflict, Write, Delete, ApplyCall, Remove, Begin
<1>2. CASE ApplyCall(a)
  <2>1. CallIs(a, "remove", "delete", call[a].id, call[a].seen, call[a].data)
    BY <1>2, CallMoves
  <2>2. UNCHANGED <<tick, reach>> /\ call[a].pc = "apply"
    BY <1>2 DEF ApplyCall
  <2>3. SetDiscount(a, call[a].seen.target, 0) /\ call[a].seen.target \in Targets
    BY <1>0, <1>2 DEF ApplyCall, CallDiscount, Row
  <2>4. ASSUME NEW p \in Covers[call[a].seen.target], Settled(a, p) PROVE Settled(a, p)'
    <3>1. CASE call[a].seen.target = AllShop
      <4>1. shopUpdates' = {<<a, 0>>}
        BY <1>0, <2>3, <3>1, SetDiscountWrites
      <4>2. shopUpdates' # {} /\ \A u \in shopUpdates' : u[2] = 0
        BY <4>1
      <4>3. QED
        BY <2>1, <4>2 DEF CallIs, Settled
    <3>2. CASE call[a].seen.target # AllShop
      <4>1. shopUpdates = {}
        BY <2>2, <2>4, <3>2 DEF Settled
      <4>2. shopUpdates' = {} /\ discount'[p] = 0
        BY <1>0, <2>3, <2>4, <3>2, <4>1, SetDiscountWrites
      <4>3. QED
        BY <2>1, <4>2 DEF CallIs, Settled
    <3>3. QED
      BY <3>1, <3>2
  <2>5. QED
    BY <2>1, <2>2, <2>4 DEF CallIs, DeletionOf, Only
<1>3. CASE Remove(a)
  <2>1. CallIs(a, "done", "delete", call[a].id, call[a].seen, Absent)
    BY <1>3, CallMoves
  <2>2. /\ UNCHANGED <<tick, reach, discount, shopUpdates>> /\ call[a].pc = "remove"
        /\ event'[call[a].id] = Absent
    BY <1>0, <1>3 DEF Remove, history, TypeOK
  <2>3. ASSUME NEW p, Settled(a, p) PROVE Settled(a, p)'
    BY <2>1, <2>2, <2>3 DEF CallIs, Settled
  <2>4. QED
    BY <2>1, <2>2, <2>3 DEF CallIs, DeletionOf, Only, Exists
<1>4. QED
  BY <1>1, <1>2, <1>3

\* Where it begins.
LEMMA DeletionBegins ==
    ASSUME TypeInv, ReachInv, OriginInv, Undisturbed, NEW a \in Calls, Delete(a), a \notin raced', Sole(a)'
    PROVE  DeletionOf(a)'
<1>1. PICK e \in Events :
         /\ event[e] \in Row
         /\ CallIs(a, IF event[e].status = "ON_GOING" THEN "apply" ELSE "remove", "delete", e, event[e], Absent)
  BY CallMoves
<1>2. /\ UNCHANGED <<event, discount, tick, shopUpdates, reach>>
      /\ call[a].pc = "new"
  BY DEF Delete, Begin
<1>3. \A i \in Instances : tick[i].pc = "idle" /\ DOMAIN tick[i].todo = {}
  <2>1. Ticking = {}
    BY AbsentIsNoRow DEF Delete, Begin
  <2>2. QED
    BY <2>1 DEF Ticking, TypeInv, TickShape
<1>4. ~Altered(e)
  BY <1>1, <1>2 DEF Altered, CallIs, Sole, TypeInv, CallShape
<1>5. ASSUME NEW p \in Covers[event[e].target], Only(p, e), shopUpdates # {}
      PROVE  event[e].target = AllShop
  <2>1. PICK f \in Events : Products \subseteq reach[f] /\ Backed(f, AllShop)
    BY <1>5 DEF OriginInv
  <2>2. p \in Products
    BY <1>1, EventsAssumption DEF Row
  <2>3. f = e
    BY <1>5, <2>1, <2>2 DEF Only
  <2>4. QED
    BY <1>4, <2>1, <2>3 DEF Backed
<1>6. ASSUME NEW p \in Covers[event[e].target], Only(p, e), event[e].status = "ON_GOING"
      PROVE  Settled(a, p)'
  BY <1>1, <1>2, <1>5, <1>6 DEF CallIs, Settled
<1>7. QED
  BY <1>1, <1>2, <1>3, <1>6 DEF CallIs, DeletionOf, Only

LEMMA StepDeletion == TypeInv /\ ReachInv /\ OriginInv /\ DeletionInv /\ [Next]_vars => DeletionInv'
<1> SUFFICES ASSUME TypeInv, ReachInv, OriginInv, DeletionInv, [Next]_vars, Undisturbed',
                    NEW a \in Calls, a \notin raced', call'[a].op = "delete", Sole(a)'
             PROVE  DeletionOf(a)'
  BY DEF DeletionInv
<1>0. TypeOK /\ Undisturbed /\ a \notin raced
  <2>1. raced \subseteq raced'
    <3>1. ASSUME NEW i \in Instances, TickStep(i) PROVE raced \subseteq raced'
      BY <3>1 DEF TickStep, Acquire, Find, NotStarted, Mark, Apply, Release, history
    <3>2. ASSUME NEW b \in Calls, CallStep(b) PROVE raced \subseteq raced'
      BY <3>2
      DEF CallStep, Create, Save, Update, FindConflict, Write, Delete, ApplyCall, Remove, Begin, history
    <3>3. CASE Tock \/ ShopUpdate \/ LockExpires \/ UNCHANGED vars
      BY <3>3 DEF Tock, ShopUpdate, LockExpires, vars, history
    <3>4. QED
      BY <3>1, <3>2, <3>3, UndisturbedBefore DEF Next
  <2>2. QED
    BY <2>1, UndisturbedBefore DEF TypeInv
<1>1. CASE call[a].op = "delete"
  <2>1. Sole(a)
    <3>1. call'[a].id = call[a].id /\ call[a].id \in Events
      BY <1>1, CallsStay DEF TypeInv, CallShape
    <3>2. ASSUME NEW b \in Calls \ {a}, call[b].id = call[a].id PROVE call[b].op = "create"
      <4>1. call[b].op # "none"
        BY <3>1, <3>2, EventsAssumption DEF TypeInv, CallShape
      <4>2. QED
        BY <3>1, <3>2, <4>1, CallsStay DEF Sole
    <3>3. QED
      BY <3>2 DEF Sole
  <2>2. DeletionOf(a)
    BY <1>0, <1>1, <2>1 DEF DeletionInv
  <2>3. QED
    BY <1>1, <2>1, <2>2, DeletionBystander, DeletionGoesOn
<1>2. CASE call[a].op # "delete"
  <2>1. call[a].op = "none"
    BY <1>2, CallsStay
  <2>2. PICK b \in Calls : CallStep(b)
    BY <2>1, UndisturbedBefore
    DEF Next, vars, Tock, ShopUpdate, LockExpires, TickStep, Acquire, Find, NotStarted, Mark, Apply, Release
  <2>3. PICK pc, op, id, seen, data : CallIs(b, pc, op, id, seen, data)
    BY <2>2, CallMoves DEF CallStep
  <2>4. b = a
    BY <2>1, <2>3 DEF CallIs
  <2>5. Delete(a)
    BY <2>1, <2>2, <2>4, CallMoves DEF CallStep, CallIs, TypeInv, CallShape, Save, FindConflict, Write,
       ApplyCall, Remove
  <2>6. QED
    BY <1>0, <2>5, DeletionBegins
<1>3. QED
  BY <1>1, <1>2

(* The deletion of a running event, beside which no tick runs, takes the    *)
(* discount from every product that no other event could write to, however  *)
(* it interleaves with the creation, the update and the deletion of others, *)
(* and with the updates of the whole shop that are not awaited.             *)
THEOREM EventsDeletionResets == Spec => []DeletionResets
<1>1. TypeInv /\ DeletionInv => DeletionResets
  <2> SUFFICES ASSUME TypeInv, DeletionInv, Quiet, Undisturbed, NEW a \in DeletedRunning \ raced, Sole(a)
               PROVE  Reset(a)
    BY DEF DeletionResets, Sole
  <2>1. /\ a \in Calls /\ call[a].op = "delete" /\ call[a].pc = "done" /\ call[a].seen.status = "ON_GOING"
        /\ shopUpdates = {}
    BY DEF DeletedRunning, Quiet
  <2>2. DeletionOf(a)
    BY <2>1 DEF DeletionInv
  <2>3. QED
    BY <2>1, <2>2 DEF DeletionOf, Settled, Only, Reset
<1>2. QED
  BY <1>1, InitTyped, StepTyped, InitReach, StepReach, InitOrigin, StepOrigin, InitDeletion, StepDeletion,
     PTL DEF Spec
-----------------------------------------------------------------------------
(* StatusAgrees.  Events the admin let alone (not touched) are written to   *)
(* by the one tick that runs, under the lock; what it read of them is still *)
(* so, but for the status it has marked itself.                             *)

TouchInv ==
    /\ \A b \in Calls : call[b].op \in {"update", "delete"} => call[b].id \in touched
    /\ \A b \in Calls : call[b].pc = "save" /\ call[b].data.status = "ON_GOING" => call[b].id \in touched

OneTick == Undisturbed => \A i \in Instances : tick[i].pc # "idle" <=> lock = i

LEMMA InitTouch == Init => TouchInv /\ OneTick
<1> SUFFICES ASSUME Init PROVE TouchInv /\ OneTick
  OBVIOUS
<1>1. \A b \in Calls : call[b].op = "none" /\ call[b].pc = "new"
  BY DEF Init, NewCall
<1>2. lock = None /\ \A i \in Instances : tick[i].pc = "idle"
  BY DEF Init, IdleTick
<1>3. QED
  BY <1>1, <1>2, EventsAssumption DEF TouchInv, OneTick

LEMMA StepTouch == TypeInv /\ TouchInv /\ [Next]_vars => TouchInv' /\ touched \subseteq touched'
<1> SUFFICES ASSUME TypeInv, TouchInv, [Next]_vars PROVE TouchInv' /\ touched \subseteq touched'
  OBVIOUS
<1>1. ASSUME NEW a \in Calls, CallStep(a) PROVE TouchInv' /\ touched \subseteq touched'
  <2>1. ASSUME NEW pc, NEW op, NEW id, NEW seen, NEW data, CallIs(a, pc, op, id, seen, data),
               touched \subseteq touched', op \in {"update", "delete"} => id \in touched',
               pc = "save" /\ data.status = "ON_GOING" => id \in touched'
        PROVE  TouchInv' /\ touched \subseteq touched'
    BY <2>1 DEF CallIs, TouchInv
  <2>2. CASE Create(a) \/ Update(a) \/ Delete(a)
    BY <2>1, <2>2, CallMoves
  <2>3. CASE Save(a) \/ FindConflict(a) \/ Write(a) \/ ApplyCall(a) \/ Remove(a)
    <3>1. touched' = touched
      BY <2>3 DEF Save, FindConflict, Write, ApplyCall, Remove, history
    <3>2. PICK pc, op, seen, data :
             /\ CallIs(a, pc, op, call[a].id, seen, data)
             /\ op = call[a].op /\ pc # "save"
      BY <2>3, CallMoves DEF Save, FindConflict, Write, ApplyCall, Remove, TypeInv, CallShape
    <3>3. QED
      BY <2>1, <3>1, <3>2 DEF TouchInv
  <2>4. QED
    BY <1>1, <2>2, <2>3 DEF CallStep
<1>2. ASSUME NEW i \in Instances, TickStep(i) PROVE TouchInv' /\ touched \subseteq touched'
  BY <1>2 DEF TickStep, Acquire, Find, NotStarted, Mark, Apply, Release, history, TouchInv
<1>3. ASSUME NEW worker \in Instances \cup Calls, Kill(worker) PROVE TouchInv' /\ touched \subseteq touched'
  <2>1. touched' = touched /\ (call' = call \/ CallIs(worker, "done", "none", None, Absent, Absent))
    BY <1>3, CallFields DEF Kill, TypeInv
  <2>2. CASE call' = call
    BY <2>1, <2>2 DEF TouchInv
  <2>3. CASE CallIs(worker, "done", "none", None, Absent, Absent)
    BY <2>1, <2>3 DEF CallIs, TouchInv
  <2>4. QED
    BY <2>1, <2>2, <2>3
<1>4. CASE Tock \/ ShopUpdate \/ LockExpires \/ UNCHANGED vars
  BY <1>4 DEF Tock, ShopUpdate, LockExpires, vars, history, TouchInv
<1>5. QED
  BY <1>1, <1>2, <1>3, <1>4 DEF Next

\* A lock does not expire: every holder is at work, and none dies.
LEMMA LockStays ==
    ASSUME TypeInv, OneTick, [Next]_vars, Undisturbed'
    PROVE  ~LockExpires
BY UndisturbedBefore DEF OneTick, TypeInv, TypeOK, LockExpires, Ticking

LEMMA StepOneTick == TypeInv /\ OneTick /\ [Next]_vars => OneTick'
<1> SUFFICES ASSUME TypeInv, OneTick, [Next]_vars, Undisturbed', NEW j \in Instances
             PROVE  tick'[j].pc # "idle" <=> lock' = j
  BY DEF OneTick
<1>1. \A i \in Instances : tick[i].pc # "idle" <=> lock = i
  BY UndisturbedBefore DEF OneTick
<1>2. ASSUME NEW i \in Instances, TickStep(i) PROVE tick'[j].pc # "idle" <=> lock' = j
  <2>1. CASE Acquire(i)
    <3>1. TickIs(i, "find", now, <<>>, None) /\ lock = None /\ lock' = i
      BY <2>1, TickMoves DEF Acquire
    <3>2. QED
      BY <1>1, <3>1, EventsAssumption DEF TickIs
  <2>2. CASE Release(i)
    <3>1. TickIs(i, "idle", 0, <<>>, None) /\ tick[i].pc = "next" /\ lock' = IF lock = i THEN None ELSE lock
      BY <2>2, TickMoves DEF Release
    <3>2. lock = i /\ lock' = None /\ lock' # j
      BY <1>1, <3>1, EventsAssumption
    <3>3. CASE j = i
      BY <3>1, <3>2, <3>3 DEF TickIs
    <3>4. CASE j # i
      BY <1>1, <3>1, <3>2, <3>4 DEF TickIs
    <3>5. QED
      BY <3>3, <3>4
  <2>3. CASE Find(i) \/ NotStarted(i) \/ Mark(i) \/ Apply(i)
    <3>0. \E time, todo, current :
             TickIs(i, "next", time, todo, current) \/ TickIs(i, "apply", time, todo, current)
      <4>1. CASE Find(i)
        BY <4>1, TickMoves
      <4>2. CASE NotStarted(i) \/ Apply(i)
        BY <4>2, TickGoesOn
      <4>3. CASE Mark(i)
        BY <4>3, TickMoves
      <4>4. QED
        BY <2>3, <4>1, <4>2, <4>3
    <3>1. PICK pc, time, todo, current : TickIs(i, pc, time, todo, current) /\ pc # "idle"
      BY <3>0
    <3>2. tick[i].pc # "idle" /\ lock' = lock
      BY <2>3 DEF Find, NotStarted, Mark, Apply
    <3>3. QED
      BY <1>1, <3>1, <3>2 DEF TickIs
  <2>4. QED
    BY <1>2, <2>1, <2>2, <2>3 DEF TickStep
<1>3. ASSUME NEW a \in Calls, CallStep(a) PROVE tick'[j].pc # "idle" <=> lock' = j
  <2>1. tick' = tick /\ lock' = lock
    BY <1>3 DEF CallStep, Create, Save, Update, FindConflict, Write, Delete, ApplyCall, Remove
  <2>2. QED
    BY <1>1, <2>1
<1>4. CASE Tock \/ ShopUpdate \/ UNCHANGED vars
  BY <1>1, <1>4 DEF Tock, ShopUpdate, vars
<1>5. QED
  BY <1>2, <1>3, <1>4, UndisturbedBefore, LockStays DEF Next

Applying(e) == \E i \in Instances : tick[i].pc = "apply" /\ tick[i].current = e
Due(e) == IF event[e].status = "ON_GOING" THEN event[e].discount ELSE 0
Agrees(e, p) == (\A u \in shopUpdates : u[2] = Due(e)) /\ (shopUpdates = {} => discount[p] = Due(e))

\* A tick's row of an event, against the event.
Current(e, i) ==
    LET row == tick[i].todo[e] IN
    /\ Exists(e)
    /\ event[e].target = row.target /\ event[e].discount = row.discount /\ event[e].window = row.window
    /\ event[e].status = IF tick[i].current = e THEN DueStatus(row.window, tick[i].now) ELSE row.status

LetAlone(e) ==
    /\ reach[e] = IF Exists(e) THEN Covers[event[e].target] ELSE {}
    /\ \A i \in Instances : e \in DOMAIN tick[i].todo => Current(e, i)
    /\ Alone(e) /\ ~Applying(e) => \A p \in reach[e] : Agrees(e, p)

LetAloneInv == Undisturbed => \A e \in Events \ touched : LetAlone(e)

LEMMA InitLetAlone == Init => LetAloneInv
<1> SUFFICES ASSUME Init, NEW e \in Events PROVE LetAlone(e)
  BY DEF LetAloneInv
<1>1. \A i \in Instances : DOMAIN tick[i].todo = {}
  BY IdleTickType DEF Init
<1>2. reach[e] = IF Exists(e) THEN Covers[event[e].target] ELSE {}
  BY DEF Init
<1>3. Due(e) = 0
  <2>1. PICK old \in [Old -> {NewRow("IN_COMING", t, d, w) : t \in Targets, d \in Discounts, w \in Windows}] :
           event = [f \in Events |-> IF f \in Old THEN old[f] ELSE Absent]
    BY DEF Init
  <2>2. e \in Old => old[e].status = "IN_COMING"
    BY DEF NewRow
  <2>3. event[e].status # "ON_GOING"
    BY <2>1, <2>2, AbsentIsNoRow
  <2>4. QED
    BY <2>3 DEF Due
<1>4. reach[e] \subseteq Products /\ shopUpdates = {} /\ discount = [p \in Products |-> 0]
  BY InitTyped DEF TypeInv, TypeOK, Init
<1>5. QED
  BY <1>1, <1>2, <1>3, <1>4 DEF LetAlone, Agrees

\* Of an event let alone nothing is left to an older update of the shop.
LEMMA NotBehind ==
    ASSUME ReachInv, OriginInv, TouchInv, Undisturbed, NEW e \in Events \ touched, Alone(e),
           NEW p \in reach[e], p \in Products, shopUpdates # {}
    PROVE  Exists(e) /\ event[e].target = AllShop
<1>1. PICK f \in Events : Products \subseteq reach[f] /\ Backed(f, AllShop)
  BY DEF OriginInv
<1>2. f = e
  BY <1>1 DEF Alone
<1>3. QED
  BY <1>1, <1>2 DEF Backed, Altered, TouchInv

LEMMA TickLetsAlone ==
    ASSUME TypeInv, ReachInv, OriginInv, TouchInv, OneTick, Undisturbed, Undisturbed',
           NEW e \in Events \ touched, LetAlone(e), NEW i \in Instances, TickStep(i)
    PROVE  LetAlone(e)'
<1>0. TypeOK /\ TickShape(i) /\ ~overtaken'
  BY DEF TypeInv, Undisturbed
<1>1. reach' = reach
  BY DEF TickStep, Acquire, Find, NotStarted, Mark, Apply, Release, history
<1>2. \A j \in Instances : j # i => tick[j].pc = "idle" /\ DOMAIN tick[j].todo = {}
  <2>1. CASE Acquire(i)
    BY <2>1, EventsAssumption DEF OneTick, Acquire, TypeInv, TickShape
  <2>2. CASE ~Acquire(i)
    BY <2>2 DEF TickStep, Find, NotStarted, Mark, Apply, Release, OneTick, TypeInv, TickShape
  <2>3. QED
    BY <2>1, <2>2
<1>3. /\ Exists(e)' <=> Exists(e)
      /\ Exists(e) => /\ event'[e].target = event[e].target
                      /\ event'[e].discount = event[e].discount
                      /\ event'[e].window = event[e].window
  BY MarkKeeps
<1>4. reach'[e] = IF Exists(e)' THEN Covers[event'[e].target] ELSE {}
  BY <1>1, <1>3 DEF LetAlone
<1>5. reach[e] \subseteq Products /\ (Exists(e) => event[e].target \in Targets)
  BY <1>0 DEF TypeOK, Exists, Row
<1>6. Alone(e)' <=> Alone(e)
  BY <1>1 DEF Alone
<1>7. CASE Mark(i)
  <2>1. PICK f \in DOMAIN tick[i].todo :
           LET row == tick[i].todo[f]
               status == DueStatus(row.window, tick[i].now)
           IN /\ TickIs(i, "apply", tick[i].now, tick[i].todo, f)
              /\ event' = IF Exists(f) /\ row.status # status
                          THEN [event EXCEPT ![f].status = status] ELSE event
    BY <1>7, TickMoves
  <2>2. tick[i].current = None /\ e # None /\ f \in Events
    BY <1>0, <1>7, TodoRows, EventsAssumption DEF Mark, TickShape
  <2>3. ASSUME e \in DOMAIN tick[i].todo PROVE Current(e, i)'
    <3>1. Current(e, i) /\ tick[i].current # e
      BY <2>2, <2>3 DEF LetAlone
    <3>2. event'[e].status = IF f = e THEN DueStatus(tick[i].todo[e].window, tick[i].now)
                                      ELSE tick[i].todo[e].status
      <4>1. CASE f = e
        <5>1. event[e] \in Row /\ tick[i].todo[e].status = event[e].status /\ Exists(e)
          BY <1>0, <3>1 DEF Current, TypeOK, Exists
        <5>2. QED
          BY <1>0, <2>1, <4>1, <5>1 DEF TypeOK, Row
      <4>2. CASE f # e
        BY <1>0, <2>1, <3>1, <4>2 DEF Current, TypeOK
      <4>3. QED
        BY <4>1, <4>2
    <3>3. QED
      BY <1>3, <2>1, <3>1, <3>2 DEF Current, TickIs
  <2>4. \A j \in Instances : e \in DOMAIN tick'[j].todo => Current(e, j)'
    BY <1>2, <2>1, <2>3 DEF TickIs
  <2>5. CASE f = e
    <3>1. Applying(e)'
      BY <2>1, <2>5 DEF TickIs, Applying
    <3>2. QED
      BY <1>4, <2>4, <3>1 DEF LetAlone
  <2>6. CASE f # e
    <3>1. event'[e] = event[e] /\ UNCHANGED <<discount, shopUpdates>>
      BY <1>0, <1>7, <2>1, <2>6 DEF Mark, TypeOK
    <3>2. ~Applying(e)
      BY <1>2, <1>7 DEF Mark, Applying
    <3>3. \A p : Agrees(e, p) => Agrees(e, p)'
      BY <3>1 DEF Agrees, Due
    <3>4. QED
      BY <1>1, <1>4, <1>6, <2>4, <3>2, <3>3 DEF LetAlone
  <2>7. QED
    BY <2>5, <2>6
<1>8. CASE Apply(i)
  <2>1. PICK f \in Events : f = tick[i].current /\ f \in DOMAIN tick[i].todo /\ tick[i].todo[f] \in Row
    BY <1>0, <1>8, TodoRows DEF Apply, TickShape
  <2>2. event' = event /\ tick[i].pc = "apply"
    BY <1>8 DEF Apply
  <2>3. PICK todo : /\ TickIs(i, "next", tick[i].now, todo, None)
                    /\ DOMAIN todo = DOMAIN tick[i].todo \ {f}
                    /\ \A g \in DOMAIN todo : todo[g] = tick[i].todo[g]
    <3>1. TickIs(i, "next", tick[i].now, Rest(i, f), None)
      BY <1>8, <2>1, TickMoves
    <3>2. QED
      BY <1>0, <3>1, TodoRows
  <2>4. \A j \in Instances : e \in DOMAIN tick'[j].todo => Current(e, j)'
    <3>1. ASSUME e \in DOMAIN todo PROVE Current(e, i)'
      BY <2>1, <2>2, <2>3, <3>1, EventsAssumption DEF LetAlone, Current, TickIs, Exists
    <3>2. QED
      BY <1>2, <2>3, <3>1 DEF TickIs
  <2>5. PICK target \in Targets, d \in Discounts \cup {0} :
           /\ target = tick[i].todo[f].target /\ d = DueDiscount(tick[i].todo[f], tick[i].now)
           /\ SetDiscount(i, target, d)
    BY <1>8, <2>1 DEF Apply, Row, DueDiscount
  <2>6. ASSUME Alone(e), NEW p \in reach[e], f = e PROVE Agrees(e, p)'
    <3>1. Current(e, i)
      BY <2>1, <2>6 DEF LetAlone
    <3>2. d = Due(e) /\ target = event[e].target /\ Exists(e) /\ p \in Covers[target] /\ p \in Products
      BY <1>5, <2>1, <2>5, <2>6, <3>1 DEF Current, Due, DueDiscount, DueStatus, LetAlone
    <3>3. Due(e)' = Due(e)
      BY <2>2 DEF Due
    <3>4. CASE target = AllShop
      <4>1. shopUpdates' = {<<i, d>>}
        BY <1>0, <2>5, <3>4, SetDiscountWrites
      <4>2. shopUpdates' # {} /\ \A u \in shopUpdates' : u[2] = d
        BY <4>1
      <4>3. QED
        BY <3>2, <3>3, <4>2 DEF Agrees
    <3>5. CASE target # AllShop
      <4>1. shopUpdates = {}
        BY <2>6, <3>2, <3>5, NotBehind
      <4>2. discount'[p] = d /\ shopUpdates' = {}
        BY <1>0, <2>5, <3>2, <3>5, <4>1, SetDiscountWrites
      <4>3. QED
        BY <3>2, <3>3, <4>2 DEF Agrees
    <3>6. QED
      BY <3>4, <3>5
  <2>7. ASSUME Alone(e), NEW p \in reach[e], f # e PROVE Agrees(e, p)'
    <3>1. ~Applying(e)
      BY <1>2, <2>1, <2>7 DEF Applying
    <3>2. Agrees(e, p) /\ p \in Products
      BY <1>5, <2>7, <3>1 DEF LetAlone
    <3>3. Covers[target] \subseteq reach[f]
      BY <2>1, <2>5 DEF ReachInv
    <3>4. p \notin Covers[target]
      BY <2>7, <3>3 DEF Alone
    <3>5. discount'[p] = discount[p] /\ shopUpdates' = shopUpdates
      BY <1>0, <2>5, <3>2, <3>4, SetDiscountWrites
    <3>6. QED
      BY <2>2, <3>2, <3>5 DEF Agrees, Due
  <2>8. QED
    BY <1>1, <1>4, <1>6, <2>4, <2>6, <2>7 DEF LetAlone
<1>9. CASE ~Mark(i) /\ ~Apply(i)
  <2>1. UNCHANGED <<event, discount, shopUpdates>>
    BY <1>9 DEF TickStep, Acquire, Find, NotStarted, Release
  <2>2. \A p : Agrees(e, p) => Agrees(e, p)'
    BY <2>1 DEF Agrees, Due
  <2>3. ~Applying(e)
    BY <1>2, <1>9 DEF TickStep, Acquire, Find, NotStarted, Release, Applying
  <2>4. ASSUME NEW pc, NEW time, NEW todo, TickIs(i, pc, time, todo, None),
               e \in DOMAIN todo => Exists(e) /\ event[e] = todo[e]
        PROVE  \A j \in Instances : e \in DOMAIN tick'[j].todo => Current(e, j)'
    <3>1. ASSUME e \in DOMAIN todo PROVE Current(e, i)'
      BY <1>3, <2>1, <2>4, <3>1, EventsAssumption DEF Current, TickIs
    <3>2. QED
      BY <1>2, <2>4, <3>1 DEF TickIs
  <2>5. CASE Acquire(i) \/ Release(i)
    <3>1. \A j \in Instances : e \in DOMAIN tick'[j].todo => Current(e, j)'
      BY <2>4, <2>5, TickMoves, IdleTickType
    <3>2. QED
      BY <1>1, <1>4, <1>6, <2>2, <2>3, <3>1 DEF LetAlone
  <2>6. CASE Find(i)
    <3>1. PICK todo : todo = [f \in Active |-> event[f]] /\ TickIs(i, "next", tick[i].now, todo, None)
      BY <2>6, TickMoves
    <3>2. e \in DOMAIN todo => Exists(e) /\ event[e] = todo[e]
      BY <1>0, <3>1, ActiveRows
    <3>3. QED
      BY <1>1, <1>4, <1>6, <2>2, <2>3, <2>4, <3>1, <3>2 DEF LetAlone
  <2>7. CASE NotStarted(i)
    <3>1. PICK f, todo :
             /\ TickIs(i, "next", tick[i].now, todo, None)
             /\ DOMAIN todo = DOMAIN tick[i].todo \ {f}
             /\ \A g \in DOMAIN todo : todo[g] = tick[i].todo[g]
      BY <2>7, TickGoesOn
    <3>2. tick[i].current # e
      BY <1>0, <2>7, EventsAssumption DEF NotStarted, TickShape
    <3>3. ASSUME e \in DOMAIN todo PROVE Current(e, i)'
      BY <1>3, <2>1, <3>1, <3>2, <3>3, EventsAssumption DEF LetAlone, Current, TickIs
    <3>4. \A j \in Instances : e \in DOMAIN tick'[j].todo => Current(e, j)'
      BY <1>2, <3>1, <3>3 DEF TickIs
    <3>5. QED
      BY <1>1, <1>4, <1>6, <2>2, <2>3, <3>4 DEF LetAlone
  <2>8. QED
    BY <1>9, <2>5, <2>6, <2>7 DEF TickStep
<1>10. QED
  BY <1>7, <1>8, <1>9

LEMMA CallLetsAlone ==
    ASSUME TypeInv, ReachInv, TouchInv, [Next]_vars, Undisturbed,
           NEW e \in Events \ touched', e \notin touched, LetAlone(e), NEW a \in Calls, CallStep(a)
    PROVE  LetAlone(e)'
<1>0. TypeOK /\ CallShape(a)
  BY DEF TypeInv
<1>1. tick' = tick /\ (Applying(e)' <=> Applying(e))
  BY DEF CallStep, Create, Save, Update, FindConflict, Write, Delete, ApplyCall, Remove, history, Applying
<1>2. Alone(e)' => Alone(e)
  BY StepReach DEF Alone
<1>3. reach[e] \subseteq Products
  BY <1>0 DEF TypeOK
<1>4. call[a].op \in {"update", "delete"} => call[a].id # e
  BY DEF TouchInv
<1>5. CASE Save(a) /\ call[a].id = e
  <2>1. /\ ~Exists(e) /\ reach[e] = {} /\ call[a].data \in Row /\ call[a].data.status # "ON_GOING"
        /\ UNCHANGED <<discount, shopUpdates, touched>>
    BY <1>0, <1>5 DEF Save, ReachInv, Fresh, TouchInv, CallShape
  <2>2. event'[e] = call[a].data /\ reach'[e] = Covers[call[a].data.target] /\ event'[e] # Absent
    BY <1>0, <1>5, <2>1, AbsentIsNoRow DEF Save, TypeOK
  <2>3. \A i \in Instances : e \notin DOMAIN tick[i].todo
    BY <2>1 DEF LetAlone, Current
  <2>4. ASSUME Alone(e)', NEW p \in reach'[e] PROVE Agrees(e, p)'
    <3>1. p \in Products
      BY <2>1, <2>2, EventsAssumption DEF Row
    <3>2. \A f \in Events : p \notin reach[f]
      BY <2>1, <2>4, StepReach DEF Alone
    <3>3. discount[p] = 0 /\ shopUpdates = {}
      BY <3>1, <3>2 DEF ReachInv
    <3>4. QED
      BY <2>1, <2>2, <3>3 DEF Agrees, Due
  <2>5. QED
    BY <1>1, <2>2, <2>3, <2>4 DEF LetAlone, Exists
<1>6. CASE ~(Save(a) /\ call[a].id = e)
  <2>1. event'[e] = event[e] /\ reach'[e] = reach[e]
    <3>1. CASE Save(a) \/ Write(a) \/ Remove(a)
      <4>1. call[a].id # e
        BY <1>0, <1>4, <1>6, <3>1 DEF Write, Remove, CallShape
      <4>2. QED
        BY <1>0, <3>1, <4>1 DEF Save, Write, Remove, history, TypeOK
    <3>2. CASE Create(a) \/ Update(a) \/ FindConflict(a) \/ Delete(a) \/ ApplyCall(a)
      BY <3>2 DEF Create, Update, FindConflict, Delete, ApplyCall, history
    <3>3. QED
      BY <3>1, <3>2 DEF CallStep
  <2>2. ASSUME Alone(e), NEW p \in reach[e] PROVE discount'[p] = discount[p] /\ shopUpdates' = shopUpdates
    <3>1. CASE ApplyCall(a)
      <4>1. PICK f \in Events :
               f = call[a].id /\ call[a].op \in {"update", "delete"} /\ call[a].seen \in Row
        BY <1>0, <3>1 DEF ApplyCall, CallShape
      <4>2. PICK target \in Targets :
               target = call[a].seen.target /\ \E d : SetDiscount(a, target, d)
        BY <3>1, <4>1 DEF ApplyCall, Row
      <4>3. Covers[target] \subseteq reach[f] /\ f # e
        BY <1>4, <4>1, <4>2, AbsentIsNoRow DEF ReachInv
      <4>4. p \notin Covers[target] /\ p \in Products
        BY <1>3, <2>2, <4>3 DEF Alone
      <4>5. QED
        BY <1>0, <4>2, <4>4, SetDiscountWrites
    <3>2. CASE ~ApplyCall(a)
      BY <3>2 DEF CallStep, Create, Save, Update, FindConflict, Write, Delete, Remove, history
    <3>3. QED
      BY <3>1, <3>2
  <2>3. ASSUME Alone(e), NEW p \in reach[e], Agrees(e, p) PROVE Agrees(e, p)'
    BY <2>1, <2>2, <2>3 DEF Agrees, Due
  <2>4. QED
    BY <1>1, <1>2, <2>1, <2>3 DEF LetAlone, Current, Exists
<1>7. QED
  BY <1>5, <1>6

LEMMA StepLetAlone ==
    TypeInv /\ ReachInv /\ OriginInv /\ TouchInv /\ OneTick /\ LetAloneInv /\ [Next]_vars => LetAloneInv'
<1> SUFFICES ASSUME TypeInv, ReachInv, OriginInv, TouchInv, OneTick, LetAloneInv, [Next]_vars, Undisturbed',
                    NEW e \in Events \ touched'
             PROVE  LetAlone(e)'
  BY DEF LetAloneInv
<1>0. TypeOK /\ Undisturbed /\ e \notin touched /\ LetAlone(e)
  BY UndisturbedBefore, StepTouch DEF TypeInv, LetAloneInv
<1>1. CASE ShopUpdate
  <2>1. PICK u \in shopUpdates : discount' = Discounted(AllShop, u[2]) /\ shopUpdates' = shopUpdates \ {u}
    BY <1>1 DEF ShopUpdate
  <2>2. UNCHANGED <<tick, event, reach>> /\ \A p \in Products : discount'[p] = u[2]
    BY <1>1, <2>1, EventsAssumption DEF ShopUpdate, Discounted, history
  <2>3. ASSUME NEW p \in Products, Agrees(e, p) PROVE Agrees(e, p)'
    BY <2>1, <2>2, <2>3 DEF Agrees, Due
  <2>4. reach[e] \subseteq Products
    BY <1>0 DEF TypeOK
  <2>5. QED
    BY <1>0, <2>2, <2>3, <2>4 DEF LetAlone, Current, Exists, Alone, Applying
<1>2. CASE Tock \/ UNCHANGED vars
  <2>1. UNCHANGED <<tick, event, reach, discount, shopUpdates>>
    BY <1>2 DEF Tock, vars, history
  <2>2. QED
    BY <1>0, <2>1 DEF LetAlone, Current, Exists, Alone, Applying, Agrees, Due
<1>3. QED
  BY <1>0, <1>1, <1>2, UndisturbedBefore, LockStays, TickLetsAlone, CallLetsAlone DEF Next

(* Whatever the ticks of any number of processes, the admin's calls and the *)
(* updates of the whole shop do in between: between two ticks the products  *)
(* of an event the admin let alone have its discount if it is running, and  *)
(* none if it is not.                                                       *)
THEOREM EventsStatusAgrees == Spec => []StatusAgrees
<1>1. TypeInv /\ LetAloneInv => StatusAgrees
  <2> SUFFICES ASSUME TypeInv, LetAloneInv, Quiet, Undisturbed, NEW e \in Events \ touched, Exists(e), Alone(e),
                      NEW p \in reach[e]
               PROVE  discount[p] = IF event[e].status = "ON_GOING" THEN event[e].discount ELSE 0
    BY DEF StatusAgrees
  <2>1. ~Applying(e) /\ shopUpdates = {}
    BY DEF Quiet, Ticking, Applying
  <2>2. QED
    BY <2>1 DEF LetAloneInv, LetAlone, Agrees, Due
<1>2. QED
  BY <1>1, InitTyped, StepTyped, InitReach, StepReach, InitOrigin, StepOrigin, InitTouch, StepTouch, StepOneTick,
     InitLetAlone, StepLetAlone, PTL DEF Spec
=============================================================================
