--------------------------- MODULE DiscountEvents ---------------------------
(***************************************************************************)
(* Discount events: the minute tick of EventsCronService under its Redis   *)
(* lock, and the admin's createEventSchedule, updateEventSchedule and      *)
(* deleteEventSchedule (src/modules/events/event.service.ts), with the     *)
(* discounts they write into the products.                                 *)
(*                                                                         *)
(* Each action is one query, or the taking of the lock.  An event's type   *)
(* and pid are one target, which covers products.  The discount of the     *)
(* whole shop is not awaited: it is an update under way (shopUpdates) that *)
(* lands at some later time.  The tick goes through its events in any      *)
(* order, as the query has none.                                           *)
(*                                                                         *)
(* Left out: the discounts an admin sets by hand, a target without a pid   *)
(* (which makes the tick fail), and calls refused at their first query.    *)
(***************************************************************************)
EXTENDS Integers

CONSTANTS
    Events,
    Old,            \* those that exist when the model begins
    Products,
    Instances,      \* server processes, each with the cron job
    Calls,          \* the admin's calls
    Targets,        \* type and pid of an event
    AllShop,        \* the one with type ALL_SHOP
    Covers,         \* the products of each target
    NameOf,         \* the name an event is created with
    Discounts,      \* what an event may take off
    Windows,        \* startTime and endTime
    NewStatuses,    \* dto.status of a creation or an update
    MaxTime,        \* bound: the clock stops there
    MaxKills,       \* bound: processes or calls that die, locks that expire under a tick
    None

Statuses == {"IN_COMING", "ON_GOING", "COMPLETED", "CANCELLED"}
Window == [start : Nat, end : Nat]

ASSUME EventsAssumption ==
    /\ Covers \in [Targets -> SUBSET Products]
    /\ AllShop \in Targets /\ Covers[AllShop] = Products
    /\ Old \subseteq Events
    /\ Discounts \subseteq Nat
    /\ Windows \subseteq Window
    /\ NewStatuses \subseteq Statuses
    /\ MaxTime \in Nat /\ MaxKills \in Nat
    /\ Instances \cap Calls = {}
    /\ None \notin Instances \cup Calls \cup Events

VARIABLES
    now,
    event,          \* discount-events: Absent, or the row
    discount,       \* products.discount
    lock,           \* the instance whose lock Redis holds, or None
    tick,           \* the cron job of each instance
    call,           \* the admin's calls
    shopUpdates,    \* updates of the whole shop under way: who began them, to what
    \* history
    reach,          \* products each event could ever write to
    touched,        \* events created as running, updated, or being deleted
    raced,          \* deletions that a tick ran beside
    kills,
    overtaken       \* two updates of the whole shop were under way at once

history == <<reach, touched, raced, kills, overtaken>>
vars == <<now, event, discount, lock, tick, call, shopUpdates, history>>

Row == [status : Statuses, target : Targets, discount : Discounts, window : Windows]
Absent == [status |-> "none"]
Exists(e) == event[e] # Absent
Active == {e \in Events : event[e].status \in {"IN_COMING", "ON_GOING"}}

Started(w, t) == t >= w.start
Over(w, t) == t > w.end
Overlap(v, w) == v.start < w.end /\ v.end > w.start
Same(e, f) == NameOf[e] = NameOf[f]

NewRow(s, target, d, w) == [status |-> s, target |-> target, discount |-> d, window |-> w]

IdleTick == [pc |-> "idle", now |-> 0, todo |-> <<>>, current |-> None]
NewCall == [pc |-> "new", op |-> "none", id |-> None, seen |-> Absent, data |-> Absent]

Ticking == {i \in Instances : tick[i].pc # "idle"}
Quiet == Ticking = {} /\ shopUpdates = {}

Init ==
    /\ now = 0
    /\ \E old \in [Old -> {NewRow("IN_COMING", t, d, w) : t \in Targets, d \in Discounts, w \in Windows}] :
          /\ \A e, f \in Old : e # f /\ Same(e, f) /\ old[e].target = old[f].target
                                => ~Overlap(old[e].window, old[f].window)
          /\ event = [e \in Events |-> IF e \in Old THEN old[e] ELSE Absent]
    /\ discount = [p \in Products |-> 0]
    /\ lock = None
    /\ tick = [i \in Instances |-> IdleTick]
    /\ call = [a \in Calls |-> NewCall]
    /\ shopUpdates = {}
    /\ reach = [e \in Events |-> IF Exists(e) THEN Covers[event[e].target] ELSE {}]
    /\ touched = {}
    /\ raced = {}
    /\ kills = 0
    /\ overtaken = FALSE
-----------------------------------------------------------------------------
(* setDiscountEvent *)

Discounted(target, d) == [p \in Products |-> IF p \in Covers[target] THEN d ELSE discount[p]]

\* An update that the same worker has under way to the same discount is not
\* begun a second time.
SetDiscount(worker, target, d) ==
    IF target = AllShop
    THEN /\ <<worker, d>> \notin shopUpdates
         /\ shopUpdates' = shopUpdates \cup {<<worker, d>>}
         /\ overtaken' = (overtaken \/ shopUpdates # {})
         /\ UNCHANGED discount
    ELSE /\ discount' = Discounted(target, d)
         /\ UNCHANGED <<shopUpdates, overtaken>>

ShopUpdate ==
    /\ \E u \in shopUpdates :
          /\ discount' = Discounted(AllShop, u[2])
          /\ shopUpdates' = shopUpdates \ {u}
    /\ UNCHANGED <<now, event, lock, tick, call, history>>
-----------------------------------------------------------------------------
(* EventsCronService.getEventSchedule *)

\* The time is read once, when the lock is there.
Acquire(i) ==
    /\ tick[i].pc = "idle"
    /\ lock = None
    /\ lock' = i
    /\ tick' = [tick EXCEPT ![i] = [IdleTick EXCEPT !.pc = "find", !.now = now]]
    /\ raced' = raced \cup {a \in Calls : call[a].op = "delete" /\ call[a].pc # "done"}
    /\ UNCHANGED <<now, event, discount, call, shopUpdates, reach, touched, kills, overtaken>>

Find(i) ==
    /\ tick[i].pc = "find"
    /\ tick' = [tick EXCEPT ![i].pc = "next", ![i].todo = [e \in Active |-> event[e]]]
    /\ UNCHANGED <<now, event, discount, lock, call, shopUpdates, history>>

\* What is still to be looked at, without e.
Rest(i, e) == [f \in DOMAIN tick[i].todo \ {e} |-> tick[i].todo[f]]
Continue(i, e) == [tick[i] EXCEPT !.pc = "next", !.current = None, !.todo = Rest(i, e)]

NotStarted(i) ==
    /\ tick[i].pc = "next"
    /\ \E e \in DOMAIN tick[i].todo :
          /\ ~Started(tick[i].todo[e].window, tick[i].now)
          /\ tick' = [tick EXCEPT ![i] = Continue(i, e)]
    /\ UNCHANGED <<now, event, discount, lock, call, shopUpdates, history>>

\* Mutant: a status that the enum does not have.
DueStatus_Expired(w, t) == IF Over(w, t) THEN "EXPIRED" ELSE "ON_GOING"

\* The status that the time calls for.
DueStatus(w, t) == IF Over(w, t) THEN "COMPLETED" ELSE "ON_GOING"

\* An event that ends is marked before its discount is taken back.
Mark(i) ==
    /\ tick[i].pc = "next"
    /\ \E e \in DOMAIN tick[i].todo :
          LET row == tick[i].todo[e]
              status == DueStatus(row.window, tick[i].now)
          IN /\ Started(row.window, tick[i].now)
             /\ event' = IF Exists(e) /\ row.status # status
                         THEN [event EXCEPT ![e].status = status] ELSE event
             /\ tick' = [tick EXCEPT ![i].pc = "apply", ![i].current = e]
    /\ UNCHANGED <<now, discount, lock, call, shopUpdates, history>>

\* Mutant: the discount of an event that is over is left as it was read.
DueDiscount_Kept(row, t) == row.discount

DueDiscount(row, t) == IF Over(row.window, t) THEN 0 ELSE row.discount

Apply(i) ==
    /\ tick[i].pc = "apply"
    /\ LET e == tick[i].current
           row == tick[i].todo[e]
       IN /\ SetDiscount(i, row.target, DueDiscount(row, tick[i].now))
          /\ tick' = [tick EXCEPT ![i] = Continue(i, e)]
    /\ UNCHANGED <<now, event, lock, call, reach, touched, raced, kills>>

\* A lock that has passed to another is not released.
Release(i) ==
    /\ tick[i].pc = "next"
    /\ DOMAIN tick[i].todo = {}
    /\ tick' = [tick EXCEPT ![i] = IdleTick]
    /\ lock' = IF lock = i THEN None ELSE lock
    /\ UNCHANGED <<now, event, discount, call, shopUpdates, history>>

\* Mutant: the lock is extended for ever, so a process that dies keeps it.
LockExpires_Extended == lock # None /\ UNCHANGED vars

\* Five minutes are over; of a tick that is still at work, or that has died.
LockExpires ==
    /\ lock # None
    /\ lock' = None
    /\ IF lock \in Ticking THEN kills < MaxKills /\ kills' = kills + 1 ELSE UNCHANGED kills
    /\ UNCHANGED <<now, event, discount, tick, call, shopUpdates, reach, touched, raced, overtaken>>

TickStep(i) == Acquire(i) \/ Find(i) \/ NotStarted(i) \/ Mark(i) \/ Apply(i) \/ Release(i)
-----------------------------------------------------------------------------
(* The admin's calls. *)

Begin(a, fields) ==
    /\ call[a].pc = "new"
    /\ call' = [call EXCEPT ![a] = fields]
    /\ raced' = IF fields.op = "delete" /\ Ticking # {} THEN raced \cup {a} ELSE raced
Goto(a, pc) == call' = [call EXCEPT ![a].pc = pc]
\* What was read is kept for the properties only of a deletion.
Finish(a) == call' = [call EXCEPT ![a].pc = "done", ![a].data = Absent,
                                  ![a].seen = IF call[a].op = "delete" THEN @ ELSE Absent]

\* Refused when an event of that name and target overlaps.
Create(a) ==
    /\ \E e \in Events, target \in Targets, d \in Discounts, w \in Windows, s \in NewStatuses :
          /\ ~Exists(e) /\ reach[e] = {} /\ \A b \in Calls : call[b].id # e   \* a fresh id
          /\ \A f \in Events : Exists(f) /\ Same(e, f) /\ event[f].target = target
                                  => ~Overlap(event[f].window, w)
          /\ Begin(a, [NewCall EXCEPT !.pc = "save", !.op = "create", !.id = e,
                       !.data = NewRow(s, target, d, w)])
          /\ touched' = IF s = "ON_GOING" THEN touched \cup {e} ELSE touched
    /\ UNCHANGED <<now, event, discount, lock, tick, shopUpdates, reach, kills, overtaken>>

Save(a) ==
    /\ call[a].pc = "save"
    /\ event' = [event EXCEPT ![call[a].id] = call[a].data]
    /\ reach' = [reach EXCEPT ![call[a].id] = Covers[call[a].data.target]]
    /\ Finish(a)
    /\ UNCHANGED <<now, discount, lock, tick, shopUpdates, touched, raced, kills, overtaken>>

\* Refused when another event of that target overlaps.
Update(a) ==
    /\ \E e \in Events, target \in Targets, d \in Discounts, w \in Windows, s \in NewStatuses :
          /\ Exists(e)
          /\ touched' = touched \cup {e}
          /\ Begin(a, [NewCall EXCEPT !.pc = "conflict", !.op = "update", !.id = e, !.seen = event[e],
                       !.data = NewRow(s, target, d, w)])
    /\ UNCHANGED <<now, event, discount, lock, tick, shopUpdates, reach, kills, overtaken>>

Conflict(a, f) ==
    /\ f # call[a].id /\ Exists(f)
    /\ event[f].target = call[a].data.target
    /\ Overlap(event[f].window, call[a].data.window)

FindConflict(a) ==
    /\ call[a].pc = "conflict"
    /\ IF \E f \in Events : Conflict(a, f) THEN Finish(a) ELSE Goto(a, "write")
    /\ UNCHANGED <<now, event, discount, lock, tick, shopUpdates, history>>

Write(a) ==
    /\ call[a].pc = "write"
    /\ event' = IF Exists(call[a].id) THEN [event EXCEPT ![call[a].id] = call[a].data] ELSE event
    /\ reach' = [reach EXCEPT ![call[a].id] = @ \cup Covers[call[a].data.target]]
    /\ Goto(a, "apply")
    /\ UNCHANGED <<now, discount, lock, tick, shopUpdates, touched, raced, kills, overtaken>>

\* Only an event that is going on has a discount to take back.
Delete(a) ==
    /\ \E e \in Events :
          /\ Exists(e)
          /\ touched' = touched \cup {e}
          /\ Begin(a, [NewCall EXCEPT !.pc = IF event[e].status = "ON_GOING" THEN "apply" ELSE "remove",
                                      !.op = "delete", !.id = e, !.seen = event[e]])
    /\ UNCHANGED <<now, event, discount, lock, tick, shopUpdates, reach, kills, overtaken>>

\* Mutant: the discount of the event goes on.
CallDiscount_Kept(a) == IF call[a].op = "update" THEN call[a].data.discount ELSE call[a].seen.discount

CallDiscount(a) == IF call[a].op = "update" THEN call[a].data.discount ELSE 0

\* To the target the event had when it was read, whatever its status.
ApplyCall(a) ==
    /\ call[a].pc = "apply"
    /\ SetDiscount(a, call[a].seen.target, CallDiscount(a))
    /\ IF call[a].op = "delete" THEN Goto(a, "remove") ELSE Finish(a)
    /\ UNCHANGED <<now, event, lock, tick, reach, touched, raced, kills>>

Remove(a) ==
    /\ call[a].pc = "remove"
    /\ event' = [event EXCEPT ![call[a].id] = Absent]
    /\ Finish(a)
    /\ UNCHANGED <<now, discount, lock, tick, shopUpdates, history>>

CallStep(a) ==
    \/ Create(a) \/ Save(a) \/ Update(a) \/ FindConflict(a) \/ Write(a)
    \/ Delete(a) \/ ApplyCall(a) \/ Remove(a)
-----------------------------------------------------------------------------
Tock ==
    /\ now < MaxTime
    /\ now' = now + 1
    /\ UNCHANGED <<event, discount, lock, tick, call, shopUpdates, history>>

\* A process dies in its tick, or with a call it serves; the lock stays.
Kill(worker) ==
    /\ kills < MaxKills
    /\ kills' = kills + 1
    /\ shopUpdates' = {u \in shopUpdates : u[1] # worker}
    /\ IF worker \in Instances
       THEN /\ tick[worker].pc # "idle"
            /\ tick' = [tick EXCEPT ![worker] = IdleTick]
            /\ UNCHANGED call
       ELSE /\ call[worker].pc \notin {"new", "done"}
            /\ call' = [call EXCEPT ![worker] = [NewCall EXCEPT !.pc = "done"]]
            /\ UNCHANGED tick
    /\ UNCHANGED <<now, event, discount, lock, reach, touched, raced, overtaken>>

Next ==
    \/ Tock
    \/ ShopUpdate
    \/ \E i \in Instances : TickStep(i)
    \/ LockExpires
    \/ \E a \in Calls : CallStep(a)
    \/ \E worker \in Instances \cup Calls : Kill(worker)

Spec == Init /\ [][Next]_vars

\* The cron job comes every minute, a lock expires, queries are answered.
CronStep == ShopUpdate \/ LockExpires \/ \E i \in Instances : TickStep(i)
FairSpec == Spec /\ WF_vars(CronStep)
-----------------------------------------------------------------------------
Tick == [pc : {"idle", "find", "next", "apply"}, now : 0..MaxTime,
         todo : UNION {[S -> Row] : S \in SUBSET Events}, current : Events \cup {None}]
Call == [pc : {"new", "save", "conflict", "write", "apply", "remove", "done"},
         op : {"none", "create", "update", "delete"}, id : Events \cup {None},
         seen : Row \cup {Absent}, data : Row \cup {Absent}]

TypeOK ==
    /\ now \in 0..MaxTime
    /\ event \in [Events -> Row \cup {Absent}]
    /\ discount \in [Products -> Discounts \cup {0}]
    /\ lock \in Instances \cup {None}
    /\ tick \in [Instances -> Tick]
    /\ call \in [Calls -> Call]
    /\ shopUpdates \subseteq (Instances \cup Calls) \X (Discounts \cup {0})
    /\ reach \in [Events -> SUBSET Products]
    /\ touched \subseteq Events
    /\ raced \subseteq Calls
    /\ kills \in 0..MaxKills
    /\ overtaken \in BOOLEAN

Undisturbed == kills = 0 /\ ~overtaken
Alone(e) == \A f \in Events \ {e} : reach[e] \cap reach[f] = {}

(* Between two ticks the products agree with the events: those of a        *)
(* running event have its discount, those of an event that has not begun   *)
(* or is over have none.  This is of events the admin let alone, which     *)
(* share no product with another, and of a history without kills.          *)
StatusAgrees ==
    Quiet /\ Undisturbed =>
        \A e \in Events \ touched : Exists(e) /\ Alone(e) =>
            \A p \in reach[e] :
                discount[p] = IF event[e].status = "ON_GOING" THEN event[e].discount ELSE 0

Reset(a) ==
    \A p \in Covers[call[a].seen.target] :
        (\A f \in Events : p \in reach[f] => f = call[a].id) => discount[p] = 0

DeletedRunning == {a \in Calls : call[a].op = "delete" /\ call[a].pc = "done" /\ call[a].seen.status = "ON_GOING"}

(* The deletion of a running event leaves its products without discount,   *)
(* if no tick, and no other call for the event, ran beside it.             *)
DeletionResets ==
    Quiet /\ Undisturbed =>
        \A a \in DeletedRunning \ raced :
            (\A b \in Calls \ {a} : call[b].id = call[a].id => call[b].op = "create") => Reset(a)

(* An event whose time is over does not stay open: some tick completes it, *)
(* or the admin changes or deletes it, also when processes die holding the *)
(* lock.                                                                   *)
EventEnds ==
    \A e \in Events :
        (e \in Active /\ Over(event[e].window, now)) ~> ~(e \in Active /\ Over(event[e].window, now))
-----------------------------------------------------------------------------
(* "Nếu sự kiện đang diễn ra, reset giảm giá" (line 113): the deletion of a *)
(* running event takes its discount back.                                  *)
DeletionAlwaysResets ==
    Quiet /\ Undisturbed =>
        \A a \in DeletedRunning :
            (\A b \in Calls \ {a} : call[b].id = call[a].id => call[b].op = "create") => Reset(a)
=============================================================================
