------------------------------ MODULE Addresses ------------------------------
(***************************************************************************)
(* The users' addresses and which of them is the default                   *)
(* (src/modules/users/user-address.service.ts).  Each action is one query; *)
(* the select and the update of a save are one step.                       *)
(*                                                                         *)
(* Neither update nor delete nor setDefault asks whose address it is, and  *)
(* setDefault does not ask whether there is one of that id: both of its    *)
(* queries also reach rows that are soft-deleted.                          *)
(***************************************************************************)
EXTENDS Integers, FiniteSets

CONSTANTS
    Users,
    Addresses,
    OwnerOf,
    AddressWorkers,  \* server-side calls, one after the other
    MaxCalls,        \* bound: how many calls are made
    NoOne

ASSUME AddressesAssumption ==
    /\ OwnerOf \in [Addresses -> Users]
    /\ MaxCalls \in Nat
    /\ NoOne \notin Users \cup Addresses \cup AddressWorkers

VARIABLES
    address,
    task,           \* what each worker is at
    made,           \* calls made so far
    \* history
    addressLone,    \* the worker at work, if no other was meanwhile
    addressSettled  \* users who have set their default alone, with no other call for it since

addressesVars == <<address, task, made, addressLone, addressSettled>>

AddressRow == [there : BOOLEAN, deleted : BOOLEAN, isDefault : BOOLEAN]
NoAddress == [there |-> FALSE, deleted |-> FALSE, isDefault |-> FALSE]
RestingTask == [pc |-> "idle", user |-> NoOne, id |-> NoOne, entity |-> NoAddress]

AtWork == {w \in AddressWorkers : task[w].pc # "idle"}
Mine(u) == {a \in Addresses : OwnerOf[a] = u /\ address[a].there}
ShownTo(u) == {a \in Mine(u) : ~address[a].deleted}
Default(u) == {a \in ShownTo(u) : address[a].isDefault}

AddressesInit ==
    /\ address = [a \in Addresses |-> NoAddress]
    /\ task = [w \in AddressWorkers |-> RestingTask]
    /\ made = 0
    /\ addressLone = NoOne
    /\ addressSettled = {}

TaskBegins(w) ==
    /\ task[w].pc = "idle"
    /\ made < MaxCalls /\ made' = made + 1
    /\ addressLone' = IF AtWork = {} THEN w ELSE NoOne

TaskEnds(w) == task' = [task EXCEPT ![w] = RestingTask]
-----------------------------------------------------------------------------
\* isDefault may be in the body, or left out.
CreateAddress(w) ==
    \E a \in Addresses, isDefault \in BOOLEAN :
        /\ ~address[a].there
        /\ TaskBegins(w)
        /\ address' = [address EXCEPT ![a] = [there |-> TRUE, deleted |-> FALSE, isDefault |-> isDefault]]
        /\ addressSettled' = IF isDefault THEN addressSettled \ {OwnerOf[a]} ELSE addressSettled
        /\ UNCHANGED task

LiveAddresses == {a \in Addresses : address[a].there /\ ~address[a].deleted}

\* Unless it is in the body, isDefault is saved as it was found.
FindAddressToUpdate(w) ==
    \E a \in LiveAddresses, isDefault \in BOOLEAN :
        /\ TaskBegins(w)
        /\ task' = [task EXCEPT ![w] = [RestingTask EXCEPT !.pc = "save", !.id = a,
                                                    !.entity = [address[a] EXCEPT !.isDefault = isDefault]]]
        /\ addressSettled' = IF isDefault # address[a].isDefault
                             THEN addressSettled \ {OwnerOf[a]} ELSE addressSettled
        /\ UNCHANGED address

SaveAddress(w) ==
    /\ task[w].pc = "save"
    /\ address' = [address EXCEPT ![task[w].id] = task[w].entity]
    /\ addressSettled' = IF addressLone = w THEN addressSettled ELSE addressSettled \ {OwnerOf[task[w].id]}
    /\ TaskEnds(w)
    /\ UNCHANGED <<made, addressLone>>

\* Found, then removed.  The default may be removed: then there is none.
FindAddressToDelete(w) ==
    \E a \in LiveAddresses :
        /\ TaskBegins(w)
        /\ task' = [task EXCEPT ![w] = [RestingTask EXCEPT !.pc = "delete", !.id = a]]
        /\ addressSettled' = IF address[a].isDefault
                             THEN addressSettled \ {OwnerOf[a]} ELSE addressSettled
        /\ UNCHANGED address

DeleteAddress(w) ==
    /\ task[w].pc = "delete"
    /\ address' = [address EXCEPT ![task[w].id].deleted = TRUE]
    /\ TaskEnds(w)
    /\ UNCHANGED <<made, addressLone, addressSettled>>

\* Mutant: the default there was is kept.
Cleared_Kept(u) == address

\* The first query of setDefault: none of the user's addresses is the default.
Cleared(u) == [a \in Addresses |-> IF a \in Mine(u) THEN [address[a] EXCEPT !.isDefault = FALSE] ELSE address[a]]

ClearDefault(w) ==
    \E u \in Users, a \in Addresses :
        /\ address[a].there
        /\ TaskBegins(w)
        /\ address' = Cleared(u)
        /\ task' = [task EXCEPT ![w] = [RestingTask EXCEPT !.pc = "set", !.user = u, !.id = a]]
        /\ addressSettled' = addressSettled \ {u, OwnerOf[a]}

\* The second one: this one is.
SetDefault(w) ==
    /\ task[w].pc = "set"
    /\ address' = [address EXCEPT ![task[w].id].isDefault = TRUE]
    /\ addressSettled' =
          IF /\ addressLone = w
             /\ OwnerOf[task[w].id] = task[w].user
             /\ ~address[task[w].id].deleted
          THEN addressSettled \cup {task[w].user}
          ELSE addressSettled \ {OwnerOf[task[w].id]}
    /\ TaskEnds(w)
    /\ UNCHANGED <<made, addressLone>>

\* The process ends between two queries.
TaskDies(w) ==
    /\ w \in AtWork
    /\ TaskEnds(w)
    /\ UNCHANGED <<address, made, addressLone, addressSettled>>

AddressesNext ==
    \E w \in AddressWorkers :
        \/ CreateAddress(w) \/ FindAddressToUpdate(w) \/ SaveAddress(w)
        \/ FindAddressToDelete(w) \/ DeleteAddress(w)
        \/ ClearDefault(w) \/ SetDefault(w) \/ TaskDies(w)

AddressesSpec == AddressesInit /\ [][AddressesNext]_addressesVars
-----------------------------------------------------------------------------
AddressesTypeOK ==
    /\ address \in [Addresses -> AddressRow]
    /\ task \in [AddressWorkers -> [pc : {"idle", "save", "delete", "set"}, user : Users \cup {NoOne},
                             id : Addresses \cup {NoOne}, entity : AddressRow]]
    /\ made \in 0..MaxCalls
    /\ addressLone \in AddressWorkers \cup {NoOne}
    /\ addressSettled \subseteq Users

(* A user who has set the default while no other call was under way has     *)
(* exactly one, whatever overlapped or died before, until another call      *)
(* changes it: new addresses, other fields and other users do not.          *)
OneDefault ==
    AtWork = {} => \A u \in addressSettled : Cardinality(Default(u)) = 1
=============================================================================
