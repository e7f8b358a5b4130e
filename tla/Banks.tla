-------------------------------- MODULE Banks --------------------------------
(***************************************************************************)
(* The shop's bank accounts (src/modules/payment-gateway/bank/             *)
(* bank.service.ts): which of them a checkout is told to pay to, and the   *)
(* admin's create, update and delete.                                      *)
(*                                                                         *)
(* A save writes the row as it was found, with what the call changed; its  *)
(* select and its update are one step.  It undoes a deletion that came in  *)
(* between, as the row was found with deletedAt = null.                    *)
(***************************************************************************)
EXTENDS Integers, FiniteSetsExt

CONSTANTS
    Banks,
    BankWorkers,    \* server-side calls, one after the other
    Accounts,
    StartBanks,     \* the rows there are at the beginning
    MaxPicks,       \* bound: checkouts that ask for a bank
    MaxEdits,       \* bound: calls of the admin
    NoBank

Never == 0          \* lastOrder is null; otherwise it is the time of a pick

BankRow == [there : BOOLEAN, deleted : BOOLEAN, account : Accounts, active : BOOLEAN, lastOrder : Nat]

ASSUME BanksAssumption ==
    /\ IsFiniteSet(Banks) /\ Banks # {}
    /\ StartBanks \in [Banks -> BankRow]
    /\ \A b, c \in Banks :
          /\ StartBanks[b].there /\ ~StartBanks[b].deleted
          /\ StartBanks[c].there /\ ~StartBanks[c].deleted
          /\ StartBanks[b].account = StartBanks[c].account
          => b = c
    /\ MaxPicks \in Nat /\ MaxEdits \in Nat
    /\ NoBank \notin Banks

VARIABLES
    bank,
    worker,
    clock,           \* the time: how often a bank was picked
    edits,
    \* history
    passed,          \* <<a, b>>: a was picked while b waited, and b not since
    skipped,         \* a bank was picked twice while another waited
    picksOverlapped  \* calls for banks have overlapped

banksVars == <<bank, worker, clock, edits, passed, skipped, picksOverlapped>>

RestingWorker == [pc |-> "idle", op |-> "none", id |-> NoBank, entity |-> NoBank, alone |-> FALSE]
BanksQuiet == \A w \in BankWorkers : worker[w].pc = "idle"

LiveBanks == {b \in Banks : bank[b].there /\ ~bank[b].deleted}
ActiveBanks == {b \in LiveBanks : bank[b].active}
Waiting == {b \in ActiveBanks : bank[b].lastOrder # Never}

\* Mutant: the account of a bank that is not active may be given again.
Taken_ActiveOnly(account) == \E b \in ActiveBanks : bank[b].account = account

\* findOne({ where: { accountNumber } })
Taken(account) == \E b \in LiveBanks : bank[b].account = account

BanksInit ==
    /\ bank = StartBanks
    /\ worker = [w \in BankWorkers |-> RestingWorker]
    /\ clock = 1 + Max({StartBanks[b].lastOrder : b \in Banks})
    /\ edits = 0
    /\ passed = {}
    /\ skipped = FALSE
    /\ picksOverlapped = FALSE

\* Two calls that overlap may both be told the same bank: the turns start anew.
BankCallBegins(w, call) ==
    /\ worker[w].pc = "idle"
    /\ worker' = [v \in BankWorkers |-> IF v = w THEN [call EXCEPT !.alone = BanksQuiet]
                                    ELSE [worker[v] EXCEPT !.alone = FALSE]]
    /\ picksOverlapped' = (picksOverlapped \/ ~BanksQuiet)

WorkerGoes(w, pc) == worker' = [worker EXCEPT ![w].pc = pc]
BankCallEnds(w) == worker' = [worker EXCEPT ![w] = RestingWorker]
-----------------------------------------------------------------------------
\* Mutant: the bank used last comes first.
Furthest_Nearest == {b \in Waiting : \A c \in Waiting : bank[c].lastOrder <= bank[b].lastOrder}

\* ORDER BY "lastOrder" ASC: a bank that never had an order comes last.
Furthest ==
    IF Waiting = {} THEN ActiveBanks
    ELSE {b \in Waiting : \A c \in Waiting : bank[b].lastOrder <= bank[c].lastOrder}

\* getBankWithFurthestLastOrder
Pick(w) ==
    /\ clock < MaxPicks
    /\ clock' = clock + 1
    /\ \E b \in Furthest :
          BankCallBegins(w, [RestingWorker EXCEPT !.pc = "save", !.op = "pick", !.id = b,
                                !.entity = [bank[b] EXCEPT !.lastOrder = clock]])
    /\ UNCHANGED <<bank, edits, passed, skipped>>

BankEditBegins(w, call) ==
    /\ edits < MaxEdits
    /\ edits' = edits + 1
    /\ BankCallBegins(w, call)
    /\ UNCHANGED <<bank, clock, passed, skipped>>

\* create: the account must be new.
FindForCreate(w) ==
    \E b \in Banks, account \in Accounts, active \in BOOLEAN :
        /\ ~bank[b].there /\ \A v \in BankWorkers : worker[v].id # b
        /\ ~Taken(account)
        /\ BankEditBegins(w, [RestingWorker EXCEPT !.pc = "save", !.op = "create", !.id = b, !.entity =
                [there |-> TRUE, deleted |-> FALSE, account |-> account, active |-> active, lastOrder |-> Never]])

FindForUpdate(w) ==
    \E b \in LiveBanks, account \in Accounts, active \in BOOLEAN :
        BankEditBegins(w, [RestingWorker EXCEPT
            !.pc = IF account # bank[b].account THEN "check" ELSE "save",
            !.op = "update", !.id = b,
            !.entity = [bank[b] EXCEPT !.account = account, !.active = active]])

CheckAccount(w) ==
    /\ worker[w].pc = "check"
    /\ IF Taken(worker[w].entity.account) THEN BankCallEnds(w) ELSE WorkerGoes(w, "save")
    /\ UNCHANGED <<bank, clock, edits, passed, skipped, picksOverlapped>>

FindForDelete(w) ==
    \E b \in LiveBanks :
        BankEditBegins(w, [RestingWorker EXCEPT !.pc = "save", !.op = "delete", !.id = b,
                                                !.entity = [bank[b] EXCEPT !.active = FALSE]])

\* Where a lone pick leaves the turns of the others.
PickCounts(w) ==
    LET a == worker[w].id
        others == Waiting \ {a}
    IN IF worker[w].op = "pick" /\ worker[w].alone
       THEN /\ skipped' = (skipped \/ \E b \in others : <<a, b>> \in passed)
            /\ passed' = {p \in passed : p[2] # a} \cup {<<a, b>> : b \in others}
       ELSE /\ passed' = IF worker[w].alone THEN passed ELSE {}
            /\ UNCHANGED skipped

SaveBank(w) ==
    /\ worker[w].pc = "save"
    /\ bank' = [bank EXCEPT ![worker[w].id] = worker[w].entity]
    /\ IF worker[w].op = "delete" THEN WorkerGoes(w, "remove") ELSE BankCallEnds(w)
    /\ PickCounts(w)
    /\ UNCHANGED <<clock, edits, picksOverlapped>>

RemoveBank(w) ==
    /\ worker[w].pc = "remove"
    /\ bank' = [bank EXCEPT ![worker[w].id].deleted = TRUE]
    /\ BankCallEnds(w)
    /\ UNCHANGED <<clock, edits, passed, skipped, picksOverlapped>>

BanksNext ==
    \E w \in BankWorkers :
        \/ Pick(w) \/ FindForCreate(w) \/ FindForUpdate(w) \/ CheckAccount(w)
        \/ FindForDelete(w) \/ SaveBank(w) \/ RemoveBank(w)

BanksSpec == BanksInit /\ [][BanksNext]_banksVars
-----------------------------------------------------------------------------
BanksTypeOK ==
    /\ bank \in [Banks -> BankRow]
    /\ worker \in [BankWorkers -> [pc : {"idle", "check", "save", "remove"},
                               op : {"none", "pick", "create", "update", "delete"},
                               id : Banks \cup {NoBank}, entity : BankRow \cup {NoBank}, alone : BOOLEAN]]
    /\ clock \in Nat /\ edits \in 0..MaxEdits
    /\ passed \subseteq Banks \X Banks
    /\ skipped \in BOOLEAN /\ picksOverlapped \in BOOLEAN

(* The banks that have had an order take turns: while one of them waits, no *)
(* other is picked twice, if the picks do not overlap, whichever banks the  *)
(* admin adds, stops, brings back and removes in between.  (A bank without  *)
(* lastOrder has no turn at all as long as another is active.)              *)
BanksTakeTurns == ~skipped

(* Unless calls overlap, two banks that are not deleted differ in their     *)
(* account number, which no constraint of the database enforces.            *)
AccountsUnique ==
    ~picksOverlapped => \A b, c \in LiveBanks : bank[b].account = bank[c].account => b = c
=============================================================================
