-------------------------------- MODULE Auth --------------------------------
(***************************************************************************)
(* One account, its sessions and its reset key: AuthService's register,    *)
(* validateLogin, refreshToken, logout, forgotPassword, resetPassword and  *)
(* changePassword (src/modules/auth/auth.service.ts), with SessionService, *)
(* UsersService and the Redis key they use.                                *)
(*                                                                         *)
(* Each action is one query or one answer; signing, hashing and comparing  *)
(* belong to the query they follow or prepare.  A random hash and a signed *)
(* reset token are named by the call that made them, a session by its      *)
(* login.  A refresh token is a pair of session and hash; access tokens    *)
(* are checked against nothing but their signature, so any customer who    *)
(* ever logged in may log out or change the password.  A call that is      *)
(* refused at its first query changes nothing and is not modelled.         *)
(*                                                                         *)
(* Left out: roles, the status that refuses a login, the expiry of the     *)
(* tokens themselves, and two reset tokens signed within one second, which *)
(* are equal.                                                              *)
(***************************************************************************)
EXTENDS Naturals

CONSTANTS
    Calls,      \* calls of the service for this account
    Passwords,
    None        \* no call, no password

ASSUME AuthAssumption ==
    /\ None \notin Calls
    /\ None \notin Passwords

VARIABLES
    account,    \* user: "absent", "there" or soft-deleted, "removed"
    password,   \* user.password
    session,    \* session: state and hash of each row
    resetKey,   \* resetPassword:<id> in Redis: a forgotPassword call, or None
    call        \* the calls

vars == <<account, password, session, resetKey, call>>

\* bcrypt: what is stored can be compared with the text that was hashed once.
Stored == [text : Passwords \cup {None}, layers : 0..2]
Hashed(p) == [text |-> p, layers |-> 1]
HashedAgain(h) == [h EXCEPT !.layers = @ + 1]
Opens(p, stored) == stored = Hashed(p)

Operation == {"none", "register", "login", "refresh", "forgot", "reset", "change"}
Step == {"new", "insertUser", "insertSession", "findUser", "updateHash", "answer", "deleteKey",
         "setKey", "mail", "endSessions", "write", "done", "refused", "killed"}
Session == [state : {"none", "live", "deleted"}, hash : Calls \cup {None}]
Call == [op : Operation, at : Step,
         sid : Calls \cup {None},       \* the session it is for
         key : Calls \cup {None},       \* the hash or the reset token it was given
         new : Passwords \cup {None},   \* the password it brings
         \* history
         before : SUBSET Calls,         \* open sessions, or answered forgotPassword calls, when it began
         late : BOOLEAN]                \* its key was out of date when it began

Fresh == [op |-> "none", at |-> "new", sid |-> None, key |-> None, new |-> None,
          before |-> {}, late |-> FALSE]

Ended == {"new", "done", "refused", "killed"}
Going(c, op, at) == call[c].op = op /\ call[c].at = at
Done(op) == {c \in Calls : Going(c, op, "done")}
OpenSessions == {s \in Calls : session[s].state = "live"}

\* Refresh tokens in the customers' hands, and those exchanged for another.
Issued == {<<call[c].sid, c>> : c \in Done("login") \cup Done("refresh")}
Spent == {<<call[c].sid, call[c].key>> : c \in Done("refresh")}

\* Reset tokens mailed before a later forgotPassword began that was answered.
Outdated == UNION {call[c].before : c \in Done("forgot")}

Begin(c, fields) ==
    /\ call[c].at = "new"
    /\ call' = [call EXCEPT ![c] = fields]
Goto(c, at) == call' = [call EXCEPT ![c].at = at]

Init ==
    /\ account = "absent"
    /\ password = [text |-> None, layers |-> 0]
    /\ session = [s \in Calls |-> [state |-> "none", hash |-> None]]
    /\ resetKey = None
    /\ call = [c \in Calls |-> Fresh]
-----------------------------------------------------------------------------
(* register: UsersService.create *)

\* findOne does not see a removed user.
Register(c) ==
    /\ account # "there"
    /\ \E p \in Passwords :
          Begin(c, [Fresh EXCEPT !.op = "register", !.at = "insertUser", !.new = p])
    /\ UNCHANGED <<account, password, session, resetKey>>

\* The e-mail is unique, among the removed users as well.
InsertUser(c) ==
    /\ Going(c, "register", "insertUser")
    /\ IF account = "absent"
       THEN account' = "there" /\ password' = Hashed(call[c].new) /\ Goto(c, "done")
       ELSE Goto(c, "refused") /\ UNCHANGED <<account, password>>
    /\ UNCHANGED <<session, resetKey>>
-----------------------------------------------------------------------------
(* validateLogin *)

Login(c) ==
    /\ account = "there"
    /\ \E p \in Passwords :
          /\ Opens(p, password)
          /\ Begin(c, [Fresh EXCEPT !.op = "login", !.at = "insertSession", !.sid = c])
    /\ UNCHANGED <<account, password, session, resetKey>>

InsertSession(c) ==
    /\ Going(c, "login", "insertSession")
    /\ session' = [session EXCEPT ![c] = [state |-> "live", hash |-> c]]
    /\ Goto(c, "answer")
    /\ UNCHANGED <<account, password, resetKey>>

Answer(c) ==
    /\ call[c].op \in {"login", "refresh"} /\ call[c].at = "answer"
    /\ Goto(c, "done")
    /\ UNCHANGED <<account, password, session, resetKey>>
-----------------------------------------------------------------------------
(* refreshToken and logout *)

Accepts(s, hash) == session[s].state = "live" /\ session[s].hash = hash

Refresh(c) ==
    /\ \E token \in Issued :
          /\ Accepts(token[1], token[2])
          /\ Begin(c, [Fresh EXCEPT !.op = "refresh", !.at = "findUser", !.sid = token[1],
                                    !.key = token[2], !.late = token \in Spent])
    /\ UNCHANGED <<account, password, session, resetKey>>

RefreshFindsUser(c) ==
    /\ Going(c, "refresh", "findUser")
    /\ Goto(c, IF account = "there" THEN "updateHash" ELSE "refused")
    /\ UNCHANGED <<account, password, session, resetKey>>

\* Mutants: the tokens are signed for a new hash that is not written; the
\* session is saved as it was read, which undoes a deletion.
UpdateHash_NotWritten(c) ==
    /\ Going(c, "refresh", "updateHash")
    /\ Goto(c, "answer")
    /\ UNCHANGED <<account, password, session, resetKey>>

UpdateHash_Saved(c) ==
    /\ Going(c, "refresh", "updateHash")
    /\ session' = [session EXCEPT ![call[c].sid] = [state |-> "live", hash |-> c]]
    /\ Goto(c, "answer")
    /\ UNCHANGED <<account, password, resetKey>>

\* An update by id, of a deleted session too.
UpdateHash(c) ==
    /\ Going(c, "refresh", "updateHash")
    /\ session' = [session EXCEPT ![call[c].sid].hash = c]
    /\ Goto(c, "answer")
    /\ UNCHANGED <<account, password, resetKey>>

\* softDelete.
Deleted(row) == IF row.state = "live" THEN [row EXCEPT !.state = "deleted"] ELSE row

Logout ==
    /\ \E token \in Issued : session' = [session EXCEPT ![token[1]] = Deleted(@)]
    /\ UNCHANGED <<account, password, resetKey, call>>
-----------------------------------------------------------------------------
(* forgotPassword *)

Forgot(c) ==
    /\ account = "there"
    /\ Begin(c, [Fresh EXCEPT !.op = "forgot", !.at = "deleteKey", !.before = Done("forgot")])
    /\ UNCHANGED <<account, password, session, resetKey>>

\* Mutant: the old key is left to be overwritten.
DeleteKey_Skipped(c) ==
    /\ Going(c, "forgot", "deleteKey")
    /\ Goto(c, "setKey")
    /\ UNCHANGED <<account, password, session, resetKey>>

DeleteKey(c) ==
    /\ Going(c, "forgot", "deleteKey")
    /\ resetKey' = None
    /\ Goto(c, "setKey")
    /\ UNCHANGED <<account, password, session>>

\* RedisCacheService.set swallows its errors.
SetKey(c) ==
    /\ Going(c, "forgot", "setKey")
    /\ resetKey' \in {c, resetKey}
    /\ Goto(c, "mail")
    /\ UNCHANGED <<account, password, session>>

\* The mail server may refuse.
Mail(c) ==
    /\ Going(c, "forgot", "mail")
    /\ \E at \in {"done", "refused"} : Goto(c, at)
    /\ UNCHANGED <<account, password, session, resetKey>>

\* The key's time is over.
Expire ==
    /\ resetKey # None
    /\ resetKey' = None
    /\ UNCHANGED <<account, password, session, call>>
-----------------------------------------------------------------------------
(* resetPassword and changePassword *)

\* The key stays in Redis.
Reset(c) ==
    /\ \E mail \in Done("forgot"), p \in Passwords :
          /\ resetKey = mail
          /\ Begin(c, [Fresh EXCEPT !.op = "reset", !.at = "findUser", !.key = mail, !.new = p,
                                    !.before = OpenSessions, !.late = mail \in Outdated])
    /\ UNCHANGED <<account, password, session, resetKey>>

ResetFindsUser(c) ==
    /\ Going(c, "reset", "findUser")
    /\ Goto(c, IF account = "there" THEN "endSessions" ELSE "refused")
    /\ UNCHANGED <<account, password, session, resetKey>>

Change(c) ==
    /\ Issued # {}
    /\ account = "there"
    /\ \E current, p \in Passwords :
          /\ Opens(current, password)
          /\ Begin(c, [Fresh EXCEPT !.op = "change", !.at = "write", !.new = p, !.before = OpenSessions])
    /\ UNCHANGED <<account, password, session, resetKey>>

\* A reset ends the sessions before it writes the password, a change after it.
AfterSessions(c) == IF call[c].op = "reset" THEN "write" ELSE "done"
AfterWrite(c) == IF call[c].op = "reset" THEN "done" ELSE "endSessions"

EndSessions(c) ==
    /\ call[c].op \in {"reset", "change"} /\ call[c].at = "endSessions"
    /\ session' = [s \in Calls |-> Deleted(session[s])]
    /\ Goto(c, AfterSessions(c))
    /\ UNCHANGED <<account, password, resetKey>>

\* UsersService.update hashes what differs from the stored password, so the
\* hash that resetPassword made is hashed again.
NewPassword(c) ==
    IF call[c].op = "reset" THEN HashedAgain(Hashed(call[c].new)) ELSE Hashed(call[c].new)

\* UsersService.update does nothing for a removed user, and does not say so.
Write(c) ==
    /\ call[c].op \in {"reset", "change"} /\ call[c].at = "write"
    /\ password' = IF account = "there" THEN NewPassword(c) ELSE password
    /\ Goto(c, AfterWrite(c))
    /\ UNCHANGED <<account, session, resetKey>>
-----------------------------------------------------------------------------
\* UsersController: a profile is updated, with a password; a user is removed.
UpdateProfile ==
    /\ account = "there"
    /\ \E p \in Passwords : password' = Hashed(p)
    /\ UNCHANGED <<account, session, resetKey, call>>

RemoveUser ==
    /\ account = "there"
    /\ account' = "removed"
    /\ UNCHANGED <<password, session, resetKey, call>>

\* The process dies with the calls it was serving.
Crash ==
    /\ \E c \in Calls : call[c].at \notin Ended
    /\ call' = [c \in Calls |-> IF call[c].at \in Ended THEN call[c] ELSE [call[c] EXCEPT !.at = "killed"]]
    /\ UNCHANGED <<account, password, session, resetKey>>

Next ==
    \/ \E c \in Calls :
          \/ Register(c) \/ InsertUser(c) \/ Login(c) \/ InsertSession(c) \/ Answer(c)
          \/ Refresh(c) \/ RefreshFindsUser(c) \/ UpdateHash(c)
          \/ Forgot(c) \/ DeleteKey(c) \/ SetKey(c) \/ Mail(c)
          \/ Reset(c) \/ ResetFindsUser(c) \/ Change(c) \/ EndSessions(c) \/ Write(c)
    \/ Logout
    \/ Expire
    \/ UpdateProfile
    \/ RemoveUser
    \/ Crash

Spec == Init /\ [][Next]_vars
-----------------------------------------------------------------------------
TypeOK ==
    /\ account \in {"absent", "there", "removed"}
    /\ password \in Stored
    /\ session \in [Calls -> Session]
    /\ resetKey \in Calls \cup {None}
    /\ call \in [Calls -> Call]

(* A reset or a change of the password that was answered has ended every   *)
(* session that was open when it began, and for good, whatever refreshes   *)
(* were under way.                                                         *)
ChangeEndsSessions ==
    \A c \in Done("reset") \cup Done("change") : call[c].before \cap OpenSessions = {}

(* Once a refresh was answered, the token it was given is refused, however *)
(* the refreshes of the session overlapped.                                *)
SpentTokenRefused == \A c \in Calls : call[c].op = "refresh" => ~call[c].late

(* Once a forgotPassword was answered, the reset tokens that had been      *)
(* mailed when it began are refused, even if Redis lost the new one.       *)
OlderMailRefused == \A c \in Calls : call[c].op = "reset" => ~call[c].late
-----------------------------------------------------------------------------
(* "please click the button to reset your password"                        *)
(* (send-mail/mail-templates/reset-password.hbs:21): the password that was *)
(* set, by a reset too, opens the account.                                 *)
PasswordOpens == account = "there" => \E p \in Passwords : Opens(p, password)
=============================================================================
