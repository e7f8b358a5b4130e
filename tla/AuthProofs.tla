----------------------------- MODULE AuthProofs -----------------------------
(***************************************************************************)
(* What holds for every number of calls and passwords: types, the end of   *)
(* the sessions at a change of the password, and the refusal of refresh    *)
(* and reset tokens that are out of date.                                  *)
(*                                                                         *)
(* The arguments rest on names that are used once: a call makes one        *)
(* session, one hash and one reset token, and stays done once it is done.  *)
(***************************************************************************)
EXTENDS Auth, TLAPS

(* How a step moves the calls: one call begins or goes on, or a crash ends *)
(* those under way.                                                        *)

Same(c, d) ==
    /\ call'[d].op = call[d].op /\ call'[d].sid = call[d].sid /\ call'[d].key = call[d].key
    /\ call'[d].before = call[d].before /\ call'[d].late = call[d].late
    /\ d # c => call'[d].at = call[d].at

LEMMA FreshCall ==
    /\ Fresh \in Call
    /\ Fresh.op = "none" /\ Fresh.at = "new"
    /\ Fresh.sid = None /\ Fresh.key = None /\ Fresh.new = None
BY DEF Fresh, Call, Operation, Step

LEMMA GotoCall ==
    ASSUME TypeOK, NEW c \in Calls, NEW at \in Step, Goto(c, at)
    PROVE  /\ call' \in [Calls -> Call]
           /\ call'[c].at = at
           /\ \A d \in Calls : Same(c, d)
<1>1. call \in [Calls -> Call]
  BY DEF TypeOK
<1>2. call' = [call EXCEPT ![c].at = at]
  BY DEF Goto
<1>3. call' \in [Calls -> Call]
  BY <1>1, <1>2 DEF Call
<1>4. call'[c].at = at
  BY <1>1, <1>2 DEF Call
<1>5. \A d \in Calls : Same(c, d)
  BY <1>1, <1>2 DEF Call, Same
<1>6. QED
  BY <1>3, <1>4, <1>5

LEMMA BeginCall ==
    ASSUME TypeOK, NEW c \in Calls, NEW fields \in Call, Begin(c, fields)
    PROVE  /\ call[c].at = "new"
           /\ call' \in [Calls -> Call]
           /\ call'[c] = fields
           /\ \A d \in Calls \ {c} : call'[d] = call[d]
BY DEF Begin, TypeOK

LEMMA CrashCalls ==
    ASSUME TypeOK, Crash
    PROVE  /\ call' \in [Calls -> Call]
           /\ \A d \in Calls :
                 /\ call'[d].op = call[d].op /\ call'[d].sid = call[d].sid /\ call'[d].key = call[d].key
                 /\ call'[d].before = call[d].before /\ call'[d].late = call[d].late
                 /\ call'[d].at # "killed" => call'[d].at = call[d].at
                 /\ call[d].at \in Ended => call'[d].at = call[d].at
<1>1. call \in [Calls -> Call]
  BY DEF TypeOK
<1>2. \A d \in Calls :
         call'[d] = IF call[d].at \in Ended THEN call[d] ELSE [call[d] EXCEPT !.at = "killed"]
  BY <1>1 DEF Crash
<1>3. \A d \in Calls : [call[d] EXCEPT !.at = "killed"] \in Call
  BY <1>1 DEF Call, Step
<1>4. call' \in [Calls -> Call]
  BY <1>1, <1>3 DEF Crash
<1>5. QED
  BY <1>1, <1>2, <1>4 DEF Call
-----------------------------------------------------------------------------
LEMMA IssuedTokens ==
    ASSUME TypeOK, NEW token \in Issued
    PROVE  \E d \in Done("login") \cup Done("refresh") :
              /\ token[1] = call[d].sid /\ token[2] = d
              /\ d \in Calls /\ call[d].sid \in Calls \cup {None}
BY DEF Issued, Done, TypeOK, Call

-----------------------------------------------------------------------------

\* Those that begin one, and those that carry it on: what each does to the calls.
Begins(c) == Register(c) \/ Login(c) \/ Refresh(c) \/ Forgot(c) \/ Reset(c) \/ Change(c)

LEMMA Beginning ==
    ASSUME TypeOK, NEW c \in Calls, Begins(c)
    PROVE  /\ call[c].at = "new"
           /\ call' \in [Calls -> Call]
           /\ \A d \in Calls \ {c} : call'[d] = call[d]
           /\ UNCHANGED <<account, password, session, resetKey>>
           /\ call'[c].at \notin {"new", "done", "answer", "setKey", "mail"}
           /\ call'[c].op = "login" => call'[c].at = "insertSession" /\ call'[c].sid = c
           /\ call'[c].op = "refresh" =>
                 \E token \in Issued :
                    /\ Accepts(token[1], token[2])
                    /\ call'[c].sid = token[1] /\ call'[c].key = token[2]
                    /\ call'[c].late = (token \in Spent)
           /\ call'[c].op = "forgot" => call'[c].at = "deleteKey" /\ call'[c].before = Done("forgot")
           /\ call'[c].op = "reset" =>
                 /\ call'[c].at = "findUser" /\ call'[c].before = OpenSessions
                 /\ resetKey \in Done("forgot")
                 /\ call'[c].late = (resetKey \in Outdated)
           /\ call'[c].op = "change" => call'[c].at = "write" /\ call'[c].before = OpenSessions
<1>0. UNCHANGED <<account, password, session, resetKey>>
  BY DEF Begins, Register, Login, Refresh, Forgot, Reset, Change
<1>a. Done("forgot") \in SUBSET Calls /\ OpenSessions \in SUBSET Calls
  BY DEF Done, OpenSessions
<1>1. CASE Register(c)
  <2>1. PICK p \in Passwords :
           Begin(c, [Fresh EXCEPT !.op = "register", !.at = "insertUser", !.new = p])
    BY <1>1 DEF Register
  <2>2. PICK fields : fields = [Fresh EXCEPT !.op = "register", !.at = "insertUser", !.new = p]
    OBVIOUS
  <2>3. fields \in Call /\ fields.op = "register" /\ fields.at = "insertUser"
    BY <2>2 DEF Fresh, Call, Operation, Step
  <2>4. Begin(c, fields)
    BY <2>1, <2>2
  <2>5. QED
    BY <1>0, <2>3, <2>4, BeginCall
<1>2. CASE Login(c)
  <2>1. PICK fields : fields = [Fresh EXCEPT !.op = "login", !.at = "insertSession", !.sid = c]
    OBVIOUS
  <2>2. fields \in Call /\ fields.op = "login" /\ fields.at = "insertSession" /\ fields.sid = c
    BY <2>1 DEF Fresh, Call, Operation, Step
  <2>3. Begin(c, fields)
    BY <1>2, <2>1 DEF Login
  <2>4. QED
    BY <1>0, <1>2, <2>2, <2>3, BeginCall
<1>3. CASE Refresh(c)
  <2>1. PICK token \in Issued :
           /\ Accepts(token[1], token[2])
           /\ Begin(c, [Fresh EXCEPT !.op = "refresh", !.at = "findUser", !.sid = token[1],
                                     !.key = token[2], !.late = token \in Spent])
    BY <1>3 DEF Refresh
  <2>2. PICK fields : fields = [Fresh EXCEPT !.op = "refresh", !.at = "findUser", !.sid = token[1],
                                     !.key = token[2], !.late = token \in Spent]
    OBVIOUS
  <2>3. token[1] \in Calls \cup {None} /\ token[2] \in Calls /\ (token \in Spent) \in BOOLEAN
    BY IssuedTokens
  <2>4. /\ fields \in Call /\ fields.op = "refresh" /\ fields.at = "findUser"
        /\ fields.sid = token[1] /\ fields.key = token[2] /\ fields.late = (token \in Spent)
    BY <2>2, <2>3 DEF Fresh, Call, Operation, Step
  <2>5. Begin(c, fields)
    BY <2>1, <2>2
  <2>6. QED
    BY <1>0, <2>1, <2>4, <2>5, BeginCall
<1>4. CASE Forgot(c)
  <2>1. PICK fields : fields = [Fresh EXCEPT !.op = "forgot", !.at = "deleteKey", !.before = Done("forgot")]
    OBVIOUS
  <2>2. fields \in Call /\ fields.op = "forgot" /\ fields.at = "deleteKey" /\ fields.before = Done("forgot")
    BY <1>a, <2>1 DEF Fresh, Call, Operation, Step
  <2>3. Begin(c, fields)
    BY <1>4, <2>1 DEF Forgot
  <2>4. QED
    BY <1>0, <2>2, <2>3, BeginCall
<1>5. CASE Reset(c)
  <2>1. PICK mail \in Done("forgot"), p \in Passwords :
           /\ resetKey = mail
           /\ Begin(c, [Fresh EXCEPT !.op = "reset", !.at = "findUser", !.key = mail, !.new = p,
                                     !.before = OpenSessions, !.late = mail \in Outdated])
    BY <1>5 DEF Reset
  <2>2. PICK fields : fields = [Fresh EXCEPT !.op = "reset", !.at = "findUser", !.key = mail, !.new = p,
                                     !.before = OpenSessions, !.late = mail \in Outdated]
    OBVIOUS
  <2>3. mail \in Calls /\ (mail \in Outdated) \in BOOLEAN
    BY <1>a
  <2>4. /\ fields \in Call /\ fields.op = "reset" /\ fields.at = "findUser"
        /\ fields.before = OpenSessions /\ fields.late = (mail \in Outdated)
    BY <1>a, <2>2, <2>3 DEF Fresh, Call, Operation, Step
  <2>5. Begin(c, fields)
    BY <2>1, <2>2
  <2>6. QED
    BY <1>0, <2>1, <2>4, <2>5, BeginCall
<1>6. CASE Change(c)
  <2>1. PICK p \in Passwords :
           Begin(c, [Fresh EXCEPT !.op = "change", !.at = "write", !.new = p, !.before = OpenSessions])
    BY <1>6 DEF Change
  <2>2. PICK fields : fields = [Fresh EXCEPT !.op = "change", !.at = "write", !.new = p, !.before = OpenSessions]
    OBVIOUS
  <2>3. fields \in Call /\ fields.op = "change" /\ fields.at = "write" /\ fields.before = OpenSessions
    BY <1>a, <2>2 DEF Fresh, Call, Operation, Step
  <2>4. Begin(c, fields)
    BY <2>1, <2>2
  <2>5. QED
    BY <1>0, <2>3, <2>4, BeginCall
<1>7. QED
  BY <1>1, <1>2, <1>3, <1>4, <1>5, <1>6 DEF Begins

\* The steps of a call that leave the sessions and the reset key alone.
Passes(c) ==
    InsertUser(c) \/ Answer(c) \/ RefreshFindsUser(c) \/ Mail(c) \/ ResetFindsUser(c) \/ Write(c)

LEMMA Passing ==
    ASSUME TypeOK, NEW c \in Calls, Passes(c)
    PROVE  /\ call' \in [Calls -> Call]
           /\ \A d \in Calls : Same(c, d)
           /\ UNCHANGED <<session, resetKey>>
           /\ call[c].at \notin {"new", "done"}
           /\ \/ call[c].op = "register" /\ call'[c].at \in {"done", "refused"}
              \/ call[c].op \in {"login", "refresh"} /\ call[c].at = "answer" /\ call'[c].at = "done"
              \/ call[c].op = "refresh" /\ call'[c].at \in {"updateHash", "refused"}
              \/ call[c].op = "forgot" /\ call[c].at = "mail" /\ call'[c].at \in {"done", "refused"}
              \/ call[c].op = "reset" /\ call[c].at = "findUser" /\ call'[c].at \in {"endSessions", "refused"}
              \/ call[c].op = "reset" /\ call[c].at = "write" /\ call'[c].at = "done"
              \/ call[c].op = "change" /\ call[c].at = "write" /\ call'[c].at = "endSessions"
<1>1. CASE InsertUser(c)
  <2>1. \E at \in {"done", "refused"} : Goto(c, at)
    BY <1>1 DEF InsertUser
  <2>2. QED
    BY <1>1, <2>1, GotoCall DEF InsertUser, Going, Step
<1>2. CASE Answer(c)
  BY <1>2, GotoCall DEF Answer, Step
<1>3. CASE RefreshFindsUser(c)
  <2>1. \E at \in {"updateHash", "refused"} : Goto(c, at)
    BY <1>3 DEF RefreshFindsUser
  <2>2. QED
    BY <1>3, <2>1, GotoCall DEF RefreshFindsUser, Going, Step
<1>4. CASE Mail(c)
  BY <1>4, GotoCall DEF Mail, Going, Step
<1>5. CASE ResetFindsUser(c)
  <2>1. \E at \in {"endSessions", "refused"} : Goto(c, at)
    BY <1>5 DEF ResetFindsUser
  <2>2. QED
    BY <1>5, <2>1, GotoCall DEF ResetFindsUser, Going, Step
<1>6. CASE Write(c)
  BY <1>6, GotoCall DEF Write, AfterWrite, Step
<1>7. QED
  BY <1>1, <1>2, <1>3, <1>4, <1>5, <1>6 DEF Passes

THEOREM InitType == Init => TypeOK
<1>1. ASSUME Init PROVE TypeOK
  <2>1. call \in [Calls -> Call]
    BY <1>1, FreshCall DEF Init
  <2>2. QED
    BY <1>1, <2>1 DEF Init, TypeOK, Stored, Session
<1>2. QED
  BY <1>1

\* The steps that no call takes.
Elsewhere == Logout \/ Expire \/ UpdateProfile \/ RemoveUser

LEMMA NextSteps ==
    ASSUME Next
    PROVE  \/ \E c \in Calls :
                 Begins(c) \/ Passes(c) \/ InsertSession(c) \/ UpdateHash(c)
                 \/ DeleteKey(c) \/ SetKey(c) \/ EndSessions(c)
           \/ Elsewhere
           \/ Crash
BY DEF Next, Begins, Passes, Elsewhere

\* The ends of sessions.
LEMMA EndedRows ==
    ASSUME TypeOK, Logout \/ \E c \in Calls : EndSessions(c)
    PROVE  /\ session' \in [Calls -> Session]
           /\ \A s \in Calls :
                 /\ session'[s].hash = session[s].hash
                 /\ session'[s].state = "live" => session[s].state = "live"
                 /\ session'[s].state = "none" <=> session[s].state = "none"
<1>0. session \in [Calls -> Session]
  BY DEF TypeOK
<1>1. \A row \in Session :
         /\ Deleted(row) \in Session
         /\ Deleted(row).hash = row.hash
         /\ Deleted(row).state # "live"
         /\ Deleted(row).state = "none" <=> row.state = "none"
  BY DEF Deleted, Session
<1>2. CASE Logout
  <2>1. PICK s : session' = [session EXCEPT ![s] = Deleted(@)]
    BY <1>2 DEF Logout
  <2>2. session' = [r \in Calls |-> IF r = s THEN Deleted(session[r]) ELSE session[r]]
    BY <1>0, <2>1
  <2>3. QED
    BY <1>0, <1>1, <2>2
<1>3. CASE \E c \in Calls : EndSessions(c)
  BY <1>0, <1>1, <1>3 DEF EndSessions
<1>4. QED
  BY <1>2, <1>3

LEMMA Ending ==
    ASSUME TypeOK, NEW c \in Calls, EndSessions(c)
    PROVE  /\ call' \in [Calls -> Call]
           /\ \A d \in Calls : Same(c, d)
           /\ call[c].op \in {"reset", "change"} /\ call[c].at = "endSessions"
           /\ call'[c].at \in {"write", "done"}
           /\ call[c].op = "reset" => call'[c].at = "write"
           /\ \A s \in Calls : session'[s].state # "live"
           /\ resetKey' = resetKey
<1>1. call[c].op \in {"reset", "change"} /\ call[c].at = "endSessions"
  BY DEF EndSessions
<1>2. AfterSessions(c) \in {"write", "done"} /\ (call[c].op = "reset" => AfterSessions(c) = "write")
  BY DEF AfterSessions
<1>3. PICK at : at = AfterSessions(c)
  OBVIOUS
<1>4. at \in Step /\ Goto(c, at)
  BY <1>2, <1>3 DEF EndSessions, Step
<1>5. \A row \in Session : Deleted(row).state # "live"
  BY DEF Deleted, Session
<1>6. \A s \in Calls : session'[s].state # "live"
  BY <1>5 DEF EndSessions, TypeOK
<1>7. QED
  BY <1>1, <1>2, <1>3, <1>4, <1>6, GotoCall DEF EndSessions

LEMMA Inserting ==
    ASSUME TypeOK, NEW c \in Calls, InsertSession(c)
    PROVE  /\ call' \in [Calls -> Call]
           /\ \A d \in Calls : Same(c, d)
           /\ call[c].op = "login" /\ call[c].at = "insertSession" /\ call'[c].at = "answer"
           /\ session' \in [Calls -> Session]
           /\ session'[c].state = "live" /\ session'[c].hash = c
           /\ \A s \in Calls \ {c} : session'[s] = session[s]
           /\ resetKey' = resetKey
<1>1. Goto(c, "answer") /\ "answer" \in Step
  BY DEF InsertSession, Step
<1>2. /\ session' \in [Calls -> Session]
      /\ session'[c].state = "live" /\ session'[c].hash = c
      /\ \A s \in Calls \ {c} : session'[s] = session[s]
  BY DEF InsertSession, TypeOK, Session
<1>3. QED
  BY <1>1, <1>2, GotoCall DEF InsertSession, Going

LEMMA Updating ==
    ASSUME TypeOK, NEW c \in Calls, UpdateHash(c)
    PROVE  /\ call' \in [Calls -> Call]
           /\ \A d \in Calls : Same(c, d)
           /\ call[c].op = "refresh" /\ call[c].at = "updateHash" /\ call'[c].at = "answer"
           /\ session' \in [Calls -> Session]
           /\ \A s \in Calls :
                 /\ session'[s].state = session[s].state
                 /\ session'[s].hash = IF s = call[c].sid THEN c ELSE session[s].hash
           /\ resetKey' = resetKey
<1>1. Goto(c, "answer") /\ "answer" \in Step
  BY DEF UpdateHash, Step
<1>2. session' = [session EXCEPT ![call[c].sid].hash = c] /\ session \in [Calls -> Session]
  BY DEF UpdateHash, TypeOK
<1>3. /\ session' \in [Calls -> Session]
      /\ \A s \in Calls :
            /\ session'[s].state = session[s].state
            /\ session'[s].hash = IF s = call[c].sid THEN c ELSE session[s].hash
  BY <1>2 DEF Session
<1>4. QED
  BY <1>1, <1>3, GotoCall DEF UpdateHash, Going

LEMMA Keying ==
    ASSUME TypeOK, NEW c \in Calls, DeleteKey(c) \/ SetKey(c)
    PROVE  /\ call' \in [Calls -> Call]
           /\ \A d \in Calls : Same(c, d)
           /\ call[c].op = "forgot" /\ call'[c].at \in {"setKey", "mail"}
           /\ \/ call[c].at = "deleteKey" /\ resetKey' = None
              \/ call[c].at = "setKey" /\ resetKey' \in {c, resetKey}
           /\ session' = session
<1>1. CASE DeleteKey(c)
  BY <1>1, GotoCall DEF DeleteKey, Going, Step
<1>2. CASE SetKey(c)
  BY <1>2, GotoCall DEF SetKey, Going, Step
<1>3. QED
  BY <1>1, <1>2

THEOREM NextType == TypeOK /\ [Next]_vars => TypeOK'
<1> SUFFICES ASSUME TypeOK, [Next]_vars PROVE TypeOK'
  OBVIOUS
<1>1. CASE UNCHANGED vars
  BY <1>1 DEF vars, TypeOK
<1>2. ASSUME NEW c \in Calls, Begins(c) PROVE TypeOK'
  BY <1>2, Beginning DEF TypeOK
<1>3. ASSUME NEW c \in Calls, Passes(c) PROVE TypeOK'
  <2>1. account' \in {"absent", "there", "removed"}
    BY <1>3 DEF Passes, InsertUser, Answer, RefreshFindsUser, Mail, ResetFindsUser, Write, TypeOK
  <2>2. call[c].new \in Passwords \cup {None}
    BY DEF TypeOK, Call
  <2>3. Hashed(call[c].new) \in Stored /\ NewPassword(c) \in Stored
    BY <2>2 DEF NewPassword, Hashed, HashedAgain, Stored
  <2>4. password' \in {password, Hashed(call[c].new), NewPassword(c)}
    BY <1>3 DEF Passes, InsertUser, Answer, RefreshFindsUser, Mail, ResetFindsUser, Write
  <2>5. QED
    BY <1>3, <2>1, <2>3, <2>4, Passing DEF TypeOK
<1>4. ASSUME NEW c \in Calls, InsertSession(c) PROVE TypeOK'
  BY <1>4, Inserting DEF InsertSession, TypeOK
<1>5. ASSUME NEW c \in Calls, UpdateHash(c) PROVE TypeOK'
  BY <1>5, Updating DEF UpdateHash, TypeOK
<1>6. ASSUME NEW c \in Calls, DeleteKey(c) \/ SetKey(c) PROVE TypeOK'
  <2>1. resetKey' \in Calls \cup {None}
    BY <1>6, Keying DEF TypeOK
  <2>2. UNCHANGED <<account, password, session>>
    BY <1>6 DEF DeleteKey, SetKey
  <2>3. QED
    BY <1>6, <2>1, <2>2, Keying DEF TypeOK
<1>7. ASSUME NEW c \in Calls, EndSessions(c) PROVE TypeOK'
  BY <1>7, EndedRows, Ending DEF EndSessions, TypeOK
<1>8. CASE Elsewhere
  <2>1. CASE Logout
    BY <2>1, EndedRows DEF Logout, TypeOK
  <2>2. CASE Expire
    BY <2>2 DEF Expire, TypeOK
  <2>3. CASE UpdateProfile
    BY <2>3 DEF UpdateProfile, TypeOK, Hashed, Stored
  <2>4. CASE RemoveUser
    BY <2>4 DEF RemoveUser, TypeOK
  <2>5. QED
    BY <1>8, <2>1, <2>2, <2>3, <2>4 DEF Elsewhere
<1>9. CASE Crash
  BY <1>9, CrashCalls DEF Crash, TypeOK
<1>10. QED
  BY <1>1, <1>2, <1>3, <1>4, <1>5, <1>6, <1>7, <1>8, <1>9, NextSteps

(* The account, the sessions, the key and the calls keep their types.      *)
THEOREM AuthTypeCorrect == Spec => []TypeOK
BY InitType, NextType, PTL DEF Spec
-----------------------------------------------------------------------------
(* ChangeEndsSessions.  A session is not there before its login inserts it, *)
(* and is never open again once it was ended; so the sessions a reset or a  *)
(* change met are ended for good when it is past their deletion.            *)

PastSessions(c) ==
    \/ call[c].op = "reset" /\ call[c].at \in {"write", "done"}
    \/ call[c].op = "change" /\ call[c].at = "done"

EndInv ==
    \A c \in Calls :
        /\ call[c].at = "new" \/ (call[c].op = "login" /\ call[c].at = "insertSession")
              => session[c].state = "none"
        /\ call[c].op \in {"reset", "change"} => \A s \in call[c].before : session[s].state # "none"
        /\ PastSessions(c) => \A s \in call[c].before : session[s].state # "live"

LEMMA BeforeAreCalls == TypeOK => \A c \in Calls : call[c].before \in SUBSET Calls
BY DEF TypeOK, Call

LEMMA EndInit == Init => EndInv
<1> SUFFICES ASSUME Init PROVE EndInv
  OBVIOUS
<1>1. \A c \in Calls : call[c].op = "none" /\ call[c].at = "new" /\ session[c].state = "none"
  BY FreshCall DEF Init
<1>2. QED
  BY <1>1 DEF EndInv, PastSessions

LEMMA EndNext == TypeOK /\ EndInv /\ [Next]_vars => EndInv'
<1> SUFFICES ASSUME TypeOK, EndInv, [Next]_vars PROVE EndInv'
  OBVIOUS
<1> USE DEF EndInv, PastSessions
<1>0. \A c \in Calls : call[c].before \in SUBSET Calls
  BY BeforeAreCalls
<1>1. CASE UNCHANGED vars
  BY <1>1 DEF vars
<1>2. ASSUME NEW c \in Calls, Begins(c) PROVE EndInv'
  <2>1. session[c].state = "none"
    BY <1>2, Beginning
  <2>2. \A s \in OpenSessions : session[s].state # "none"
    BY DEF OpenSessions
  <2>3. ~PastSessions(c)'
    BY <1>2, Beginning
  <2>4. QED
    BY <1>2, <2>1, <2>2, <2>3, Beginning
<1>3. ASSUME NEW c \in Calls, Passes(c) PROVE EndInv'
  <2>1. \A d \in Calls : PastSessions(d)' => PastSessions(d)
    BY <1>3, Passing DEF Same
  <2>2. \A d \in Calls : call'[d].at = "new" \/ (call'[d].op = "login" /\ call'[d].at = "insertSession")
                           => call[d].at = "new" \/ (call[d].op = "login" /\ call[d].at = "insertSession")
    BY <1>3, Passing DEF Same
  <2>3. session' = session /\ \A d \in Calls : call'[d].before = call[d].before /\ call'[d].op = call[d].op
    BY <1>3, Passing DEF Same
  <2>4. QED
    BY <2>1, <2>2, <2>3
<1>4. ASSUME NEW c \in Calls, InsertSession(c) PROVE EndInv'
  BY <1>0, <1>4, Inserting DEF Same
<1>5. ASSUME NEW c \in Calls, UpdateHash(c) PROVE EndInv'
  BY <1>0, <1>5, Updating DEF Same
<1>6. ASSUME NEW c \in Calls, DeleteKey(c) \/ SetKey(c) PROVE EndInv'
  <2>1. /\ session' = session
        /\ \A d \in Calls : /\ call'[d].before = call[d].before /\ call'[d].op = call[d].op
                            /\ call'[d].at = call[d].at \/ d = c
        /\ call[c].op = "forgot" /\ call'[c].at # "new"
    BY <1>6, Keying DEF Same
  <2>2. QED
    BY <2>1
<1>7. ASSUME NEW c \in Calls, EndSessions(c) PROVE EndInv'
  BY <1>0, <1>7, EndedRows, Ending DEF Same
<1>8. CASE Elsewhere
  <2>1. CASE Logout
    <3>1. call' = call
      BY <2>1 DEF Logout
    <3>2. \A s \in Calls :
             /\ session'[s].state = "live" => session[s].state = "live"
             /\ session'[s].state = "none" <=> session[s].state = "none"
      BY <2>1, EndedRows
    <3>3. \A d \in Calls :
             /\ call'[d].at = call[d].at /\ call'[d].op = call[d].op /\ call'[d].before = call[d].before
             /\ \A s \in call[d].before : s \in Calls
      BY <1>0, <3>1
    <3>4. QED
      BY <3>2, <3>3
  <2>2. CASE ~Logout
    BY <1>8, <2>2 DEF Elsewhere, Expire, UpdateProfile, RemoveUser
  <2>3. QED
    BY <2>1, <2>2
<1>9. CASE Crash
  <2>1. session' = session
    BY <1>9 DEF Crash
  <2>2. QED
    BY <1>9, <2>1, CrashCalls
<1>10. QED
  BY <1>1, <1>2, <1>3, <1>4, <1>5, <1>6, <1>7, <1>8, <1>9, NextSteps

(* ChangeEndsSessions: an answered reset or change has ended the sessions  *)
(* it met, whatever refreshes and logins ran beside it.                    *)
THEOREM PasswordChangeEndsSessions == Spec => []ChangeEndsSessions
<1>1. EndInv => ChangeEndsSessions
  BY DEF EndInv, PastSessions, ChangeEndsSessions, Done, Going, OpenSessions
<1>2. Spec => [](TypeOK /\ EndInv)
  BY InitType, NextType, EndInit, EndNext, PTL DEF Spec
<1>3. QED
  BY <1>1, <1>2, PTL
-----------------------------------------------------------------------------
(* SpentTokenRefused.  The hash a refresh was given is one that an answered *)
(* call had made, so nobody can write it into the session a second time.    *)

Answered == Done("login") \cup Done("refresh")

SpentInv ==
    \A c \in Calls :
        /\ call[c].op \in {"login", "refresh"} => call[c].sid \in Calls
        /\ call[c].op = "refresh" =>
              /\ call[c].key \in Answered
              /\ ~call[c].late
              /\ call[c].at \in {"answer", "done"} => session[call[c].sid].hash # call[c].key

LEMMA AnsweredStay ==
    ASSUME TypeOK, [Next]_vars
    PROVE  \A d \in Answered : d \in Answered'
<1> USE DEF Answered, Done, Going
<1>1. CASE UNCHANGED vars
  BY <1>1 DEF vars
<1>2. ASSUME NEW c \in Calls, Begins(c) PROVE \A d \in Answered : d \in Answered'
  BY <1>2, Beginning
<1>3. ASSUME NEW c \in Calls, Passes(c) PROVE \A d \in Answered : d \in Answered'
  BY <1>3, Passing DEF Same
<1>4. ASSUME NEW c \in Calls, InsertSession(c) \/ UpdateHash(c) PROVE \A d \in Answered : d \in Answered'
  BY <1>4, Inserting, Updating DEF Same
<1>6. ASSUME NEW c \in Calls, DeleteKey(c) \/ SetKey(c) PROVE \A d \in Answered : d \in Answered'
  BY <1>6, Keying DEF Same
<1>7. ASSUME NEW c \in Calls, EndSessions(c) PROVE \A d \in Answered : d \in Answered'
  BY <1>7, Ending DEF Same
<1>8. CASE Elsewhere
  BY <1>8 DEF Elsewhere, Logout, Expire, UpdateProfile, RemoveUser
<1>9. CASE Crash
  BY <1>9, CrashCalls DEF Ended
<1>10. QED
  BY <1>1, <1>2, <1>3, <1>4, <1>6, <1>7, <1>8, <1>9, NextSteps

LEMMA SpentInit == Init => SpentInv
BY FreshCall DEF Init, SpentInv

LEMMA SpentNext == TypeOK /\ SpentInv /\ [Next]_vars => SpentInv'
<1> SUFFICES ASSUME TypeOK, SpentInv, [Next]_vars PROVE SpentInv'
  OBVIOUS
<1>0. \A d \in Answered : d \in Answered'
  BY AnsweredStay
<1>a. \A d \in Answered : d \in Calls /\ call[d].at = "done"
  BY DEF Answered, Done, Going
<1> USE DEF SpentInv
<1>1. CASE UNCHANGED vars
  BY <1>1 DEF vars, Answered, Done, Going
<1>2. ASSUME NEW c \in Calls, Begins(c) PROVE SpentInv'
  <2>1. ASSUME call'[c].op = "refresh"
        PROVE  call'[c].sid \in Calls /\ call'[c].key \in Answered /\ ~call'[c].late
    <3>1. PICK token \in Issued :
             /\ Accepts(token[1], token[2])
             /\ call'[c].sid = token[1] /\ call'[c].key = token[2]
             /\ call'[c].late = (token \in Spent)
      BY <1>2, <2>1, Beginning
    <3>2. PICK d \in Answered : token[1] = call[d].sid /\ token[2] = d
      BY IssuedTokens DEF Answered
    <3>3. token[1] \in Calls
      BY <3>2 DEF Answered, Done, Going
    <3>4. ASSUME token \in Spent PROVE FALSE
      <4>1. PICK r \in Calls : call[r].op = "refresh" /\ call[r].at = "done" /\ token = <<call[r].sid, call[r].key>>
        BY <3>4 DEF Spent, Done, Going
      <4>2. session[token[1]].hash # token[2]
        BY <4>1
      <4>3. QED
        BY <3>1, <4>2 DEF Accepts
    <3>5. QED
      BY <3>1, <3>2, <3>3, <3>4
  <2>2. QED
    BY <1>0, <1>2, <2>1, Beginning
<1>3. ASSUME NEW c \in Calls, Passes(c) PROVE SpentInv'
  BY <1>0, <1>3, Passing DEF Same
<1>4. ASSUME NEW c \in Calls, InsertSession(c) PROVE SpentInv'
  BY <1>0, <1>a, <1>4, Inserting DEF Same
<1>5. ASSUME NEW c \in Calls, UpdateHash(c) PROVE SpentInv'
  BY <1>0, <1>a, <1>5, Updating DEF Same
<1>6. ASSUME NEW c \in Calls, DeleteKey(c) \/ SetKey(c) PROVE SpentInv'
  BY <1>0, <1>6, Keying DEF Same
<1>7. ASSUME NEW c \in Calls, EndSessions(c) PROVE SpentInv'
  BY <1>0, <1>7, EndedRows, Ending DEF Same
<1>8. CASE Elsewhere
  <2>1. CASE Logout
    BY <1>0, <2>1, EndedRows DEF Logout
  <2>2. CASE ~Logout
    BY <1>0, <1>8, <2>2 DEF Elsewhere, Expire, UpdateProfile, RemoveUser
  <2>3. QED
    BY <2>1, <2>2
<1>9. CASE Crash
  <2>1. session' = session
    BY <1>9 DEF Crash
  <2>2. QED
    BY <1>0, <1>9, <2>1, CrashCalls
<1>10. QED
  BY <1>1, <1>2, <1>3, <1>4, <1>5, <1>6, <1>7, <1>8, <1>9, NextSteps

(* SpentTokenRefused: the token of an answered refresh is refused, however *)
(* many refreshes of the session overlapped.                               *)
THEOREM SpentTokensRefused == Spec => []SpentTokenRefused
<1>1. SpentInv => SpentTokenRefused
  BY DEF SpentInv, SpentTokenRefused
<1>2. Spec => [](TypeOK /\ SpentInv)
  BY InitType, NextType, SpentInit, SpentNext, PTL DEF Spec
<1>3. QED
  BY <1>1, <1>2, PTL
-----------------------------------------------------------------------------
(* OlderMailRefused.  Once forgotPassword has deleted the key, the key is   *)
(* none of those mailed before it began: only a call that is not done yet   *)
(* can set one.                                                             *)

OlderInv ==
    \A c \in Calls :
        /\ call[c].op = "forgot" =>
              /\ \A m \in call[c].before : m \in Done("forgot")
              /\ call[c].at \in {"setKey", "mail", "done"} => resetKey \notin call[c].before
        /\ call[c].op = "reset" => ~call[c].late

LEMMA OlderInit == Init => OlderInv
BY FreshCall DEF Init, OlderInv

LEMMA OlderNext == TypeOK /\ OlderInv /\ [Next]_vars => OlderInv'
<1> SUFFICES ASSUME TypeOK, OlderInv, [Next]_vars PROVE OlderInv'
  OBVIOUS
<1>a. \A m \in Done("forgot") : m \in Calls /\ call[m].op = "forgot" /\ call[m].at = "done"
  BY DEF Done, Going
<1>b. \A m \in Calls : call'[m].op = "forgot" /\ call'[m].at = "done" => m \in Done("forgot")'
  BY DEF Done, Going
<1> USE DEF OlderInv
<1>1. CASE UNCHANGED vars
  BY <1>1 DEF vars, Done, Going
<1>2. ASSUME NEW c \in Calls, Begins(c) PROVE OlderInv'
  <2>1. resetKey \in Done("forgot") => resetKey \notin Outdated
    BY DEF Outdated, Done, Going
  <2>2. \A m \in Done("forgot") : m \in Done("forgot")'
    BY <1>2, <1>a, <1>b, Beginning
  <2>3. call'[c].op = "reset" => ~call'[c].late
    BY <1>2, <2>1, Beginning
  <2>4. call'[c].op = "forgot" => call'[c].at = "deleteKey" /\ call'[c].before = Done("forgot")
    BY <1>2, Beginning
  <2>5. resetKey' = resetKey /\ \A d \in Calls \ {c} : call'[d] = call[d]
    BY <1>2, Beginning
  <2>6. QED
    BY <2>2, <2>3, <2>4, <2>5
<1>3. ASSUME NEW c \in Calls, Passes(c) PROVE OlderInv'
  BY <1>3, <1>a, <1>b, Passing DEF Same
<1>4. ASSUME NEW c \in Calls, InsertSession(c) \/ UpdateHash(c) PROVE OlderInv'
  BY <1>4, <1>a, <1>b, Inserting, Updating DEF Same
<1>6. ASSUME NEW c \in Calls, DeleteKey(c) \/ SetKey(c) PROVE OlderInv'
  BY <1>6, <1>a, <1>b, Keying, AuthAssumption DEF Same
<1>7. ASSUME NEW c \in Calls, EndSessions(c) PROVE OlderInv'
  BY <1>7, <1>a, <1>b, Ending DEF Same
<1>8. CASE Elsewhere
  <2>1. call' = call /\ resetKey' \in {resetKey, None}
    BY <1>8 DEF Elsewhere, Logout, Expire, UpdateProfile, RemoveUser
  <2>2. QED
    BY <1>a, <1>b, <2>1, AuthAssumption
<1>9. CASE Crash
  <2>1. resetKey' = resetKey
    BY <1>9 DEF Crash
  <2>2. QED
    BY <1>9, <1>a, <1>b, <2>1, CrashCalls DEF Ended
<1>10. QED
  BY <1>1, <1>2, <1>3, <1>4, <1>6, <1>7, <1>8, <1>9, NextSteps

(* OlderMailRefused: a later forgotPassword that was answered leaves no    *)
(* earlier reset token in force.                                           *)
THEOREM OlderMailsRefused == Spec => []OlderMailRefused
<1>1. OlderInv => OlderMailRefused
  BY DEF OlderInv, OlderMailRefused
<1>2. Spec => [](TypeOK /\ OlderInv)
  BY InitType, NextType, OlderInit, OlderNext, PTL DEF Spec
<1>3. QED
  BY <1>1, <1>2, PTL
=============================================================================
