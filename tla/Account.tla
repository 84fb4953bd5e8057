------------------------------ MODULE Account -------------------------------
(***************************************************************************)
(* AuthService and OtpService for one user account: registration, login    *)
(* with the lock-out after wrong passwords, verification codes for the     *)
(* phone and for a forgotten password, password changes, and the sessions    *)
(* with their tokens (the steps on those are Sessions').                   *)
(*                                                                         *)
(* A request runs one operation; every await of a database command is one  *)
(* step and other requests run in between.  A request that dies or whose   *)
(* command fails is one that takes no further step.  A code, a session and *)
(* the request that made it have the same name; codes never collide.       *)
(* Times are what is left of them, in ticks.                               *)
(***************************************************************************)
EXTENDS Sessions, Sequences, FiniteSets

CONSTANTS Scripts,           \* who may ask for what together: functions to sets of
                             \* records [op, ...]; a run keeps to one of them
          Accounts,          \* the accounts to start from
          MaxLoginAttempts,  \* jwt.maxLoginAttempts
          LockTime,          \* jwt.accountLockMinutes, in ticks
          OtpMaxAttempts,    \* jwt.otpMaxAttempts
          OtpTTL,            \* jwt.otpTtlSeconds, in ticks
          WrongCode          \* a code nobody was sent

ASSUME AttemptsAssumption == MaxLoginAttempts \in Nat \ {0} /\ OtpMaxAttempts \in Nat \ {0}
ASSUME TimesAssumption == LockTime \in Nat \ {0} /\ OtpTTL \in Nat \ {0}
ASSUME WrongCodeAssumption == WrongCode \notin Requests

VARIABLES user,      \* the account: [status, password, failed, locked]
          record,    \* Verification: the code each request has issued
          issued,    \* the codes in the order of their creation
          pc, ask,   \* where each request stands and what it asks for
          read,      \* the failedAttempts a login has read
          target,    \* the code a request compares with, the session it refreshes
          \* auxiliary:
          wrongLogins,   \* logins refused for their password
          wrongGuesses,  \* for each code, the requests that compared a wrong one with it
          accepted,      \* for each code, the requests that presented it rightly
          crossed,       \* logins under way when the sessions were revoked
          rivals         \* for each code, those that were between retire and issue with it

rows == <<user, record, issued>>
tables == <<rows, sessionVars>>
marks == <<wrongLogins, wrongGuesses, accepted>>
aux == <<marks, crossed, rivals>>
vars == <<tables, pc, ask, read, target, aux>>

UserStatus == {"PENDING", "ACTIVE"}
Types == {"PHONE", "PASSWORD_RESET"}
NoAccount == [status |-> "NONE", password |-> "none", failed |-> 0, locked |-> 0]
NoCode == [type |-> "PHONE", verified |-> TRUE, attempts |-> 0, left |-> 0]
UserRows == [status : UserStatus \cup {"NONE"}, password : Passwords \cup {"none"},
             failed : Nat, locked : 0 .. LockTime]
CodeRows == [type : Types, verified : BOOLEAN, attempts : Nat, left : 0 .. OtpTTL]
Nothing == [op |-> "none"]

ASSUME AccountsAssumption ==
    Accounts \subseteq [status : UserStatus, password : Passwords, failed : {0}, locked : {0}]
                       \cup {NoAccount}

\* What a request carries, as far as a step looks at it.
RegisterDto == [op : {"register"}, password : Passwords, acceptTerms : BOOLEAN]
LoginDto == [op : {"login"}, password : Passwords, remember : BOOLEAN]
ResetPasswordDto == [op : {"reset"}, password : Passwords]
ChangePasswordDto == [op : {"change"}, current : Passwords, password : Passwords]

\* What a request may ask for.
Asked == RegisterDto \cup LoginDto \cup ResetPasswordDto \cup ChangePasswordDto
         \cup [op : {"resend", "forgot", "verify", "refresh", "logout", "logoutOthers", "end"}]

ASSUME ScriptsAssumption ==
    /\ Scripts # {}
    /\ \A script \in Scripts, r \in Requests : script[r] \subseteq Asked

Codes == {issued[i] : i \in DOMAIN issued}

Stages == {"idle", "createUser", "retire", "issue", "writeFailure", "writeSuccess",
           "openSession", "signTokens", "signAccess", "countGuess", "mark",
           "activate", "setPassword", "revokeAll", "ok", "refused"}

TablesOK ==
    /\ user \in UserRows
    /\ record \in [Requests -> CodeRows]
    /\ issued \in Seq(Requests)
    /\ SessionsTypeOK

RequestsOK ==
    /\ pc \in [Requests -> Stages]
    /\ \E script \in Scripts : \A r \in Requests : ask[r] \in script[r] \cup {Nothing}
    /\ read \in [Requests -> Nat]
    /\ target \in [Requests -> Requests \cup {WrongCode}]

AuxOK ==
    /\ wrongLogins \in Nat
    /\ wrongGuesses \in [Requests -> SUBSET Requests]
    /\ accepted \in [Requests -> SUBSET Requests]
    /\ crossed \subseteq Requests
    /\ rivals \in [Requests -> SUBSET Requests]

\* Who writes to the account or to a code has found it, for nothing deletes either.
FoundOK ==
    \A r \in Requests :
        /\ pc[r] \notin {"idle", "createUser", "ok", "refused"} => user # NoAccount
        /\ pc[r] \in {"countGuess", "mark"} => target[r] \in Codes

\* Types and ranges of the variables, and what a request may rely on.
TypeOK == TablesOK /\ RequestsOK /\ AuxOK /\ FoundOK

Init ==
    /\ user \in Accounts
    /\ record = [k \in Requests |-> NoCode]
    /\ issued = <<>>
    /\ SessionsInit
    /\ pc = [r \in Requests |-> "idle"]
    /\ ask = [r \in Requests |-> Nothing]
    /\ read = [r \in Requests |-> 0]
    /\ target = [r \in Requests |-> WrongCode]
    /\ wrongLogins = 0
    /\ wrongGuesses = [k \in Requests |-> {}]
    /\ accepted = [k \in Requests |-> {}]
    /\ crossed = {}
    /\ rivals = [k \in Requests |-> {}]

\* (slip) The account is taken to be there.
ExistsAlways == TRUE

Exists == user # NoAccount
At(r, where) == pc[r] = where
Goto(r, where) == pc' = [pc EXCEPT ![r] = where]

\* What has been asked so far is what this script has its requests ask.
Follows(script) == \A r \in Requests : ask[r] \in script[r] \cup {Nothing}

\* The request arrives with one of its questions and sends its first command.
Asks(r, a) == /\ At(r, "idle")
              /\ ask' = [ask EXCEPT ![r] = a]
-----------------------------------------------------------------------------
(* register *)

Register(r, a) ==
    /\ Asks(r, a)
    /\ a.op = "register"
    /\ Goto(r, IF ~a.acceptTerms \/ Exists THEN "refused" ELSE "createUser")
    /\ UNCHANGED <<tables, read, target, aux>>

\* The phone is unique: of two registrations the second one's insert fails.
CreateUser(r) ==
    /\ At(r, "createUser")
    /\ IF Exists THEN Goto(r, "refused") /\ UNCHANGED user
       ELSE /\ user' = [NoAccount EXCEPT !.status = "PENDING", !.password = ask[r].password]
            /\ Goto(r, "retire")
    /\ UNCHANGED <<record, issued, sessionVars, ask, read, target, aux>>
-----------------------------------------------------------------------------
(* login *)

Login(r, a) ==
    /\ Asks(r, a)
    /\ a.op = "login"
    /\ IF ~Exists \/ user.locked > 0 THEN Goto(r, "refused") /\ UNCHANGED read
       ELSE /\ read' = [read EXCEPT ![r] = user.failed]
            /\ Goto(r, IF user.password # a.password THEN "writeFailure"
                       ELSE IF user.status = "PENDING" THEN "refused"
                       ELSE "writeSuccess")
    /\ UNCHANGED <<tables, target, aux>>

\* (slip) The lock comes one failure early.
ShouldLockEarly(attempts) == attempts + 1 >= MaxLoginAttempts

ShouldLock(attempts) == attempts >= MaxLoginAttempts

\* Counts from what was read before the password was checked, and unlocks an account
\* that another request has locked since.
WriteFailure(r) ==
    /\ At(r, "writeFailure")
    /\ LET attempts == read[r] + 1
       IN  user' = [user EXCEPT !.failed = attempts,
                                !.locked = IF ShouldLock(attempts) THEN LockTime ELSE 0]
    /\ wrongLogins' = wrongLogins + 1
    /\ Goto(r, "refused")
    /\ UNCHANGED <<record, issued, sessionVars, ask, read, target, wrongGuesses, accepted,
                   crossed, rivals>>

WriteSuccess(r) ==
    /\ At(r, "writeSuccess")
    /\ user' = [user EXCEPT !.failed = 0, !.locked = 0]
    /\ Goto(r, "openSession")
    /\ UNCHANGED <<record, issued, sessionVars, ask, read, target, aux>>

\* issueTokens: the row comes first, with a placeholder for the refresh token ...
OpenSession(r) ==
    /\ At(r, "openSession")
    /\ OpenRow(r, ask[r].password, ask[r].remember)
    /\ Goto(r, "signTokens")
    /\ UNCHANGED <<rows, token, ask, read, target, aux>>

\* ... and its tokens once it is there; the client has them when the row has, too.
SignTokens(r) ==
    /\ At(r, "signTokens")
    /\ SignBoth(r)
    /\ Goto(r, "ok")
    /\ UNCHANGED <<rows, session, ask, read, target, aux>>
-----------------------------------------------------------------------------
(* OtpService.create, for register, resendOtp and forgotPassword *)

SendCode(r, a) ==
    /\ Asks(r, a)
    /\ a.op \in {"resend", "forgot"}
    /\ Goto(r, IF Exists THEN "retire" ELSE "refused")
    /\ UNCHANGED <<tables, read, target, aux>>

TypeOf(op) == IF op \in {"forgot", "reset"} THEN "PASSWORD_RESET" ELSE "PHONE"

\* The codes of the type that are not verified yet.
OpenCodes(type) == {k \in Codes : record[k].type = type /\ ~record[k].verified}

\* (slip) Codes that have run out are left alone.
RetiredUsable(type) == {k \in OpenCodes(type) : record[k].left > 0}

Retired(type) == OpenCodes(type)

Retire(r) ==
    /\ At(r, "retire")
    /\ record' = [k \in Requests |-> IF k \in Retired(TypeOf(ask[r].op))
                                     THEN [record[k] EXCEPT !.verified = TRUE]
                                     ELSE record[k]]
    /\ Goto(r, "issue")
    /\ UNCHANGED <<user, issued, sessionVars, ask, read, target, aux>>

Issue(r) ==
    /\ At(r, "issue")
    /\ record' = [record EXCEPT ![r] = [type |-> TypeOf(ask[r].op), verified |-> FALSE,
                                        attempts |-> 0, left |-> OtpTTL]]
    /\ issued' = Append(issued, r)
    /\ rivals' = [rivals EXCEPT ![r] = {q \in Requests \ {r} : At(q, "issue")}]
    /\ Goto(r, "ok")
    /\ UNCHANGED <<user, sessionVars, ask, read, target, marks, crossed>>
-----------------------------------------------------------------------------
(* OtpService.verify, for verifyOtp and resetPassword *)

\* The record verify looks at: the latest open one.
IsLatest(k, type) ==
    \E i \in DOMAIN issued :
        /\ issued[i] = k /\ k \in OpenCodes(type)
        /\ \A j \in i + 1 .. Len(issued) : issued[j] \notin OpenCodes(type)

Usable(k) == record[k].left > 0 /\ record[k].attempts < OtpMaxAttempts

\* The request presents any code that was ever sent, or a wrong one.
Verify(r, a) ==
    /\ Asks(r, a)
    /\ a.op \in {"verify", "reset"}
    /\ \E code \in Codes \cup {WrongCode} :
          \/ /\ ~\E k \in Codes : IsLatest(k, TypeOf(a.op)) /\ Usable(k)
             /\ Goto(r, "refused")
             /\ UNCHANGED <<target, wrongGuesses, accepted>>
          \/ \E k \in Codes :
             /\ IsLatest(k, TypeOf(a.op)) /\ Usable(k)
             /\ target' = [target EXCEPT ![r] = k]
             /\ IF code = k
                THEN /\ accepted' = [accepted EXCEPT ![k] = @ \cup {r}]
                     /\ Goto(r, "mark")
                     /\ UNCHANGED wrongGuesses
                ELSE /\ wrongGuesses' = [wrongGuesses EXCEPT ![k] = @ \cup {r}]
                     /\ Goto(r, "countGuess")
                     /\ UNCHANGED accepted
    /\ read' = [read EXCEPT ![r] = IF target'[r] = WrongCode THEN 0
                                   ELSE record[target'[r]].attempts]
    /\ UNCHANGED <<tables, wrongLogins, crossed, rivals>>

\* (slip) The count that was read, plus one, is written back.
CountedFromRead(r) == read[r] + 1

\* The database increments.
Counted(r) == record[target[r]].attempts + 1

CountGuess(r) ==
    /\ At(r, "countGuess")
    /\ record' = [record EXCEPT ![target[r]].attempts = Counted(r)]
    /\ Goto(r, "refused")
    /\ UNCHANGED <<user, issued, sessionVars, ask, read, target, aux>>

\* (slip) The code is not marked.
MarkedNot(r) == record

Marked(r) == [record EXCEPT ![target[r]].verified = TRUE]

Mark(r) ==
    /\ At(r, "mark")
    /\ record' = Marked(r)
    /\ Goto(r, IF ask[r].op = "verify" THEN "activate" ELSE "setPassword")
    /\ UNCHANGED <<user, issued, sessionVars, ask, read, target, aux>>

Activate(r) ==
    /\ At(r, "activate")
    /\ user' = [user EXCEPT !.status = "ACTIVE"]
    /\ Goto(r, "ok")
    /\ UNCHANGED <<record, issued, sessionVars, ask, read, target, aux>>
-----------------------------------------------------------------------------
(* resetPassword, changePassword *)

ChangePassword(r, a) ==
    /\ Asks(r, a)
    /\ a.op = "change"
    /\ \E n \in Requests : Accepted(n)
    /\ Goto(r, IF Exists /\ user.password = a.current THEN "setPassword" ELSE "refused")
    /\ UNCHANGED <<tables, read, target, aux>>

\* A reset also forgets the failures and the lock.
SetPassword(r) ==
    /\ At(r, "setPassword")
    /\ user' = IF ask[r].op = "reset"
               THEN [user EXCEPT !.password = ask[r].password, !.failed = 0, !.locked = 0]
               ELSE [user EXCEPT !.password = ask[r].password]
    /\ Goto(r, "revokeAll")
    /\ UNCHANGED <<record, issued, sessionVars, ask, read, target, aux>>

\* (slip) One session, the caller's own, is spared.
AllSessionsButOne == {n \in Requests : \E m \in Requests \ {n} : session[m].open}

AllSessions == Requests

RevokeAll(r) ==
    /\ At(r, "revokeAll")
    /\ Revoke(AllSessions)
    /\ crossed' = crossed \cup {n \in Requests : pc[n] \in {"writeSuccess", "openSession"}}
    /\ Goto(r, "ok")
    /\ UNCHANGED <<rows, token, ask, read, target, marks, rivals>>
-----------------------------------------------------------------------------
(* refresh, logout, revokeSession, revokeAllSessions *)

\* The refresh token of some session is presented.
Refresh(r, a) ==
    /\ Asks(r, a)
    /\ a.op = "refresh"
    /\ \E n \in Requests :
          IF Refreshable(n) /\ user.status = "ACTIVE"
          THEN target' = [target EXCEPT ![r] = n] /\ Goto(r, "signAccess")
          ELSE Goto(r, "refused") /\ UNCHANGED target
    /\ UNCHANGED <<tables, read, aux>>

\* The session may have been revoked since it was read.
RenewAccess(r) ==
    /\ At(r, "signAccess")
    /\ SignAccess(target[r])
    /\ Goto(r, "ok")
    /\ UNCHANGED <<rows, session, ask, read, target, aux>>

\* Whoever carries the access token of session n ends it, or any session of the account,
\* or all others.
EndSessions(r, a) ==
    /\ Asks(r, a)
    /\ \E n \in Requests :
          /\ Accepted(n)
          /\ \/ a.op = "logout" /\ Revoke({n}) /\ Goto(r, "ok")
             \/ a.op = "logoutOthers" /\ Revoke(Requests \ {n}) /\ Goto(r, "ok")
             \/ /\ a.op = "end"
                /\ \E m \in Requests :
                      /\ Revoke({m})
                      /\ Goto(r, IF session[m] = NoSession THEN "refused" ELSE "ok")
    /\ UNCHANGED <<rows, token, read, target, aux>>
-----------------------------------------------------------------------------
Tick ==
    /\ user' = [user EXCEPT !.locked = Less(@)]
    /\ record' = [k \in Requests |-> [record[k] EXCEPT !.left = Less(@)]]
    /\ AgeSessions
    /\ UNCHANGED <<issued, pc, ask, read, target, aux>>

Start(r, a) == \/ Register(r, a) \/ Login(r, a) \/ SendCode(r, a) \/ Verify(r, a)
               \/ ChangePassword(r, a) \/ Refresh(r, a) \/ EndSessions(r, a)

Step(r) == \/ CreateUser(r)
           \/ WriteFailure(r) \/ WriteSuccess(r) \/ OpenSession(r) \/ SignTokens(r)
           \/ RenewAccess(r)
           \/ Retire(r) \/ Issue(r)
           \/ CountGuess(r) \/ Mark(r) \/ Activate(r)
           \/ SetPassword(r) \/ RevokeAll(r)

Next == \/ \E r \in Requests : Step(r)
        \/ \E script \in Scripts, r \in Requests :
              At(r, "idle") /\ Follows(script) /\ \E a \in script[r] : Start(r, a)
        \/ Tick

Spec == Init /\ [][Next]_vars
-----------------------------------------------------------------------------
(* Properties *)

\* No wrong guess of a code is lost, however many requests guess at once: what the
\* record counts and what is on its way to be counted are all of them.
GuessesCounted ==
    \A k \in Requests :
        record[k].attempts
          + Cardinality({r \in Requests : At(r, "countGuess") /\ target[r] = k})
        = Cardinality(wrongGuesses[k])

\* A code is accepted twice only from requests that overlap: once one of them has
\* marked it, no later request gets through with it.
CodeSpentOnce ==
    [][\A k \in Requests, r, q \in Requests :
          r \in accepted'[k] \ accepted[k] /\ q \in accepted[k] => At(q, "mark")]_vars

\* Concurrent failures may be counted too low, never too high: an account is locked
\* only after as many wrong passwords as the limit says.
LockedOnlyAtLimit ==
    /\ user.failed <= wrongLogins
    /\ user.locked > 0 => wrongLogins >= MaxLoginAttempts

\* An open session that proved a password which is not the current one belongs to a
\* login that was under way while the sessions were revoked, or the request that
\* changed the password has not revoked them yet.
OldSessionsOverlap ==
    \A n \in Requests :
        session[n].open /\ session[n].proof # user.password
            => n \in crossed \/ \E r \in Requests : At(r, "revokeAll")

\* Two codes of one type are open only if they were created at the same time: one
\* request had retired the old codes before the other inserted its own.
OpenCodesOverlap ==
    \A i, j \in DOMAIN issued :
        /\ i < j
        /\ record[issued[i]].type = record[issued[j]].type
        /\ ~record[issued[i]].verified /\ ~record[issued[j]].verified
        => issued[j] \in rivals[issued[i]]

\* A session that listSessions shows can be refreshed, unless it is to be remembered:
\* then the row outlives the refresh token.
ListedIsRefreshable ==
    \A n \in Listed : ask[n].remember \/ At(n, "signTokens") \/ Refreshable(n)

\* The promise of the sessions: access comes from an open grant only, and what a grant
\* gives after its end was asked for before.
Contract == INSTANCE Access WITH
    grant <- [n \in Requests |-> IF session[n] = NoSession THEN "none"
                                 ELSE IF n \in Listed THEN "open" ELSE "ended"],
    access <- [n \in Requests |-> token[n].access],
    owed <- [n \in Requests |-> {r \in Requests : \/ At(r, "signTokens") /\ r = n
                                                  \/ At(r, "signAccess") /\ target[r] = n}]

ImplementsAccess == Contract!Spec
=============================================================================
