--------------------------- MODULE AccountProofs ----------------------------
(***************************************************************************)
(* Proofs about Account for every set of requests, whatever they ask, and  *)
(* every limit and time to live.                                           *)
(***************************************************************************)
EXTENDS Account, FiniteSetTheorems, TLAPS
-----------------------------------------------------------------------------
(* Types, and what a request knows of what it asks for.                    *)

\* An account keeps its status, and codes are sent to an account only.
Stored ==
    /\ user = NoAccount \/ user.status \in UserStatus
    /\ issued # <<>> => user # NoAccount

\* The request's question has what its next steps use, and its session is one that was
\* opened.
Errands ==
    /\ ask = [r \in Requests |-> ask[r]]
    /\ \A r \in Requests :
        /\ pc[r] \in {"createUser", "writeSuccess", "openSession", "setPassword"}
              => ask[r].password \in Passwords
        /\ pc[r] \in {"writeSuccess", "openSession"} => ask[r].remember \in BOOLEAN
        /\ pc[r] = "mark" => ask[r].op = "verify" \/ ask[r].password \in Passwords
        /\ pc[r] = "signAccess" => target[r] \in Requests

Types1 == TypeOK /\ Stored /\ Errands

-----------------------------------------------------------------------------
(* Rows.                                                                   *)

\* What is in a row of the account, and what makes one.
LEMMA UserRow ==
    /\ \A u \in UserRows : /\ u.status \in UserStatus \cup {"NONE"}
                           /\ u.password \in Passwords \cup {"none"}
                           /\ u.failed \in Nat
                           /\ u.locked \in Nat /\ u.locked <= LockTime
    /\ \A status \in UserStatus \cup {"NONE"}, password \in Passwords \cup {"none"},
          failed \in Nat, locked \in Nat :
          locked <= LockTime => [status |-> status, password |-> password,
                                 failed |-> failed, locked |-> locked] \in UserRows
  <1>1. LockTime \in Nat
    BY TimesAssumption
  <1>2. ASSUME NEW u \in UserRows
        PROVE  /\ u.status \in UserStatus \cup {"NONE"}
               /\ u.password \in Passwords \cup {"none"}
               /\ u.failed \in Nat
               /\ u.locked \in Nat /\ u.locked <= LockTime
    BY <1>1 DEF UserRows
  <1>3. ASSUME NEW status \in UserStatus \cup {"NONE"}, NEW password \in Passwords \cup {"none"},
               NEW failed \in Nat, NEW locked \in Nat, locked <= LockTime
        PROVE  [status |-> status, password |-> password,
                failed |-> failed, locked |-> locked] \in UserRows
    BY <1>1, <1>3 DEF UserRows
  <1> QED
    BY <1>2, <1>3

\* An update of some fields of the account's row.
LEMMA UserUpdate ==
    ASSUME NEW u \in UserRows
    PROVE  /\ \A password \in Passwords : [u EXCEPT !.password = password] \in UserRows
           /\ \A locked \in Nat : locked <= LockTime => [u EXCEPT !.locked = locked] \in UserRows
           /\ \A failed \in Nat, locked \in Nat :
                 locked <= LockTime
                    => [u EXCEPT !.failed = failed, !.locked = locked] \in UserRows
           /\ \A password \in Passwords :
                 [u EXCEPT !.password = password, !.failed = 0, !.locked = 0] \in UserRows
  <1>1. LockTime \in Nat
    BY TimesAssumption
  <1>2. \A password \in Passwords : [u EXCEPT !.password = password] \in UserRows
    BY <1>1 DEF UserRows
  <1>3. ASSUME NEW locked \in Nat, locked <= LockTime
        PROVE  [u EXCEPT !.locked = locked] \in UserRows
    BY <1>1, <1>3 DEF UserRows
  <1>4. ASSUME NEW failed \in Nat, NEW locked \in Nat, locked <= LockTime
        PROVE  [u EXCEPT !.failed = failed, !.locked = locked] \in UserRows
    <2>1. [u EXCEPT !.failed = failed] \in UserRows
      BY DEF UserRows
    <2>2. locked \in 0 .. LockTime
      BY <1>1, <1>4
    <2> QED
      BY <2>1, <2>2 DEF UserRows
  <1>5. ASSUME NEW password \in Passwords
        PROVE  [u EXCEPT !.password = password, !.failed = 0, !.locked = 0] \in UserRows
    <2>1. [u EXCEPT !.password = password] \in UserRows
      BY <1>5 DEF UserRows
    <2>2. [u EXCEPT !.password = password, !.failed = 0] \in UserRows
      BY <2>1 DEF UserRows
    <2>3. 0 \in 0 .. LockTime
      BY <1>1
    <2> QED
      BY <2>2, <2>3 DEF UserRows
  <1> QED
    BY <1>2, <1>3, <1>4, <1>5

\* An update of a field of a code's row.
LEMMA CodeUpdate ==
    ASSUME NEW c \in CodeRows
    PROVE  /\ c.type \in Types /\ c.verified \in BOOLEAN /\ c.attempts \in Nat
           /\ c.left \in Nat /\ c.left <= OtpTTL
           /\ [c EXCEPT !.verified = TRUE] \in CodeRows
           /\ [c EXCEPT !.left = Less(@)] \in CodeRows
           /\ \A n \in Nat : [c EXCEPT !.attempts = n] \in CodeRows
  <1>1. OtpTTL \in Nat
    BY TimesAssumption
  <1>2. c.type \in Types /\ c.verified \in BOOLEAN /\ c.attempts \in Nat
        /\ c.left \in Nat /\ c.left <= OtpTTL
    BY <1>1 DEF CodeRows
  <1>3. [c EXCEPT !.verified = TRUE] \in CodeRows
    BY <1>1 DEF CodeRows
  <1>4. Less(c.left) \in 0 .. OtpTTL
    BY <1>1, <1>2 DEF Less
  <1>5. [c EXCEPT !.left = Less(@)] \in CodeRows
    BY <1>4 DEF CodeRows
  <1>6. \A n \in Nat : [c EXCEPT !.attempts = n] \in CodeRows
    BY <1>1 DEF CodeRows
  <1> QED
    BY <1>2, <1>3, <1>5, <1>6
-----------------------------------------------------------------------------
(* Types, and what a request knows.                                        *)

\* An account to start from, or none, and requests that have asked nothing yet.
LEMMA InitTypes == Init => Types1
  <1> SUFFICES ASSUME Init PROVE Types1
    OBVIOUS
  <1>1. TablesOK
    <2>1. user \in UserRows
      <3>1. NoAccount \in UserRows
        <4>1. 0 \in 0 .. LockTime
          BY TimesAssumption
        <4> QED
          BY <4>1 DEF NoAccount, UserRows
      <3>2. CASE user # NoAccount
        <4>1. user \in [status : UserStatus, password : Passwords, failed : {0}, locked : {0}]
          BY <3>2, AccountsAssumption DEF Init
        <4>2. {0} \subseteq 0 .. LockTime
          BY TimesAssumption
        <4> QED
          BY <4>1, <4>2 DEF UserRows
      <3> QED
        BY <3>1, <3>2
    <2>2. NoCode \in CodeRows
      BY TimesAssumption DEF NoCode, CodeRows, Types
    <2>3. SessionsTypeOK
      <3>1. NoSession \in SessionRows /\ NoToken \in [access : Nat, refresh : Nat]
        BY DEF NoSession, NoToken, SessionRows
      <3> QED
        BY <3>1 DEF Init, SessionsInit, SessionsTypeOK
    <2> QED
      BY <2>1, <2>2, <2>3 DEF Init, TablesOK
  <1>2. RequestsOK /\ AuxOK /\ FoundOK
    BY ScriptsAssumption DEF Init, RequestsOK, AuxOK, FoundOK, Stages
  <1>3. Stored /\ Errands
    <2>1. user = NoAccount \/ user.status \in UserStatus
      BY AccountsAssumption DEF Init
    <2> QED
      BY <2>1 DEF Init, Stored, Errands
  <1> QED
    BY <1>1, <1>2, <1>3 DEF Types1, TypeOK

\* A request moves on; its question, and what it has read and found, stay.
LEMMA GotoTypes ==
    ASSUME RequestsOK, NEW r \in Requests, NEW where \in Stages, Goto(r, where),
           UNCHANGED <<ask, read, target>>
    PROVE  /\ RequestsOK'
           /\ \A q \in Requests : pc'[q] = IF q = r THEN where ELSE pc[q]
  BY DEF RequestsOK, Goto

\* The codes after one more has been sent.
LEMMA CodesGrow ==
    ASSUME issued \in Seq(Requests), NEW r \in Requests, issued' = Append(issued, r)
    PROVE  Codes' = Codes \cup {r}
  <1>1. Len(issued) \in Nat
    OBVIOUS
  <1>2. /\ DOMAIN issued' = 1 .. (Len(issued) + 1)
        /\ \A i \in DOMAIN issued : issued'[i] = issued[i]
        /\ issued'[Len(issued) + 1] = r
    OBVIOUS
  <1> QED
    BY <1>1, <1>2 DEF Codes

\* What the account's row and the requests' memory need for a step that moves one request
\* on, and asks nothing of it that an arrival would have to provide.
LEMMA MoveTypes ==
    ASSUME Types1, NEW r \in Requests, NEW where \in Stages, Goto(r, where),
           UNCHANGED <<ask, read, target>>, TablesOK', AuxOK',
           where \notin {"idle", "createUser", "countGuess", "mark", "signAccess"},
           user' = NoAccount \/ user'.status \in UserStatus,
           user # NoAccount \/ issued' # <<>> \/ where \notin {"ok", "refused"}
               => user' # NoAccount,
           Codes \subseteq Codes',
           where \in {"writeSuccess", "openSession", "setPassword"}
               => ask[r].password \in Passwords,
           where \in {"writeSuccess", "openSession"} => ask[r].remember \in BOOLEAN
    PROVE  Types1'
  <1>1. /\ RequestsOK'
        /\ \A q \in Requests : pc'[q] = IF q = r THEN where ELSE pc[q]
    BY GotoTypes DEF Types1, TypeOK
  <1>2. FoundOK'
    BY <1>1 DEF Types1, TypeOK, FoundOK
  <1>3. Stored'
    BY DEF Stored
  <1>4. Errands'
    BY <1>1 DEF Types1, Errands
  <1> QED
    BY <1>1, <1>2, <1>3, <1>4 DEF Types1, TypeOK

\* The steps that write the account.
LEMMA UserStepTypes ==
    ASSUME Types1, NEW r \in Requests,
           \/ CreateUser(r) \/ WriteFailure(r) \/ WriteSuccess(r) \/ Activate(r)
           \/ SetPassword(r)
    PROVE  Types1'
  <1>1. user \in UserRows /\ LockTime \in Nat
    BY TimesAssumption DEF Types1, TypeOK, TablesOK
  <1>2. UNCHANGED <<record, issued, sessionVars, ask, read, target>> /\ Codes' = Codes
    BY DEF CreateUser, WriteFailure, WriteSuccess, Activate, SetPassword, Codes, aux
  <1>3. ASSUME user' \in UserRows
        PROVE  TablesOK'
    BY <1>2, <1>3 DEF Types1, TypeOK, TablesOK, SessionsTypeOK, sessionVars
  <1>4. AuxOK'
    BY DEF Types1, TypeOK, AuxOK, CreateUser, WriteFailure, WriteSuccess, Activate,
           SetPassword, aux, marks
  <1>5. CASE CreateUser(r)
    <2>1. ask[r].password \in Passwords
      BY <1>5 DEF CreateUser, At, Types1, Errands
    <2>2. CASE Exists
      <3>1. Goto(r, "refused") /\ UNCHANGED user
        BY <1>5, <2>2 DEF CreateUser
      <3> QED
        BY <1>1, <1>2, <1>3, <1>4, <2>2, <3>1, MoveTypes
           DEF Stages, Exists, Types1, Stored
    <2>3. CASE ~Exists
      <3>1. /\ user' = [NoAccount EXCEPT !.status = "PENDING", !.password = ask[r].password]
            /\ Goto(r, "retire")
        BY <1>5, <2>3 DEF CreateUser
      <3>2. user' = [status |-> "PENDING", password |-> ask[r].password,
                     failed |-> 0, locked |-> 0]
        BY <3>1 DEF NoAccount
      <3>3. user' \in UserRows
        BY <1>1, <2>1, <3>2, UserRow DEF UserStatus
      <3>4. user'.status \in UserStatus /\ user' # NoAccount
        BY <3>2 DEF UserStatus, NoAccount
      <3> QED
        BY <1>2, <1>3, <1>4, <3>1, <3>3, <3>4, MoveTypes DEF Stages
    <2> QED
      BY <2>2, <2>3
  <1>6. CASE WriteFailure(r)
    <2>1. user # NoAccount /\ read[r] + 1 \in Nat
      BY <1>6 DEF WriteFailure, At, Types1, TypeOK, FoundOK, RequestsOK
    <2>2. PICK locked \in Nat : /\ locked <= LockTime
                                /\ user' = [user EXCEPT !.failed = read[r] + 1,
                                                        !.locked = locked]
                                /\ Goto(r, "refused")
      <3>1. 0 \in Nat /\ 0 <= LockTime /\ LockTime <= LockTime
        BY <1>1
      <3> QED
        BY <1>1, <1>6, <3>1 DEF WriteFailure
    <2>3. user' \in UserRows
      BY <1>1, <2>1, <2>2, UserUpdate
    <2>4. user'.status \in UserStatus /\ user' # NoAccount
      BY <1>1, <2>1, <2>2 DEF Types1, Stored, UserRows, UserStatus, NoAccount
    <2> QED
      BY <1>2, <1>3, <1>4, <2>2, <2>3, <2>4, MoveTypes DEF Stages
  <1>7. CASE WriteSuccess(r)
    <2>1. user # NoAccount /\ ask[r].password \in Passwords /\ ask[r].remember \in BOOLEAN
      BY <1>7 DEF WriteSuccess, At, Types1, TypeOK, FoundOK, Errands
    <2>2. user' = [user EXCEPT !.failed = 0, !.locked = 0] /\ Goto(r, "openSession")
      BY <1>7 DEF WriteSuccess
    <2>3. user' \in UserRows
      <3>1. 0 \in Nat /\ 0 <= LockTime
        BY <1>1
      <3> QED
        BY <1>1, <2>2, <3>1, UserUpdate
    <2>4. user'.status \in UserStatus /\ user' # NoAccount
      BY <1>1, <2>1, <2>2 DEF Types1, Stored, UserRows, UserStatus, NoAccount
    <2> QED
      BY <1>2, <1>3, <1>4, <2>1, <2>2, <2>3, <2>4, MoveTypes DEF Stages
  <1>8. CASE Activate(r)
    <2>1. user # NoAccount
      BY <1>8 DEF Activate, At, Types1, TypeOK, FoundOK
    <2>2. user' = [user EXCEPT !.status = "ACTIVE"] /\ Goto(r, "ok")
      BY <1>8 DEF Activate
    <2>3. user' \in UserRows /\ user'.status \in UserStatus /\ user' # NoAccount
      BY <1>1, <2>1, <2>2 DEF UserRows, UserStatus, NoAccount
    <2> QED
      BY <1>2, <1>3, <1>4, <2>2, <2>3, MoveTypes DEF Stages
  <1>9. CASE SetPassword(r)
    <2>1. user # NoAccount /\ ask[r].password \in Passwords
      BY <1>9 DEF SetPassword, At, Types1, TypeOK, FoundOK, Errands
    <2>2. /\ \/ user' = [user EXCEPT !.password = ask[r].password]
             \/ user' = [user EXCEPT !.password = ask[r].password, !.failed = 0, !.locked = 0]
          /\ Goto(r, "revokeAll")
      BY <1>9 DEF SetPassword
    <2>3. user' \in UserRows
      BY <1>1, <2>1, <2>2, UserUpdate
    <2>4. user'.status \in UserStatus /\ user' # NoAccount
      <3>1. user.status \in UserStatus
        BY <2>1 DEF Types1, Stored
      <3>2. user'.status = user.status
        BY <1>1, <2>2 DEF UserRows
      <3> QED
        BY <3>1, <3>2 DEF UserStatus, NoAccount
    <2> QED
      BY <1>2, <1>3, <1>4, <2>2, <2>3, <2>4, MoveTypes DEF Stages
  <1> QED
    BY <1>5, <1>6, <1>7, <1>8, <1>9

\* The steps that write codes.
LEMMA CodeStepTypes ==
    ASSUME Types1, NEW r \in Requests,
           Retire(r) \/ Issue(r) \/ CountGuess(r) \/ Mark(r)
    PROVE  Types1'
  <1>1. /\ record \in [Requests -> CodeRows] /\ issued \in Seq(Requests)
        /\ ask[r] \in Asked \cup {Nothing}
    BY ScriptsAssumption DEF Types1, TypeOK, TablesOK, RequestsOK
  <1>2. user # NoAccount /\ user.status \in UserStatus
    BY DEF Retire, Issue, CountGuess, Mark, At, Types1, TypeOK, FoundOK, Stored
  <1>3. UNCHANGED <<user, sessionVars, ask, read, target>>
    BY DEF Retire, Issue, CountGuess, Mark
  <1>4. ASSUME record' \in [Requests -> CodeRows], issued' \in Seq(Requests)
        PROVE  TablesOK'
    BY <1>3, <1>4 DEF Types1, TypeOK, TablesOK, SessionsTypeOK, sessionVars
  <1>5. CASE Retire(r)
    <2>1. record' \in [Requests -> CodeRows] /\ UNCHANGED <<issued, aux>> /\ Goto(r, "issue")
      BY <1>1, <1>5, CodeUpdate DEF Retire
    <2>2. AuxOK' /\ Codes' = Codes
      BY <2>1 DEF Types1, TypeOK, AuxOK, aux, marks, Codes
    <2> QED
      BY <1>1, <1>2, <1>3, <1>4, <2>1, <2>2, MoveTypes DEF Stages
  <1>6. CASE Issue(r)
    <2>1. [type |-> TypeOf(ask[r].op), verified |-> FALSE, attempts |-> 0, left |-> OtpTTL]
             \in CodeRows
      <3>1. OtpTTL \in 0 .. OtpTTL
        BY TimesAssumption
      <3> QED
        BY <3>1 DEF CodeRows, Types, TypeOf
    <2>2. record' \in [Requests -> CodeRows] /\ issued' \in Seq(Requests)
      BY <1>1, <1>6, <2>1 DEF Issue
    <2>3. Codes \subseteq Codes'
      BY <1>1, <1>6, CodesGrow DEF Issue
    <2>4. AuxOK'
      <3>1. {q \in Requests \ {r} : At(q, "issue")} \in SUBSET Requests
        OBVIOUS
      <3> QED
        BY <1>6, <3>1 DEF Issue, Types1, TypeOK, AuxOK, marks
    <2>5. Goto(r, "ok")
      BY <1>6 DEF Issue
    <2> QED
      BY <1>2, <1>3, <1>4, <2>2, <2>3, <2>4, <2>5, MoveTypes DEF Stages
  <1>7. CASE CountGuess(r)
    <2>1. target[r] \in Requests
      BY <1>1, <1>7 DEF CountGuess, At, Types1, TypeOK, FoundOK, Codes
    <2>2. record[target[r]] \in CodeRows
      BY <1>1, <2>1
    <2>3. Counted(r) \in Nat
      <3>1. record[target[r]].attempts \in Nat
        BY <2>2, CodeUpdate
      <3> QED
        BY <3>1 DEF Counted
    <2>4. [record[target[r]] EXCEPT !.attempts = Counted(r)] \in CodeRows
      BY <2>2, <2>3, CodeUpdate
    <2>5. record' \in [Requests -> CodeRows]
      BY <1>1, <1>7, <2>1, <2>4 DEF CountGuess
    <2>6. UNCHANGED <<issued, aux>> /\ Goto(r, "refused")
      BY <1>7 DEF CountGuess
    <2>7. AuxOK' /\ Codes' = Codes
      BY <2>6 DEF Types1, TypeOK, AuxOK, aux, marks, Codes
    <2> QED
      BY <1>1, <1>2, <1>3, <1>4, <2>5, <2>6, <2>7, MoveTypes DEF Stages
  <1>8. CASE Mark(r)
    <2>1. target[r] \in Requests /\ (ask[r].op = "verify" \/ ask[r].password \in Passwords)
      BY <1>1, <1>8 DEF Mark, At, Types1, TypeOK, FoundOK, Codes, Errands
    <2>2. [record[target[r]] EXCEPT !.verified = TRUE] \in CodeRows
      BY <1>1, <2>1, CodeUpdate
    <2>3. record' \in [Requests -> CodeRows]
      BY <1>1, <1>8, <2>1, <2>2 DEF Mark, Marked
    <2>4. PICK where \in {"activate", "setPassword"} :
             /\ Goto(r, where)
             /\ where = "setPassword" => ask[r].password \in Passwords
      BY <1>8, <2>1 DEF Mark
    <2>5. UNCHANGED <<issued, aux>>
      BY <1>8 DEF Mark
    <2>6. AuxOK' /\ Codes' = Codes
      BY <2>5 DEF Types1, TypeOK, AuxOK, aux, marks, Codes
    <2> QED
      BY <1>1, <1>2, <1>3, <1>4, <2>3, <2>4, <2>5, <2>6, MoveTypes DEF Stages
  <1> QED
    BY <1>5, <1>6, <1>7, <1>8

\* Sessions that are revoked, or grow older, keep the shape of their rows.
LEMMA SessionUpdate ==
    ASSUME NEW s \in SessionRows
    PROVE  /\ s.open \in BOOLEAN /\ s.proof \in Passwords \cup {"none"} /\ s.left \in Nat
           /\ [s EXCEPT !.open = FALSE] \in SessionRows
           /\ [s EXCEPT !.left = Less(@)] \in SessionRows
  <1>1. s.open \in BOOLEAN /\ s.proof \in Passwords \cup {"none"} /\ s.left \in Nat
    BY DEF SessionRows
  <1>2. [s EXCEPT !.open = FALSE] \in SessionRows
    BY DEF SessionRows
  <1>3. Less(s.left) \in Nat
    BY <1>1 DEF Less
  <1>4. [s EXCEPT !.left = Less(@)] \in SessionRows
    BY <1>3 DEF SessionRows
  <1> QED
    BY <1>1, <1>2, <1>4

\* Ending sessions keeps their types.
LEMMA RevokeTypes ==
    ASSUME SessionsTypeOK, NEW ended, Revoke(ended), UNCHANGED token
    PROVE  SessionsTypeOK'
  BY SessionUpdate DEF SessionsTypeOK, Revoke

\* The steps that write sessions and tokens.
LEMMA SessionStepTypes ==
    ASSUME Types1, NEW r \in Requests,
           OpenSession(r) \/ SignTokens(r) \/ RenewAccess(r) \/ RevokeAll(r)
    PROVE  Types1'
  <1>1. SessionsTypeOK /\ user # NoAccount /\ user.status \in UserStatus
    BY DEF OpenSession, SignTokens, RenewAccess, RevokeAll, At, Types1, TypeOK, TablesOK,
           FoundOK, Stored
  <1>2. UNCHANGED <<rows, ask, read, target, marks, rivals>> /\ Codes' = Codes
    BY DEF OpenSession, SignTokens, RenewAccess, RevokeAll, aux, rows, Codes
  <1>3. ASSUME SessionsTypeOK'
        PROVE  TablesOK'
    BY <1>2, <1>3 DEF Types1, TypeOK, TablesOK, rows
  <1>4. AuxOK'
    <2>1. crossed' \subseteq Requests
      BY DEF OpenSession, SignTokens, RenewAccess, RevokeAll, aux, Types1, TypeOK, AuxOK
    <2> QED
      BY <1>2, <2>1 DEF Types1, TypeOK, AuxOK, marks
  <1>5. \A life \in {AccessTTL, RefreshTTL, ShortTTL, LongTTL} : life \in Nat
    BY LifetimesAssumption
  <1>6. CASE OpenSession(r)
    <2>1. ask[r].password \in Passwords /\ Lifetime(ask[r].remember) \in Nat
      BY <1>5, <1>6 DEF OpenSession, At, Types1, Errands, Lifetime
    <2>2. [open |-> TRUE, proof |-> ask[r].password, left |-> Lifetime(ask[r].remember)]
             \in SessionRows
      BY <2>1 DEF SessionRows
    <2>3. SessionsTypeOK'
      BY <1>1, <1>6, <2>2 DEF OpenSession, OpenRow, SessionsTypeOK
    <2>4. Goto(r, "signTokens")
      BY <1>6 DEF OpenSession
    <2> QED
      BY <1>1, <1>2, <1>3, <1>4, <2>3, <2>4, MoveTypes DEF Stages, rows
  <1>7. CASE SignTokens(r)
    <2>1. SessionsTypeOK'
      BY <1>1, <1>5, <1>7 DEF SignTokens, SignBoth, SessionsTypeOK
    <2>2. Goto(r, "ok")
      BY <1>7 DEF SignTokens
    <2> QED
      BY <1>1, <1>2, <1>3, <1>4, <2>1, <2>2, MoveTypes DEF Stages, rows
  <1>8. CASE RenewAccess(r)
    <2>1. SessionsTypeOK'
      BY <1>1, <1>5, <1>8 DEF RenewAccess, SignAccess, SessionsTypeOK
    <2>2. Goto(r, "ok")
      BY <1>8 DEF RenewAccess
    <2> QED
      BY <1>1, <1>2, <1>3, <1>4, <2>1, <2>2, MoveTypes DEF Stages, rows
  <1>9. CASE RevokeAll(r)
    <2>1. SessionsTypeOK'
      BY <1>1, <1>9, RevokeTypes DEF RevokeAll
    <2>2. Goto(r, "ok")
      BY <1>9 DEF RevokeAll
    <2> QED
      BY <1>1, <1>2, <1>3, <1>4, <2>1, <2>2, MoveTypes DEF Stages, rows
  <1> QED
    BY <1>6, <1>7, <1>8, <1>9
-----------------------------------------------------------------------------
(* Arrivals.                                                               *)

\* What the arrival of a request does, whatever it asks: it moves on, remembers its question,
\* what it has read and what it has found, and may have sessions end.
Arrives(r, a, where) ==
    /\ pc[r] = "idle"
    /\ Goto(r, where)
    /\ ask' = [ask EXCEPT ![r] = a]
    /\ UNCHANGED <<rows, token, wrongLogins, crossed, rivals>>
    /\ \E ended \in SUBSET Requests : Revoke(ended)
    /\ where \in {"refused", "ok"} \/ UNCHANGED session
    /\ \E attempts \in Nat : read' = [read EXCEPT ![r] = attempts]
    /\ \E k \in Requests \cup {WrongCode} : target' = [target EXCEPT ![r] = k]
    /\ wrongGuesses' = IF where = "countGuess"
                       THEN [wrongGuesses EXCEPT ![target'[r]] = @ \cup {r}]
                       ELSE wrongGuesses
    /\ accepted' = IF where = "mark" THEN [accepted EXCEPT ![target'[r]] = @ \cup {r}]
                                     ELSE accepted

\* Where it goes, and what that tells of its question and of what it has found.
ArrivesAt(r, a, where) ==
    \/ where \in {"refused", "ok"}
    \/ where = "createUser" /\ a.op = "register"
    \/ where = "retire" /\ user # NoAccount
    \/ where = "writeFailure" /\ user # NoAccount /\ read'[r] = user.failed
    \/ where = "writeSuccess" /\ user # NoAccount /\ a.op = "login" /\ a.password = user.password
    \/ /\ where \in {"countGuess", "mark"}
       /\ a.op \in {"verify", "reset"}
       /\ target'[r] \in Codes /\ ~record[target'[r]].verified
    \/ where = "setPassword" /\ user # NoAccount /\ a.op = "change"
    \/ where = "signAccess" /\ user # NoAccount /\ target'[r] \in Listed

\* To revoke nothing is to leave the sessions alone.
LEMMA NothingRevoked ==
    ASSUME Types1, UNCHANGED session
    PROVE  \E ended \in SUBSET Requests : Revoke(ended)
  <1>1. Revoke({})
    BY DEF Types1, TypeOK, TablesOK, SessionsTypeOK, Revoke
  <1> QED
    BY <1>1

\* Every operation starts as an arrival.
LEMMA StartArrives ==
    ASSUME Types1, NEW r \in Requests, NEW a \in Asked, Start(r, a)
    PROVE  \E where \in Stages \ {"idle"} : Arrives(r, a, where) /\ ArrivesAt(r, a, where)
  <1>1. /\ read \in [Requests -> Nat] /\ target \in [Requests -> Requests \cup {WrongCode}]
        /\ pc[r] = "idle" /\ ask' = [ask EXCEPT ![r] = a]
    BY DEF Types1, TypeOK, RequestsOK, Start, Register, Login, SendCode, Verify,
           ChangePassword, Refresh, EndSessions, Asks, At
  <1>2. /\ UNCHANGED read => \E attempts \in Nat : read' = [read EXCEPT ![r] = attempts]
        /\ UNCHANGED target
              => \E k \in Requests \cup {WrongCode} : target' = [target EXCEPT ![r] = k]
    <2>1. read[r] \in Nat /\ read = [read EXCEPT ![r] = read[r]]
      BY <1>1
    <2>2. target[r] \in Requests \cup {WrongCode} /\ target = [target EXCEPT ![r] = target[r]]
      BY <1>1
    <2> QED
      BY <2>1, <2>2
  <1>3. ASSUME NEW where \in Stages \ {"idle", "countGuess", "mark"}, Goto(r, where),
               UNCHANGED <<tables, read, target, aux>>
        PROVE  Arrives(r, a, where)
    BY <1>1, <1>2, <1>3, NothingRevoked
       DEF Arrives, tables, sessionVars, aux, marks
  <1>4. CASE Register(r, a)
    <2>1. PICK where \in {"refused", "createUser"} : Goto(r, where)
      BY <1>4 DEF Register
    <2>2. Arrives(r, a, where)
      BY <1>3, <1>4, <2>1 DEF Register, Stages
    <2>3. ArrivesAt(r, a, where)
      BY <1>4, <2>1 DEF Register, ArrivesAt
    <2> QED
      BY <2>1, <2>2, <2>3 DEF Stages
  <1>5. CASE SendCode(r, a)
    <2>1. PICK where \in {"refused", "retire"} :
             Goto(r, where) /\ (where = "retire" => user # NoAccount)
      BY <1>5 DEF SendCode, Exists
    <2>2. Arrives(r, a, where)
      BY <1>3, <1>5, <2>1 DEF SendCode, Stages
    <2>3. ArrivesAt(r, a, where)
      BY <2>1 DEF ArrivesAt
    <2> QED
      BY <2>1, <2>2, <2>3 DEF Stages
  <1>6. CASE ChangePassword(r, a)
    <2>1. PICK where \in {"refused", "setPassword"} :
             Goto(r, where) /\ (where = "setPassword" => user # NoAccount)
      BY <1>6 DEF ChangePassword, Exists
    <2>2. Arrives(r, a, where)
      BY <1>3, <1>6, <2>1 DEF ChangePassword, Stages
    <2>3. ArrivesAt(r, a, where)
      BY <1>6, <2>1 DEF ChangePassword, ArrivesAt
    <2> QED
      BY <2>1, <2>2, <2>3 DEF Stages
  <1>7. CASE Login(r, a)
    <2>1. PICK where \in {"refused", "writeFailure", "writeSuccess"} :
             /\ Goto(r, where)
             /\ where \in {"writeFailure", "writeSuccess"} => user # NoAccount
             /\ where = "writeFailure" => read' = [read EXCEPT ![r] = user.failed]
             /\ where = "writeSuccess" => a.password = user.password
             /\ UNCHANGED read \/ read' = [read EXCEPT ![r] = user.failed]
      BY <1>7 DEF Login, Exists
    <2>2. user.failed \in Nat
      BY UserRow DEF Types1, TypeOK, TablesOK
    <2>3. UNCHANGED <<tables, target, aux>>
      BY <1>7 DEF Login
    <2>4. Arrives(r, a, where)
      BY <1>1, <1>2, <2>1, <2>2, <2>3, NothingRevoked
         DEF Arrives, tables, sessionVars, aux, marks
    <2>5. ArrivesAt(r, a, where)
      BY <1>1, <1>7, <2>1 DEF ArrivesAt, Login
    <2> QED
      BY <2>1, <2>4, <2>5 DEF Stages
  <1>8. CASE Verify(r, a)
    <2>1. a.op \in {"verify", "reset"} /\ UNCHANGED <<tables, wrongLogins, crossed, rivals>>
      BY <1>8 DEF Verify
    <2>2. \E k \in Requests \cup {WrongCode} : target' = [target EXCEPT ![r] = k]
      BY <1>2, <1>8 DEF Verify, Codes, Types1, TypeOK, TablesOK
    <2>3. \E attempts \in Nat : read' = [read EXCEPT ![r] = attempts]
      <3>1. target'[r] # WrongCode => record[target'[r]].attempts \in Nat
        BY <1>1, <2>2, CodeUpdate DEF Types1, TypeOK, TablesOK
      <3> QED
        BY <1>8, <3>1 DEF Verify
    <2>4. PICK where \in {"refused", "countGuess", "mark"} :
             /\ Goto(r, where)
             /\ where = "refused" => UNCHANGED <<wrongGuesses, accepted>>
             /\ where = "countGuess" =>
                   /\ wrongGuesses' = [wrongGuesses EXCEPT ![target'[r]] = @ \cup {r}]
                   /\ UNCHANGED accepted
             /\ where = "mark" =>
                   /\ accepted' = [accepted EXCEPT ![target'[r]] = @ \cup {r}]
                   /\ UNCHANGED wrongGuesses
             /\ where \in {"countGuess", "mark"} =>
                   target'[r] \in Codes /\ ~record[target'[r]].verified
      BY <1>1, <1>8 DEF Verify, IsLatest, OpenCodes
    <2>5. Arrives(r, a, where)
      BY <1>1, <2>1, <2>2, <2>3, <2>4, NothingRevoked DEF Arrives, tables, sessionVars
    <2>6. ArrivesAt(r, a, where)
      BY <2>1, <2>4 DEF ArrivesAt
    <2> QED
      BY <2>4, <2>5, <2>6 DEF Stages
  <1>9. CASE Refresh(r, a)
    <2>1. PICK where \in {"refused", "signAccess"} :
             /\ Goto(r, where)
             /\ where = "refused" => UNCHANGED target
             /\ where = "signAccess" =>
                   \E n \in Requests : /\ target' = [target EXCEPT ![r] = n]
                                       /\ n \in Listed
                                       /\ user.status = "ACTIVE"
      BY <1>9 DEF Refresh, Refreshable
    <2>2. UNCHANGED <<tables, read, aux>>
      BY <1>9 DEF Refresh
    <2>3. Arrives(r, a, where)
      BY <1>1, <1>2, <2>1, <2>2, NothingRevoked DEF Arrives, tables, sessionVars, aux, marks
    <2>4. ArrivesAt(r, a, where)
      BY <1>1, <2>1 DEF ArrivesAt, NoAccount
    <2> QED
      BY <2>1, <2>3, <2>4 DEF Stages
  <1>10. CASE EndSessions(r, a)
    <2>1. PICK where \in {"refused", "ok"} : Goto(r, where)
      BY <1>10 DEF EndSessions
    <2>2. \E ended \in SUBSET Requests : Revoke(ended)
      BY <1>10 DEF EndSessions
    <2>3. UNCHANGED <<rows, token, read, target, aux>>
      BY <1>10 DEF EndSessions
    <2>4. Arrives(r, a, where)
      BY <1>1, <1>2, <2>1, <2>2, <2>3 DEF Arrives, aux, marks
    <2>5. ArrivesAt(r, a, where)
      BY <2>1 DEF ArrivesAt
    <2> QED
      BY <2>1, <2>4, <2>5 DEF Stages
  <1> QED
    BY <1>4, <1>5, <1>6, <1>7, <1>8, <1>9, <1>10 DEF Start

\* A set of questions that some script allows, with one of its own added.
LEMMA ArrivalAsks ==
    ASSUME Types1, NEW script \in Scripts, Follows(script), NEW r \in Requests,
           NEW a \in script[r], ask' = [ask EXCEPT ![r] = a]
    PROVE  \E other \in Scripts : \A q \in Requests : ask'[q] \in other[q] \cup {Nothing}
  <1>1. \A q \in Requests : ask'[q] \in script[q] \cup {Nothing}
    BY DEF Types1, TypeOK, RequestsOK, Follows
  <1> QED
    BY <1>1

\* An arrival keeps the types, and knows what its next step needs.
LEMMA ArrivalTypes ==
    ASSUME Types1, NEW script \in Scripts, Follows(script), NEW r \in Requests,
           NEW a \in script[r], NEW where \in Stages \ {"idle"},
           Arrives(r, a, where), ArrivesAt(r, a, where)
    PROVE  Types1'
  <1>1. a \in Asked
    BY ScriptsAssumption
  <1>2. TablesOK'
    BY RevokeTypes DEF Arrives, Types1, TypeOK, TablesOK, SessionsTypeOK, rows
  <1>3. /\ pc' \in [Requests -> Stages]
        /\ \A q \in Requests : /\ pc'[q] = IF q = r THEN where ELSE pc[q]
                               /\ q # r => ask'[q] = ask[q] /\ target'[q] = target[q]
        /\ target' \in [Requests -> Requests \cup {WrongCode}]
        /\ read' \in [Requests -> Nat]
    BY DEF Arrives, Goto, Types1, TypeOK, RequestsOK
  <1>4. ask'[r] = a
    BY DEF Arrives, Types1, Errands
  <1>5. RequestsOK'
    BY <1>3, ArrivalAsks DEF RequestsOK, Arrives
  <1>6. AuxOK'
    <2>1. where \in {"countGuess", "mark"} => target'[r] \in Requests
      BY DEF ArrivesAt, Codes, Types1, TypeOK, TablesOK
    <2>2. wrongGuesses' \in [Requests -> SUBSET Requests]
      BY <2>1 DEF Arrives, Types1, TypeOK, AuxOK
    <2>3. accepted' \in [Requests -> SUBSET Requests]
      BY <2>1 DEF Arrives, Types1, TypeOK, AuxOK
    <2> QED
      BY <2>2, <2>3 DEF Arrives, Types1, TypeOK, AuxOK
  <1>7. UNCHANGED <<user, issued>> /\ Codes' = Codes
    BY DEF Arrives, rows, Codes
  <1>8. FoundOK'
    <2>1. ASSUME where \notin {"createUser", "refused", "ok"}
          PROVE  user # NoAccount
      <3>1. issued # <<>> => user # NoAccount
        BY DEF Types1, Stored
      <3>2. Codes # {} => issued # <<>>
        BY DEF Codes
      <3> QED
        BY <2>1, <3>1, <3>2 DEF ArrivesAt
    <2>2. where \in {"countGuess", "mark"} => target'[r] \in Codes
      BY DEF ArrivesAt
    <2> QED
      BY <1>3, <1>7, <2>1, <2>2 DEF FoundOK, Types1, TypeOK
  <1>9. Stored'
    BY <1>7 DEF Stored, Types1
  <1>10. Errands'
    <2>1. ask' = [q \in Requests |-> ask'[q]]
      BY DEF Arrives, Types1, Errands
    <2>2. /\ where \in {"createUser", "writeSuccess", "openSession", "setPassword"}
                => a.password \in Passwords
          /\ where \in {"writeSuccess", "openSession"} => a.remember \in BOOLEAN
      BY <1>1 DEF ArrivesAt, Asked, RegisterDto, LoginDto, ResetPasswordDto, ChangePasswordDto
    <2>3. where = "mark" => a.op = "verify" \/ a.password \in Passwords
      BY <1>1 DEF ArrivesAt, Asked, RegisterDto, LoginDto, ResetPasswordDto, ChangePasswordDto
    <2>4. where = "signAccess" => target'[r] \in Requests
      BY DEF ArrivesAt, Listed
    <2> QED
      BY <1>3, <1>4, <2>1, <2>2, <2>3, <2>4 DEF Errands, Types1
  <1> QED
    BY <1>2, <1>5, <1>6, <1>8, <1>9, <1>10 DEF Types1, TypeOK

\* Time passes.
LEMMA TickTypes ==
    ASSUME Types1, Tick
    PROVE  Types1'
  <1>1. user \in UserRows /\ record \in [Requests -> CodeRows] /\ SessionsTypeOK
    BY DEF Types1, TypeOK, TablesOK
  <1>2. Less(user.locked) \in Nat /\ Less(user.locked) <= LockTime
    <2>1. user.locked \in Nat /\ user.locked <= LockTime /\ LockTime \in Nat
      BY <1>1, UserRow, TimesAssumption
    <2> QED
      BY <2>1 DEF Less
  <1>3. user' = [user EXCEPT !.locked = Less(user.locked)]
    BY DEF Tick
  <1>4. user' \in UserRows
    BY <1>1, <1>2, <1>3, UserUpdate
  <1>5. user # NoAccount => user' # NoAccount /\ user'.status \in UserStatus
    <2>1. user # NoAccount => user.status \in UserStatus
      BY DEF Types1, Stored
    <2>2. user'.status = user.status
      BY <1>1, <1>3 DEF UserRows
    <2> QED
      BY <2>1, <2>2 DEF UserStatus, NoAccount
  <1>6. user = NoAccount => user' = NoAccount
    BY <1>3 DEF NoAccount, Less
  <1>7. record' \in [Requests -> CodeRows]
    BY <1>1, CodeUpdate DEF Tick
  <1>8. SessionsTypeOK'
    <2>1. session' \in [Requests -> SessionRows]
      BY <1>1, SessionUpdate DEF Tick, AgeSessions, SessionsTypeOK
    <2>2. \A n \in Requests : Less(token[n].access) \in Nat /\ Less(token[n].refresh) \in Nat
      BY <1>1 DEF SessionsTypeOK, Less
    <2>3. token' \in [Requests -> [access : Nat, refresh : Nat]]
      BY <2>2 DEF Tick, AgeSessions
    <2> QED
      BY <2>1, <2>3 DEF SessionsTypeOK
  <1>9. UNCHANGED <<issued, pc, ask, read, target, aux>> /\ Codes' = Codes
    BY DEF Tick, Codes
  <1>10. TablesOK'
    BY <1>4, <1>7, <1>8, <1>9 DEF TablesOK, Types1, TypeOK
  <1>11. RequestsOK' /\ AuxOK' /\ Errands'
    BY <1>9 DEF RequestsOK, AuxOK, Errands, aux, marks, Types1, TypeOK
  <1>12. FoundOK' /\ Stored'
    BY <1>5, <1>6, <1>9 DEF FoundOK, Stored, Types1, TypeOK
  <1> QED
    BY <1>10, <1>11, <1>12 DEF Types1, TypeOK

\* Nothing happens.
LEMMA StutterTypes ==
    ASSUME Types1, UNCHANGED vars
    PROVE  Types1'
  BY DEF Types1, TypeOK, TablesOK, SessionsTypeOK, RequestsOK, AuxOK, FoundOK, Stored, Errands,
         Codes, vars, tables, rows, sessionVars, aux, marks

\* Types and errands are an inductive invariant.
LEMMA NextTypes == Types1 /\ [Next]_vars => Types1'
  <1> SUFFICES ASSUME Types1, [Next]_vars PROVE Types1'
    OBVIOUS
  <1>1. ASSUME NEW r \in Requests, Step(r) PROVE Types1'
    BY <1>1, UserStepTypes, CodeStepTypes, SessionStepTypes DEF Step
  <1>2. ASSUME NEW script \in Scripts, NEW r \in Requests, Follows(script),
               NEW a \in script[r], Start(r, a)
        PROVE  Types1'
    <2>1. a \in Asked
      BY ScriptsAssumption
    <2> QED
      BY <1>2, <2>1, StartArrives, ArrivalTypes
  <1> QED
    BY <1>1, <1>2, TickTypes, StutterTypes DEF Next

\* Every variable keeps its type and range, and a request that writes to the account or to a
\* code has found it: neither is ever gone again, whoever else is at work.
THEOREM TypeCorrect == Spec => []TypeOK
  <1>1. Types1 => TypeOK
    BY DEF Types1
  <1> QED
    BY <1>1, InitTypes, NextTypes, PTL DEF Spec
-----------------------------------------------------------------------------
(* Steps, for the invariants that follow.                                  *)

\* A step moves its request on, which keeps its question and what it has read and found.
LEMMA StepMoves ==
    ASSUME Types1, NEW r \in Requests, Step(r)
    PROVE  \E where \in Stages :
              /\ Goto(r, where)
              /\ where \notin {"idle", "createUser", "writeFailure", "writeSuccess",
                               "countGuess", "mark", "signAccess"}
              /\ where = "retire" => pc[r] = "createUser"
              /\ where = "issue" => pc[r] = "retire" /\ Retire(r)
              /\ where = "openSession" => pc[r] = "writeSuccess"
              /\ where = "signTokens" => OpenSession(r)
              /\ where = "revokeAll" => SetPassword(r)
              /\ pc[r] = "revokeAll" => RevokeAll(r)
              /\ pc[r] = "mark" => Mark(r)
              /\ pc[r] \notin {"idle", "ok", "refused"}
              /\ UNCHANGED <<ask, read, target, wrongGuesses, accepted>>
  <1>1. CASE CreateUser(r) \/ WriteFailure(r) \/ WriteSuccess(r) \/ OpenSession(r)
    BY <1>1 DEF CreateUser, WriteFailure, WriteSuccess, OpenSession, At, aux, marks, Stages
  <1>2. CASE SignTokens(r) \/ RenewAccess(r) \/ Retire(r) \/ Issue(r)
    BY <1>2 DEF SignTokens, RenewAccess, Retire, Issue, At, aux, marks, Stages
  <1>3. CASE CountGuess(r) \/ Mark(r) \/ Activate(r)
    BY <1>3 DEF CountGuess, Mark, Activate, At, aux, marks, Stages
  <1>4. CASE SetPassword(r) \/ RevokeAll(r)
    BY <1>4 DEF SetPassword, RevokeAll, At, aux, marks, Stages
  <1> QED
    BY <1>1, <1>2, <1>3, <1>4 DEF Step

\* Every step of the specification is a request's step, an arrival, or the clock's.
LEMMA NextCases ==
    ASSUME Types1, [Next]_vars
    PROVE  \/ \E r \in Requests : Step(r)
           \/ \E r \in Requests, a \in Asked, where \in Stages \ {"idle"} :
                 Arrives(r, a, where) /\ ArrivesAt(r, a, where)
           \/ Tick
           \/ UNCHANGED vars
  <1>1. ASSUME NEW script \in Scripts, NEW r \in Requests, NEW a \in script[r], Start(r, a)
        PROVE  a \in Asked /\ \E where \in Stages \ {"idle"} :
                                 Arrives(r, a, where) /\ ArrivesAt(r, a, where)
    <2>1. a \in Asked
      BY ScriptsAssumption
    <2> QED
      BY <1>1, <2>1, StartArrives
  <1> QED
    BY <1>1 DEF Next

\* The numbers are what they should be, to compute with.
LEMMA Numbers ==
    ASSUME Types1
    PROVE  /\ user.failed \in Nat /\ user.locked \in Nat /\ wrongLogins \in Nat
           /\ read \in [Requests -> Nat] /\ pc \in [Requests -> Stages]
           /\ MaxLoginAttempts \in Nat
  BY UserRow, AttemptsAssumption DEF Types1, TypeOK, TablesOK, RequestsOK, AuxOK
-----------------------------------------------------------------------------
(* Lock-out.                                                               *)

\* The lock-out, and what a login that will fail has read: never more failures than there
\* were.
Failures ==
    /\ LockedOnlyAtLimit
    /\ \A r \in Requests : pc[r] = "writeFailure" => read[r] <= wrongLogins

\* Failures is preserved: a failed login counts from what it has read, which was true then.
LEMMA NextFailures ==
    ASSUME Types1, Failures, [Next]_vars
    PROVE  Failures'
  <1>1. ASSUME NEW r \in Requests, WriteFailure(r) PROVE Failures'
    <2>1. /\ read[r] <= wrongLogins /\ wrongLogins' = wrongLogins + 1 /\ read' = read
          /\ Goto(r, "refused")
      BY <1>1 DEF WriteFailure, At, Failures
    <2>2. user \in UserRows
      BY DEF Types1, TypeOK, TablesOK
    <2>3. /\ user'.failed = read[r] + 1
          /\ user'.locked = IF ShouldLock(read[r] + 1) THEN LockTime ELSE 0
      BY <1>1, <2>2 DEF WriteFailure, UserRows
    <2>4. LockedOnlyAtLimit'
      BY <2>1, <2>3, Numbers DEF LockedOnlyAtLimit, ShouldLock
    <2>5. \A q \in Requests : pc'[q] = "writeFailure" => read'[q] <= wrongLogins'
      BY <2>1, Numbers DEF Failures, Goto
    <2> QED
      BY <2>4, <2>5 DEF Failures
  <1>2. ASSUME NEW r \in Requests, Step(r), ~WriteFailure(r) PROVE Failures'
    <2>1. user' = user \/ user' = [user EXCEPT !.failed = 0, !.locked = 0]
          \/ (\E x : user' = [user EXCEPT !.status = x])
          \/ (\E x : user' = [user EXCEPT !.password = x])
          \/ (\E x : user' = [user EXCEPT !.password = x, !.failed = 0, !.locked = 0])
          \/ (\E x, y : user' = [NoAccount EXCEPT !.status = x, !.password = y])
      BY <1>2 DEF Step, CreateUser, WriteSuccess, OpenSession, SignTokens, RenewAccess, Retire,
                  Issue, CountGuess, Mark, Activate, SetPassword, RevokeAll, rows
    <2>2. user \in UserRows
      BY DEF Types1, TypeOK, TablesOK
    <2>3. user'.failed \in {user.failed, 0} /\ user'.locked \in {user.locked, 0}
      BY <2>1, <2>2 DEF UserRows, NoAccount
    <2>4. wrongLogins' = wrongLogins
      BY <1>2 DEF Step, CreateUser, WriteSuccess, OpenSession, SignTokens, RenewAccess, Retire,
                  Issue, CountGuess, Mark, Activate, SetPassword, RevokeAll, aux, marks
    <2>5. LockedOnlyAtLimit'
      BY <2>3, <2>4, Numbers DEF LockedOnlyAtLimit, Failures
    <2>6. \A q \in Requests : pc'[q] = "writeFailure" => read'[q] <= wrongLogins'
      BY <1>2, <2>4, StepMoves, Numbers DEF Failures, Goto
    <2> QED
      BY <2>5, <2>6 DEF Failures
  <1>3. ASSUME NEW r \in Requests, NEW a \in Asked, NEW where \in Stages \ {"idle"},
               Arrives(r, a, where), ArrivesAt(r, a, where)
        PROVE  Failures'
    <2>1. user' = user /\ wrongLogins' = wrongLogins
      BY <1>3 DEF Arrives, rows
    <2>2. \A q \in Requests : pc'[q] = "writeFailure" => read'[q] <= wrongLogins'
      BY <1>3, <2>1, Numbers DEF Arrives, ArrivesAt, Failures, LockedOnlyAtLimit, Goto
    <2> QED
      BY <2>1, <2>2 DEF Failures, LockedOnlyAtLimit
  <1>4. CASE Tick
    <2>1. user \in UserRows
      BY DEF Types1, TypeOK, TablesOK
    <2>2. user'.failed = user.failed /\ user'.locked = Less(user.locked)
      BY <1>4, <2>1 DEF Tick, UserRows
    <2>3. UNCHANGED <<pc, read, wrongLogins>>
      BY <1>4 DEF Tick, aux, marks
    <2> QED
      BY <2>2, <2>3, Numbers DEF Failures, LockedOnlyAtLimit, Less
  <1>5. CASE UNCHANGED vars
    BY <1>5 DEF Failures, LockedOnlyAtLimit, vars, tables, rows, aux, marks
  <1> QED
    BY <1>1, <1>2, <1>3, <1>4, <1>5, NextCases

\* However the failures of concurrent logins overwrite each other, an account is locked only
\* after as many wrong passwords as the limit says, and never counts more than there were.
THEOREM LocksAtLimitOnly == Spec => []LockedOnlyAtLimit
  <1>1. Init => Failures
    BY InitTypes, Numbers, AccountsAssumption DEF Init, Failures, LockedOnlyAtLimit, NoAccount
  <1>2. Types1 /\ Failures /\ [Next]_vars => Failures'
    BY NextFailures
  <1>3. Failures => LockedOnlyAtLimit
    BY DEF Failures
  <1> QED
    BY <1>1, <1>2, <1>3, InitTypes, NextTypes, PTL DEF Spec
-----------------------------------------------------------------------------
(* Codes.                                                                  *)

\* Who may still issue a code has not issued one, and a code that was presented exists.
Fresh ==
    /\ \A r \in Requests : pc[r] \in {"idle", "createUser", "retire", "issue"} => r \notin Codes
    /\ \A k \in Requests : accepted[k] # {} \/ wrongGuesses[k] # {} => k \in Codes

\* Only an issue adds a code.
LEMMA CodesChange ==
    ASSUME Types1, NEW r \in Requests, Step(r)
    PROVE  /\ Issue(r) => Codes' = Codes \cup {r} /\ pc[r] = "issue" /\ Goto(r, "ok")
           /\ ~Issue(r) => Codes' = Codes /\ issued' = issued /\ rivals' = rivals
  <1>1. Issue(r) => Codes' = Codes \cup {r}
    BY CodesGrow DEF Issue, Types1, TypeOK, TablesOK
  <1>2. ~Issue(r) => issued' = issued /\ rivals' = rivals
    BY DEF Step, CreateUser, WriteFailure, WriteSuccess, OpenSession, SignTokens, RenewAccess,
           Retire, CountGuess, Mark, Activate, SetPassword, RevokeAll, rows, aux
  <1> QED
    BY <1>1, <1>2 DEF Issue, At, Codes

\* Fresh is preserved.
LEMMA NextFresh ==
    ASSUME Types1, Fresh, [Next]_vars
    PROVE  Fresh'
  <1>1. pc \in [Requests -> Stages]
    BY Numbers
  <1>2. ASSUME NEW r \in Requests, Step(r) PROVE Fresh'
    BY <1>1, <1>2, CodesChange, StepMoves DEF Fresh, Goto
  <1>3. ASSUME NEW r \in Requests, NEW a \in Asked, NEW where \in Stages \ {"idle"},
               Arrives(r, a, where), ArrivesAt(r, a, where)
        PROVE  Fresh'
    <2>1. Codes' = Codes
      BY <1>3 DEF Arrives, rows, Codes
    <2>2. /\ where = "mark" \/ accepted' = accepted
          /\ where = "countGuess" \/ wrongGuesses' = wrongGuesses
          /\ where \in {"mark", "countGuess"} => target'[r] \in Codes
      BY <1>3 DEF Arrives, ArrivesAt
    <2>3. \A k \in Requests \ {target'[r]} : /\ accepted'[k] = accepted[k]
                                             /\ wrongGuesses'[k] = wrongGuesses[k]
      BY <1>3 DEF Arrives, Types1, TypeOK, AuxOK
    <2>4. \A k \in Requests : accepted'[k] # {} \/ wrongGuesses'[k] # {} => k \in Codes'
      BY <2>1, <2>2, <2>3 DEF Fresh
    <2>5. \A q \in Requests :
             pc'[q] \in {"idle", "createUser", "retire", "issue"} => q \notin Codes'
      BY <1>1, <1>3, <2>1 DEF Arrives, Fresh, Goto
    <2> QED
      BY <2>4, <2>5 DEF Fresh
  <1>4. CASE Tick \/ UNCHANGED vars
    BY <1>4 DEF Tick, Fresh, Codes, vars, tables, rows, aux, marks
  <1> QED
    BY <1>2, <1>3, <1>4, NextCases

\* Fresh holds at first: no code has been issued.
LEMMA InitFresh == Init => Fresh
  BY DEF Init, Fresh, Codes

\* What becomes of a code in a step that is not its issue: its type stays, and once verified
\* it stays so.
LEMMA CodeStays ==
    ASSUME Types1, [Next]_vars, NEW k \in Requests, ~Issue(k)
    PROVE  /\ record'[k].type = record[k].type
           /\ record[k].verified => record'[k].verified
  <1>1. record \in [Requests -> CodeRows]
    BY DEF Types1, TypeOK, TablesOK
  <1>2. ASSUME NEW r \in Requests, Step(r)
        PROVE  /\ record'[k].type = record[k].type
               /\ record[k].verified => record'[k].verified
    <2>1. CASE Retire(r)
      BY <1>1, <2>1 DEF Retire, CodeRows
    <2>2. CASE Issue(r)
      BY <1>1, <2>2 DEF Issue
    <2>3. CASE CountGuess(r)
      <3>1. record'[k] = record[k] \/ \E n : record'[k] = [record[k] EXCEPT !.attempts = n]
        BY <1>1, <2>3 DEF CountGuess
      <3> QED
        BY <1>1, <3>1 DEF CodeRows
    <2>4. CASE Mark(r)
      <3>1. record'[k] = record[k] \/ record'[k] = [record[k] EXCEPT !.verified = TRUE]
        BY <1>1, <2>4 DEF Mark, Marked
      <3> QED
        BY <1>1, <3>1 DEF CodeRows
    <2>5. ASSUME ~Retire(r), ~Issue(r), ~CountGuess(r), ~Mark(r)
          PROVE  record' = record
      BY <1>2, <2>5 DEF Step, CreateUser, WriteFailure, WriteSuccess, OpenSession, SignTokens,
                        RenewAccess, Activate, SetPassword, RevokeAll, rows
    <2> QED
      BY <2>1, <2>2, <2>3, <2>4, <2>5
  <1>3. CASE Tick
    BY <1>1, <1>3 DEF Tick, CodeRows
  <1>4. ASSUME NEW r \in Requests, NEW a, NEW where, Arrives(r, a, where)
        PROVE  record' = record
    BY <1>4 DEF Arrives, rows
  <1>5. CASE UNCHANGED vars
    BY <1>5 DEF vars, tables, rows
  <1> QED
    BY <1>2, <1>3, <1>4, <1>5, NextCases

\* Who has presented a code rightly is about to mark it, or it is marked.
Spending ==
    \A k \in Requests : \A q \in accepted[k] : \/ At(q, "mark") /\ target[q] = k
                                               \/ record[k].verified

\* Spending is preserved: who leaves "mark" has marked the code.
LEMMA NextSpending ==
    ASSUME Types1, Fresh, Spending, [Next]_vars
    PROVE  Spending'
  <1>1. /\ pc \in [Requests -> Stages] /\ accepted \in [Requests -> SUBSET Requests]
        /\ target \in [Requests -> Requests \cup {WrongCode}]
    BY DEF Types1, TypeOK, AuxOK, RequestsOK
  <1>2. ASSUME NEW k \in Requests, accepted[k] # {}
        PROVE  record[k].verified => record'[k].verified
    <2>1. ~Issue(k)
      BY <1>2 DEF Issue, At, Fresh
    <2> QED
      BY <2>1, CodeStays
  <1>3. ASSUME NEW r \in Requests, Step(r) PROVE Spending'
    <2>1. accepted' = accepted /\ target' = target /\ \E where : Goto(r, where)
      BY <1>3, StepMoves
    <2>2. ASSUME NEW k \in Requests, NEW q \in accepted[k]
          PROVE  (At(q, "mark") /\ target[q] = k)' \/ record'[k].verified
      <3>1. CASE record[k].verified
        BY <1>2, <2>2, <3>1
      <3>2. CASE At(q, "mark") /\ target[q] = k /\ q # r
        BY <1>1, <2>1, <2>2, <3>2 DEF At, Goto
      <3>3. CASE At(q, "mark") /\ target[q] = k /\ q = r
        <4>1. Mark(r)
          BY <1>3, <3>3, StepMoves DEF At
        <4>2. record' = [record EXCEPT ![k].verified = TRUE]
          BY <3>3, <4>1 DEF Mark, Marked
        <4>3. record'[k] = [record[k] EXCEPT !.verified = TRUE] /\ record[k] \in CodeRows
          BY <4>2 DEF Types1, TypeOK, TablesOK
        <4> QED
          BY <4>3 DEF CodeRows
      <3> QED
        BY <3>1, <3>2, <3>3 DEF Spending
    <2> QED
      BY <2>1, <2>2 DEF Spending
  <1>4. ASSUME NEW r \in Requests, NEW a \in Asked, NEW where \in Stages \ {"idle"},
               Arrives(r, a, where), ArrivesAt(r, a, where)
        PROVE  Spending'
    <2>1. ASSUME NEW k \in Requests, NEW q \in accepted'[k]
          PROVE  (At(q, "mark") /\ target[q] = k)' \/ record'[k].verified
      <3>1. q \in accepted[k] \/ (q = r /\ where = "mark" /\ target'[r] = k)
        BY <1>1, <1>4, <2>1 DEF Arrives
      <3>2. CASE q \in accepted[k]
        <4>1. /\ pc[r] = "idle" /\ q \in Requests
              /\ q # r => pc'[q] = pc[q] /\ target'[q] = target[q]
          BY <1>1, <1>4, <3>2 DEF Arrives, Goto
        <4>2. record[k].verified => record'[k].verified
          BY <1>2, <3>2
        <4>3. (pc[q] = "mark" /\ target[q] = k) \/ record[k].verified
          BY <3>2 DEF Spending, At
        <4> QED
          BY <4>1, <4>2, <4>3 DEF At
      <3>3. CASE q = r /\ where = "mark" /\ target'[r] = k
        BY <1>1, <1>4, <3>3 DEF Arrives, Goto, At
      <3> QED
        BY <3>1, <3>2, <3>3
    <2> QED
      BY <2>1 DEF Spending
  <1>5. CASE Tick \/ UNCHANGED vars
    <2>1. UNCHANGED <<accepted, pc, target>>
      BY <1>5 DEF Tick, vars, aux, marks
    <2> QED
      BY <1>2, <2>1 DEF Spending, At
  <1> QED
    BY <1>3, <1>4, <1>5, NextCases

\* A code that was presented rightly is presented so again only by a request that overlaps
\* with every one that did before it: none of them has marked the code yet.
THEOREM CodesAreSpentOnce == Spec => CodeSpentOnce
  <1>1. Init => Spending
    BY DEF Init, Spending
  <1>2. ASSUME Types1, Fresh, Spending, [Next]_vars,
               NEW k \in Requests, NEW r \in Requests, NEW q \in Requests,
               r \in accepted'[k] \ accepted[k], q \in accepted[k]
        PROVE  At(q, "mark")
    <2>1. accepted' # accepted
      BY <1>2
    <2>2. PICK x \in Requests, a \in Asked, where \in Stages \ {"idle"} :
             Arrives(x, a, where) /\ ArrivesAt(x, a, where)
      <3>1. ~UNCHANGED vars /\ ~Tick /\ \A x \in Requests : ~Step(x)
        BY <1>2, <2>1, StepMoves DEF Tick, vars, aux, marks
      <3> QED
        BY <1>2, <3>1, NextCases
    <2>3. where = "mark" /\ target'[x] = k
      BY <1>2, <2>2 DEF Arrives, Types1, TypeOK, AuxOK
    <2>4. ~record[k].verified
      BY <2>2, <2>3 DEF ArrivesAt
    <2> QED
      BY <1>2, <2>4 DEF Spending
  <1>3. Types1 /\ Fresh /\ Spending /\ [Next]_vars
           => [\A k \in Requests, r, q \in Requests :
                 r \in accepted'[k] \ accepted[k] /\ q \in accepted[k] => At(q, "mark")]_vars
    BY <1>2
  <1>4. Types1 /\ Fresh /\ [Next]_vars => Fresh'
    BY NextFresh
  <1>5. Types1 /\ Fresh /\ Spending /\ [Next]_vars => Spending'
    BY NextSpending
  <1> QED
    BY <1>1, <1>3, <1>4, <1>5, InitTypes, NextTypes, InitFresh, PTL DEF Spec, CodeSpentOnce

\* Who is between retiring the old codes and inserting its own is a rival of every code of
\* its type that is open all the same.
Rivalry ==
    \A r, k \in Requests :
        /\ pc[r] = "issue" /\ k \in Codes
        /\ record[k].type = TypeOf(ask[r].op) /\ ~record[k].verified
        => r \in rivals[k]

\* Where the codes are in the order of their issue.
LEMMA CodesAt ==
    ASSUME Types1
    PROVE  \A i \in DOMAIN issued : issued[i] \in Codes /\ issued[i] \in Requests
  BY DEF Codes, Types1, TypeOK, TablesOK

\* Rivalry is preserved: who has just retired the codes of its type has no rival left.
LEMMA NextRivalry ==
    ASSUME Types1, Fresh, Rivalry, [Next]_vars
    PROVE  Rivalry'
  <1>1. /\ pc \in [Requests -> Stages] /\ record \in [Requests -> CodeRows]
        /\ rivals \in [Requests -> SUBSET Requests]
    BY DEF Types1, TypeOK, TablesOK, AuxOK, RequestsOK
  <1>2. ASSUME NEW k \in Requests, ~Issue(k), ~record'[k].verified
        PROVE  record'[k].type = record[k].type /\ ~record[k].verified
    BY <1>2, CodeStays
  <1>3. ASSUME NEW r \in Requests, Step(r) PROVE Rivalry'
    <2>1. ask' = ask /\ \E where : Goto(r, where)
      BY <1>3, StepMoves
    <2>2. CASE Issue(r)
      <3>1. /\ Codes' = Codes \cup {r} /\ pc[r] = "issue" /\ Goto(r, "ok")
            /\ rivals' = [rivals EXCEPT ![r] = {q \in Requests \ {r} : At(q, "issue")}]
        BY <1>3, <2>2, CodesChange DEF Issue
      <3>2. \A k \in Requests \ {r} : ~Issue(k)
        BY <1>1, <2>2, <3>1 DEF Issue, At, Goto
      <3>3. ASSUME NEW q \in Requests, NEW k \in Requests, pc'[q] = "issue", k \in Codes',
                   record'[k].type = TypeOf(ask[q].op), ~record'[k].verified
            PROVE  q \in rivals'[k]
        <4>1. q # r /\ pc[q] = "issue"
          BY <1>1, <3>1, <3>3 DEF Goto
        <4>2. CASE k = r
          BY <1>1, <3>1, <4>1, <4>2 DEF At
        <4>3. CASE k # r
          BY <1>1, <1>2, <3>1, <3>2, <3>3, <4>1, <4>3 DEF Rivalry
        <4> QED
          BY <4>2, <4>3
      <3> QED
        BY <2>1, <3>3 DEF Rivalry
    <2>3. CASE ~Issue(r)
      <3>1. Codes' = Codes /\ rivals' = rivals
        BY <1>3, <2>3, CodesChange
      <3>2. \A k \in Codes : ~Issue(k)
        BY DEF Issue, At, Fresh, Codes, Types1, TypeOK, TablesOK
      <3>3. ASSUME NEW q \in Requests, NEW k \in Requests, pc'[q] = "issue", k \in Codes,
                   record'[k].type = TypeOf(ask[q].op), ~record'[k].verified
            PROVE  q \in rivals[k]
        <4>1. record[k].type = record'[k].type /\ ~record[k].verified
          BY <1>2, <3>2, <3>3
        <4>2. CASE pc[q] = "issue"
          BY <3>3, <4>1, <4>2 DEF Rivalry
        <4>3. CASE pc[q] # "issue"
          <5>1. q = r /\ Retire(r)
            BY <1>1, <1>3, <3>3, <4>3, StepMoves DEF Goto
          <5>2. k \in Retired(TypeOf(ask[r].op))
            BY <3>3, <4>1, <5>1 DEF Retired, OpenCodes
          <5>3. record'[k] = [record[k] EXCEPT !.verified = TRUE]
            BY <5>1, <5>2 DEF Retire
          <5> QED
            BY <1>1, <3>3, <5>3 DEF CodeRows
        <4> QED
          BY <4>2, <4>3
      <3> QED
        BY <2>1, <3>1, <3>3 DEF Rivalry
    <2> QED
      BY <2>2, <2>3
  <1>4. ASSUME NEW r \in Requests, NEW a \in Asked, NEW where \in Stages \ {"idle"},
               Arrives(r, a, where), ArrivesAt(r, a, where)
        PROVE  Rivalry'
    <2>1. UNCHANGED <<record, rivals, issued>> /\ Codes' = Codes
      BY <1>4 DEF Arrives, rows, Codes
    <2>2. \A q \in Requests : pc'[q] = "issue" => pc[q] = "issue" /\ ask'[q] = ask[q]
      BY <1>1, <1>4 DEF Arrives, ArrivesAt, Goto, Types1, Errands
    <2> QED
      BY <2>1, <2>2 DEF Rivalry
  <1>5. CASE Tick \/ UNCHANGED vars
    <2>1. UNCHANGED <<pc, ask, rivals, issued>> /\ Codes' = Codes
      BY <1>5 DEF Tick, vars, tables, rows, aux, Codes
    <2>2. \A k \in Codes : ~Issue(k)
      BY DEF Issue, At, Fresh, Codes, Types1, TypeOK, TablesOK
    <2> QED
      BY <1>2, <2>1, <2>2 DEF Rivalry
  <1> QED
    BY <1>3, <1>4, <1>5, NextCases

\* A new code meets open codes of its type only as their rival.
LEMMA NextOverlap ==
    ASSUME Types1, Fresh, Rivalry, OpenCodesOverlap, [Next]_vars
    PROVE  OpenCodesOverlap'
  <1>1. /\ issued \in Seq(Requests) /\ Len(issued) \in Nat /\ DOMAIN issued = 1 .. Len(issued)
        /\ record \in [Requests -> CodeRows] /\ rivals \in [Requests -> SUBSET Requests]
    BY DEF Types1, TypeOK, TablesOK, AuxOK
  <1>2. \A k \in Codes : k \in Requests /\ ~Issue(k)
    BY DEF Issue, At, Fresh, Codes, Types1, TypeOK, TablesOK
  <1>3. ASSUME NEW k \in Codes, ~record'[k].verified
        PROVE  record'[k].type = record[k].type /\ ~record[k].verified
    BY <1>2, <1>3, CodeStays
  <1>4. ASSUME issued' = issued, \A k \in Codes : rivals'[k] = rivals[k]
        PROVE  OpenCodesOverlap'
    BY <1>3, <1>4, CodesAt DEF OpenCodesOverlap
  <1>5. ASSUME NEW r \in Requests, Issue(r) PROVE OpenCodesOverlap'
    <2>1. /\ pc[r] = "issue" /\ r \notin Codes
          /\ issued' = Append(issued, r)
          /\ record'[r].type = TypeOf(ask[r].op)
          /\ rivals' = [rivals EXCEPT ![r] = {q \in Requests \ {r} : At(q, "issue")}]
      BY <1>1, <1>5 DEF Issue, At, Fresh
    <2>2. \A k \in Codes : rivals'[k] = rivals[k]
      BY <1>1, <1>2, <2>1
    <2>3. /\ DOMAIN issued' = 1 .. (Len(issued) + 1)
          /\ \A i \in DOMAIN issued : issued'[i] = issued[i]
          /\ issued'[Len(issued) + 1] = r
      BY <1>1, <2>1
    <2>4. ASSUME NEW i \in DOMAIN issued', NEW j \in DOMAIN issued', i < j,
                 record'[issued'[i]].type = record'[issued'[j]].type,
                 ~record'[issued'[i]].verified, ~record'[issued'[j]].verified
          PROVE  issued'[j] \in rivals'[issued'[i]]
      <3>1. i \in DOMAIN issued /\ (j \in DOMAIN issued \/ j = Len(issued) + 1)
        BY <1>1, <2>3, <2>4
      <3>2. issued[i] \in Codes /\ issued'[i] = issued[i]
        BY <2>3, <3>1, CodesAt
      <3>3. CASE j \in DOMAIN issued
        <4>1. issued[j] \in Codes /\ issued'[j] = issued[j]
          BY <2>3, <3>3, CodesAt
        <4> QED
          BY <1>3, <2>2, <2>4, <3>1, <3>2, <3>3, <4>1 DEF OpenCodesOverlap
      <3>4. CASE j = Len(issued) + 1
        <4>1. issued'[j] = r /\ record'[issued[i]].type = TypeOf(ask[r].op)
          BY <2>1, <2>3, <2>4, <3>2, <3>4
        <4>2. /\ record[issued[i]].type = TypeOf(ask[r].op)
              /\ ~record[issued[i]].verified
          BY <1>3, <2>4, <3>2, <4>1
        <4>3. r \in rivals[issued[i]]
          BY <1>2, <2>1, <3>2, <4>2 DEF Rivalry
        <4> QED
          BY <2>2, <3>2, <4>1, <4>3
      <3> QED
        BY <3>1, <3>3, <3>4
    <2> QED
      BY <2>4 DEF OpenCodesOverlap
  <1>6. ASSUME NEW r \in Requests, Step(r), ~Issue(r) PROVE OpenCodesOverlap'
    BY <1>4, <1>6, CodesChange
  <1>7. ASSUME NEW r \in Requests, NEW a, NEW where, Arrives(r, a, where)
        PROVE  OpenCodesOverlap'
    BY <1>4, <1>7 DEF Arrives, rows
  <1>8. CASE Tick \/ UNCHANGED vars
    BY <1>4, <1>8 DEF Tick, vars, tables, rows, aux
  <1> QED
    BY <1>5, <1>6, <1>7, <1>8, NextCases

\* Two codes of a type are open at once only if the later one's request had retired the old
\* codes before the earlier one's inserted its own.
THEOREM OpenCodesAreRivals == Spec => []OpenCodesOverlap
  <1>1. Init => Rivalry /\ OpenCodesOverlap
    BY DEF Init, Rivalry, OpenCodesOverlap, Codes
  <1>2. Types1 /\ Fresh /\ [Next]_vars => Fresh'
    BY NextFresh
  <1>3. Types1 /\ Fresh /\ Rivalry /\ [Next]_vars => Rivalry'
    BY NextRivalry
  <1>4. Types1 /\ Fresh /\ Rivalry /\ OpenCodesOverlap /\ [Next]_vars => OpenCodesOverlap'
    BY NextOverlap
  <1> QED
    BY <1>1, <1>2, <1>3, <1>4, InitTypes, NextTypes, InitFresh, PTL DEF Spec
-----------------------------------------------------------------------------
(* Guesses.                                                                *)

\* Who is about to count a wrong guess of code k.
Guessing(k) == {r \in Requests : At(r, "countGuess") /\ target[r] = k}

\* Only requests that have arrived have guessed, finitely many so far.
Guesses ==
    /\ GuessesCounted
    /\ \A k \in Requests :
          /\ IsFiniteSet(wrongGuesses[k])
          /\ Guessing(k) \subseteq wrongGuesses[k]
          /\ \A r \in wrongGuesses[k] : pc[r] # "idle"

\* Nothing counted, nothing guessed.
LEMMA GuessesSame ==
    ASSUME Types1, Guesses, NEW k \in Requests,
           wrongGuesses'[k] = wrongGuesses[k], Guessing(k)' = Guessing(k),
           record'[k].attempts = record[k].attempts
    PROVE  record'[k].attempts + Cardinality(Guessing(k)') = Cardinality(wrongGuesses'[k])
  BY DEF Guesses, GuessesCounted, Guessing

\* Guesses is preserved: one more guess on its way, or one fewer and one more counted.
LEMMA NextGuesses ==
    ASSUME Types1, Fresh, Guesses, [Next]_vars
    PROVE  Guesses'
  <1>1. /\ pc \in [Requests -> Stages] /\ record \in [Requests -> CodeRows]
        /\ wrongGuesses \in [Requests -> SUBSET Requests]
        /\ target \in [Requests -> Requests \cup {WrongCode}]
    BY DEF Types1, TypeOK, TablesOK, AuxOK, RequestsOK
  <1>2. ASSUME NEW k \in Requests
        PROVE  /\ IsFiniteSet(wrongGuesses[k]) /\ IsFiniteSet(Guessing(k))
               /\ Cardinality(wrongGuesses[k]) \in Nat /\ Cardinality(Guessing(k)) \in Nat
               /\ record[k].attempts \in Nat
               /\ record[k].attempts + Cardinality(Guessing(k)) = Cardinality(wrongGuesses[k])
    <2>1. IsFiniteSet(wrongGuesses[k]) /\ Guessing(k) \subseteq wrongGuesses[k]
      BY DEF Guesses
    <2>2. IsFiniteSet(Guessing(k))
      BY <2>1, FS_Subset
    <2>3. Cardinality(wrongGuesses[k]) \in Nat /\ Cardinality(Guessing(k)) \in Nat
      BY <2>1, <2>2, FS_CardinalityType
    <2>4. record[k].attempts \in Nat
      BY <1>1, CodeUpdate
    <2> QED
      BY <2>1, <2>2, <2>3, <2>4 DEF Guesses, GuessesCounted, Guessing
  <1>3. ASSUME \A k \in Requests :
                  /\ record'[k].attempts + Cardinality(Guessing(k)') = Cardinality(wrongGuesses'[k])
                  /\ IsFiniteSet(wrongGuesses'[k])
                  /\ Guessing(k)' \subseteq wrongGuesses'[k]
                  /\ \A r \in wrongGuesses'[k] : pc'[r] # "idle"
        PROVE  Guesses'
    BY <1>3 DEF Guesses, GuessesCounted, Guessing
  <1>4. ASSUME NEW r \in Requests, Step(r) PROVE Guesses'
    <2>1. PICK where \in Stages \ {"idle", "countGuess"} :
             /\ Goto(r, where) /\ target' = target /\ wrongGuesses' = wrongGuesses
             /\ pc[r] # "idle"
      BY <1>4, StepMoves
    <2>2. ASSUME NEW k \in Requests
          PROVE  /\ record'[k].attempts + Cardinality(Guessing(k)') = Cardinality(wrongGuesses'[k])
                 /\ IsFiniteSet(wrongGuesses'[k])
                 /\ Guessing(k)' \subseteq wrongGuesses'[k]
                 /\ \A q \in wrongGuesses'[k] : pc'[q] # "idle"
      <3>1. Guessing(k)' = Guessing(k) \ {r}
        BY <1>1, <2>1 DEF Guessing, At, Goto
      <3>2. /\ IsFiniteSet(wrongGuesses'[k]) /\ Guessing(k)' \subseteq wrongGuesses'[k]
            /\ \A q \in wrongGuesses'[k] : pc'[q] # "idle"
        BY <1>1, <1>2, <2>1, <3>1 DEF Guesses, Goto
      <3>3. CASE CountGuess(r) /\ target[r] = k
        <4>1. r \in Guessing(k)
          BY <3>3 DEF CountGuess, Guessing, At
        <4>2. Cardinality(Guessing(k)') = Cardinality(Guessing(k)) - 1
          BY <1>2, <3>1, <4>1, FS_RemoveElement
        <4>3. record'[k] = [record[k] EXCEPT !.attempts = record[k].attempts + 1]
          BY <1>1, <3>3 DEF CountGuess, Counted
        <4>4. record'[k].attempts = record[k].attempts + 1
          BY <1>1, <4>3 DEF CodeRows
        <4> QED
          BY <1>2, <2>1, <3>2, <4>2, <4>4
      <3>4. CASE Issue(k)
        <4>1. k \notin Codes /\ pc[k] = "issue"
          BY <3>4 DEF Issue, At, Fresh
        <4>2. wrongGuesses[k] = {} /\ Guessing(k) = {}
          BY <4>1 DEF Fresh, Guesses
        <4>3. Guessing(k)' = {} /\ wrongGuesses'[k] = {}
          BY <2>1, <3>1, <4>2
        <4>4. record'[k].attempts = 0
          BY <1>1, <3>4 DEF Issue
        <4> QED
          BY <3>2, <4>3, <4>4, FS_EmptySet
      <3>5. CASE ~(CountGuess(r) /\ target[r] = k) /\ ~Issue(k)
        <4>1. r \notin Guessing(k)
          BY <1>4, <3>5, <2>1 DEF Guessing, Step, CreateUser, WriteFailure, WriteSuccess,
                OpenSession, SignTokens, RenewAccess, Retire, Issue, Mark, Activate, SetPassword,
                RevokeAll, At
        <4>2. Guessing(k)' = Guessing(k)
          BY <3>1, <4>1
        <4>3. record'[k].attempts = record[k].attempts
          <5>1. CASE Retire(r)
            BY <1>1, <5>1 DEF Retire, CodeRows
          <5>2. CASE Issue(r) \/ CountGuess(r)
            BY <1>1, <3>5, <5>2 DEF Issue, CountGuess
          <5>3. CASE Mark(r)
            <6>1. record'[k] = record[k] \/ record'[k] = [record[k] EXCEPT !.verified = TRUE]
              BY <1>1, <5>3 DEF Mark, Marked
            <6> QED
              BY <1>1, <6>1 DEF CodeRows
          <5>4. ASSUME ~Retire(r), ~Issue(r), ~CountGuess(r), ~Mark(r)
                PROVE  record' = record
            BY <1>4, <5>4 DEF Step, CreateUser, WriteFailure, WriteSuccess, OpenSession,
                  SignTokens, RenewAccess, Activate, SetPassword, RevokeAll, rows
          <5> QED
            BY <5>1, <5>2, <5>3, <5>4
        <4> QED
          BY <2>1, <3>2, <4>2, <4>3, GuessesSame
      <3> QED
        BY <3>3, <3>4, <3>5
    <2> QED
      BY <1>3, <2>2
  <1>5. ASSUME NEW r \in Requests, NEW a \in Asked, NEW where \in Stages \ {"idle"},
               Arrives(r, a, where), ArrivesAt(r, a, where)
        PROVE  Guesses'
    <2>1. /\ pc[r] = "idle" /\ record' = record
          /\ \A q \in Requests \ {r} : pc'[q] = pc[q] /\ target'[q] = target[q]
          /\ pc'[r] = where
      BY <1>1, <1>5 DEF Arrives, Goto, rows
    <2>2. ASSUME NEW k \in Requests
          PROVE  /\ record'[k].attempts + Cardinality(Guessing(k)') = Cardinality(wrongGuesses'[k])
                 /\ IsFiniteSet(wrongGuesses'[k])
                 /\ Guessing(k)' \subseteq wrongGuesses'[k]
                 /\ \A q \in wrongGuesses'[k] : pc'[q] # "idle"
      <3>1. r \notin Guessing(k) /\ r \notin wrongGuesses[k]
        BY <2>1 DEF Guesses, Guessing, At
      <3>2. CASE where = "countGuess" /\ target'[r] = k
        <4>1. wrongGuesses'[k] = wrongGuesses[k] \cup {r}
          BY <1>1, <1>5, <3>2 DEF Arrives
        <4>2. Guessing(k)' = Guessing(k) \cup {r}
          BY <2>1, <3>2 DEF Guessing, At
        <4>3. /\ IsFiniteSet(wrongGuesses'[k])
              /\ Cardinality(wrongGuesses'[k]) = Cardinality(wrongGuesses[k]) + 1
              /\ Cardinality(Guessing(k)') = Cardinality(Guessing(k)) + 1
          <5>1. /\ IsFiniteSet(wrongGuesses[k] \cup {r})
                /\ Cardinality(wrongGuesses[k] \cup {r}) = Cardinality(wrongGuesses[k]) + 1
            BY <1>2, <3>1, FS_AddElement
          <5>2. Cardinality(Guessing(k) \cup {r}) = Cardinality(Guessing(k)) + 1
            BY <1>2, <3>1, FS_AddElement
          <5> QED
            BY <4>1, <4>2, <5>1, <5>2
        <4>4. \A q \in wrongGuesses'[k] : pc'[q] # "idle"
          BY <1>1, <2>1, <4>1 DEF Guesses
        <4>5. Guessing(k)' \subseteq wrongGuesses'[k]
          BY <4>1, <4>2 DEF Guesses
        <4> QED
          BY <1>2, <2>1, <4>3, <4>4, <4>5
      <3>3. CASE ~(where = "countGuess" /\ target'[r] = k)
        <4>1. wrongGuesses'[k] = wrongGuesses[k]
          BY <1>1, <1>5, <3>3 DEF Arrives
        <4>2. Guessing(k)' = Guessing(k)
          BY <2>1, <3>1, <3>3 DEF Guessing, At
        <4>3. \A q \in wrongGuesses'[k] : pc'[q] # "idle"
          BY <1>1, <2>1, <4>1 DEF Guesses
        <4> QED
          BY <1>2, <2>1, <4>1, <4>2, <4>3, GuessesSame DEF Guesses
      <3> QED
        BY <3>2, <3>3
    <2> QED
      BY <1>3, <2>2
  <1>6. CASE Tick \/ UNCHANGED vars
    <2>1. UNCHANGED <<pc, target, wrongGuesses>>
      BY <1>6 DEF Tick, vars, aux, marks
    <2>2. \A k \in Requests : record'[k].attempts = record[k].attempts
      BY <1>1, <1>6 DEF Tick, CodeRows, vars, tables, rows
    <2>3. \A k \in Requests : Guessing(k)' = Guessing(k)
      BY <2>1 DEF Guessing, At
    <2> QED
      BY <1>3, <2>1, <2>2, <2>3, GuessesSame DEF Guesses
  <1> QED
    BY <1>4, <1>5, <1>6, NextCases

\* No wrong guess of a code is lost, however many requests guess at once.
THEOREM AllGuessesCounted == Spec => []GuessesCounted
  <1>1. Init => Guesses
    <2> SUFFICES ASSUME Init PROVE Guesses
      OBVIOUS
    <2>1. \A k \in Requests : /\ record[k].attempts = 0 /\ wrongGuesses[k] = {}
                              /\ Guessing(k) = {}
      BY DEF Init, NoCode, Guessing, At
    <2>2. IsFiniteSet({}) /\ Cardinality({}) = 0
      BY FS_EmptySet
    <2>3. ASSUME NEW k \in Requests
          PROVE  /\ IsFiniteSet(wrongGuesses[k]) /\ Guessing(k) \subseteq wrongGuesses[k]
                 /\ record[k].attempts + Cardinality(Guessing(k)) = Cardinality(wrongGuesses[k])
      <3>1. Cardinality(Guessing(k)) = 0 /\ Cardinality(wrongGuesses[k]) = 0
        BY <2>1, <2>2
      <3>2. record[k].attempts = 0
        BY <2>1
      <3> QED
        BY <2>1, <2>2, <3>1, <3>2
    <2>4. GuessesCounted
      <3>1. \A k \in Requests : record[k].attempts + Cardinality(Guessing(k))
                                 = Cardinality(wrongGuesses[k])
        BY <2>3
      <3> QED
        BY <3>1 DEF GuessesCounted, Guessing
    <2> QED
      BY <2>1, <2>3, <2>4 DEF Guesses
  <1>2. Types1 /\ Fresh /\ [Next]_vars => Fresh'
    BY NextFresh
  <1>3. Types1 /\ Fresh /\ Guesses /\ [Next]_vars => Guesses'
    BY NextGuesses
  <1>4. Guesses => GuessesCounted
    BY DEF Guesses
  <1> QED
    BY <1>1, <1>2, <1>3, <1>4, InitTypes, NextTypes, InitFresh, PTL DEF Spec
=============================================================================
