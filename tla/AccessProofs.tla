---------------------------- MODULE AccessProofs ----------------------------
(***************************************************************************)
(* Proofs about the sessions of Account, on top of AccountProofs: who may  *)
(* still use an old one, and that Account implements Access.               *)
(***************************************************************************)
EXTENDS AccountProofs
-----------------------------------------------------------------------------
(* Rows of sessions.                                                       *)

\* A session opens once, for an account and with a password, and access is renewed for one
\* that was opened.
Grants ==
    \A n \in Requests :
        /\ pc[n] \in {"idle", "writeSuccess", "openSession"} => session[n] = NoSession
        /\ session[n] # NoSession => session[n].proof \in Passwords /\ user # NoAccount
        /\ pc[n] = "signAccess" => session[target[n]] # NoSession

\* A row that is revoked, or grows older, stays what it is but for that.
LEMMA RowStays ==
    ASSUME NEW s \in SessionRows
    PROVE  /\ [s EXCEPT !.open = FALSE].proof = s.proof /\ ~[s EXCEPT !.open = FALSE].open
           /\ [s EXCEPT !.open = FALSE].left = s.left
           /\ [s EXCEPT !.left = Less(@)].proof = s.proof
           /\ [s EXCEPT !.left = Less(@)].open = s.open
           /\ [s EXCEPT !.left = Less(@)].left = Less(s.left)
           /\ s = NoSession => /\ [s EXCEPT !.open = FALSE] = NoSession
                               /\ [s EXCEPT !.left = Less(@)] = NoSession
  <1>1. /\ [s EXCEPT !.open = FALSE].proof = s.proof /\ ~[s EXCEPT !.open = FALSE].open
        /\ [s EXCEPT !.open = FALSE].left = s.left
    BY DEF SessionRows
  <1>2. /\ [s EXCEPT !.left = Less(@)].proof = s.proof
        /\ [s EXCEPT !.left = Less(@)].open = s.open
        /\ [s EXCEPT !.left = Less(@)].left = Less(s.left)
    BY DEF SessionRows
  <1>3. [NoSession EXCEPT !.open = FALSE] = NoSession
    <2> DEFINE None == [open : BOOLEAN, proof : {"none"}, left : {0}]
    <2>1. NoSession \in None
      BY DEF NoSession
    <2>2. \A x \in None : ~x.open => x = NoSession
      BY DEF NoSession
    <2>3. \A x \in None : /\ [x EXCEPT !.open = FALSE] \in None
                          /\ ~[x EXCEPT !.open = FALSE].open
      OBVIOUS
    <2> QED
      BY <2>1, <2>2, <2>3
  <1>4. [NoSession EXCEPT !.left = Less(@)] = NoSession
    <2>1. Less(0) = 0
      BY DEF Less
    <2>2. NoSession.left = 0 /\ [NoSession EXCEPT !.left = 0] = NoSession
      BY DEF NoSession
    <2> QED
      BY <2>1, <2>2
  <1> QED
    BY <1>1, <1>2, <1>3, <1>4

\* What becomes of a session in a step that does not open it.
LEMMA SessionStays ==
    ASSUME Types1, [Next]_vars, NEW n \in Requests, ~OpenSession(n)
    PROVE  /\ session'[n].proof = session[n].proof
           /\ session'[n].open => session[n].open
           /\ session[n] = NoSession => session'[n] = NoSession
           /\ session'[n].left \in {session[n].left, Less(session[n].left)}
  <1>1. session \in [Requests -> SessionRows] /\ session[n] \in SessionRows
    BY DEF Types1, TypeOK, TablesOK, SessionsTypeOK
  <1>2. SUFFICES \/ session'[n] = session[n]
                 \/ session'[n] = [session[n] EXCEPT !.open = FALSE]
                 \/ session'[n] = [session[n] EXCEPT !.left = Less(@)]
    BY <1>1, RowStays
  <1>3. ASSUME NEW ended, Revoke(ended)
        PROVE  \/ session'[n] = session[n]
               \/ session'[n] = [session[n] EXCEPT !.open = FALSE]
    BY <1>1, <1>3 DEF Revoke
  <1>4. ASSUME NEW r \in Requests, Step(r), ~RevokeAll(r)
        PROVE  session'[n] = session[n]
    <2>1. CASE OpenSession(r)
      BY <1>1, <2>1 DEF OpenSession, OpenRow
    <2>2. CASE ~OpenSession(r)
      BY <1>4, <2>2 DEF Step, CreateUser, WriteFailure, WriteSuccess, SignTokens, RenewAccess,
            Retire, Issue, CountGuess, Mark, Activate, SetPassword, sessionVars
    <2> QED
      BY <2>1, <2>2
  <1>5. ASSUME NEW r \in Requests, RevokeAll(r)
        PROVE  Revoke(AllSessions)
    BY <1>5 DEF RevokeAll
  <1>6. ASSUME NEW r \in Requests, NEW a, NEW where, Arrives(r, a, where)
        PROVE  \E ended : Revoke(ended)
    BY <1>6 DEF Arrives
  <1>7. CASE Tick
    BY <1>1, <1>7 DEF Tick, AgeSessions
  <1>8. CASE UNCHANGED vars
    BY <1>8 DEF vars, tables, sessionVars
  <1> QED
    BY <1>3, <1>4, <1>5, <1>6, <1>7, <1>8, NextCases

\* No step deletes the account.
LEMMA AccountIsThere ==
    ASSUME Types1, [Next]_vars, user # NoAccount
    PROVE  user' # NoAccount
  <1>1. user \in UserRows /\ user.status \in UserStatus
    BY DEF Types1, TypeOK, TablesOK, Stored
  <1>2. \/ user'.status = user.status
        \/ user'.status = "ACTIVE"
    <2>1. ASSUME NEW r \in Requests, Step(r)
          PROVE  \/ user' = user
                 \/ user' = [user EXCEPT !.status = "ACTIVE"]
                 \/ \E x : user' = [user EXCEPT !.password = x]
                 \/ \E x, y : user' = [user EXCEPT !.failed = x, !.locked = y]
                 \/ \E x, y, z : user' = [user EXCEPT !.password = x, !.failed = y, !.locked = z]
      BY <2>1 DEF Step, CreateUser, Exists, WriteFailure, WriteSuccess, OpenSession, SignTokens,
                  RenewAccess, Retire, Issue, CountGuess, Mark, Activate, SetPassword, RevokeAll,
                  rows
    <2>2. CASE Tick
      BY <1>1, <2>2 DEF Tick, UserRows
    <2>3. ASSUME NEW r \in Requests, NEW a, NEW where, Arrives(r, a, where)
          PROVE  user' = user
      BY <2>3 DEF Arrives, rows
    <2>4. CASE UNCHANGED vars
      BY <2>4 DEF vars, tables, rows
    <2> QED
      BY <1>1, <2>1, <2>2, <2>3, <2>4, NextCases DEF UserRows
  <1> QED
    BY <1>1, <1>2 DEF UserStatus, NoAccount

\* Grants is preserved.
LEMMA NextGrants ==
    ASSUME Types1, Grants, [Next]_vars
    PROVE  Grants'
  <1>1. /\ pc \in [Requests -> Stages] /\ session \in [Requests -> SessionRows]
        /\ \A r \in Requests : pc[r] = "signAccess" => target[r] \in Requests
        /\ \A r \in Requests : pc[r] = "openSession" => ask[r].password \in Passwords
                                                        /\ user # NoAccount
    BY DEF Types1, TypeOK, TablesOK, SessionsTypeOK, RequestsOK, Errands, FoundOK
  <1>2. ASSUME NEW n \in Requests, OpenSession(n)
        PROVE  /\ session'[n].proof = ask[n].password /\ ask[n].password \in Passwords
               /\ session'[n] # NoSession /\ pc[n] = "openSession" /\ Goto(n, "signTokens")
               /\ user # NoAccount
    BY <1>1, <1>2 DEF OpenSession, OpenRow, NoSession, At
  <1>3. ASSUME NEW n \in Requests, session[n] # NoSession
        PROVE  /\ session'[n].proof \in Passwords /\ session'[n] # NoSession
               /\ user' # NoAccount
    <2>1. ~OpenSession(n)
      BY <1>3 DEF OpenSession, At, Grants
    <2>2. session'[n].proof \in Passwords /\ user # NoAccount
      BY <1>3, <2>1, SessionStays DEF Grants
    <2> QED
      BY <2>2, AccountIsThere, PasswordsAssumption DEF NoSession
  <1>4. ASSUME NEW n \in Requests, session'[n] # NoSession
        PROVE  session'[n].proof \in Passwords /\ user' # NoAccount
    <2>1. CASE OpenSession(n)
      BY <1>2, <2>1, AccountIsThere
    <2>2. CASE ~OpenSession(n)
      BY <1>3, <1>4, <2>2, SessionStays
    <2> QED
      BY <2>1, <2>2
  <1>5. ASSUME NEW n \in Requests, pc'[n] \in {"idle", "writeSuccess", "openSession"}
        PROVE  session'[n] = NoSession
    <2>1. pc[n] \in {"idle", "writeSuccess", "openSession"}
      <3>1. ASSUME NEW r \in Requests, Step(r) PROVE pc[n] \in {"idle", "writeSuccess", "openSession"}
        BY <1>1, <1>5, <3>1, StepMoves DEF Goto
      <3>2. ASSUME NEW r \in Requests, NEW a, NEW where, Arrives(r, a, where)
            PROVE  pc[n] \in {"idle", "writeSuccess", "openSession"}
        BY <1>1, <1>5, <3>2 DEF Arrives, Goto
      <3>3. CASE Tick \/ UNCHANGED vars
        BY <1>5, <3>3 DEF Tick, vars
      <3> QED
        BY <3>1, <3>2, <3>3, NextCases
    <2>2. ~OpenSession(n)
      BY <1>1, <1>2, <1>5 DEF Goto
    <2> QED
      BY <2>1, <2>2, SessionStays DEF Grants
  <1>6. ASSUME NEW r \in Requests, pc'[r] = "signAccess"
        PROVE  session'[target'[r]] # NoSession
    <2>1. CASE pc[r] = "signAccess" /\ target'[r] = target[r]
      <3>1. target[r] \in Requests /\ session[target[r]] # NoSession
        BY <1>1, <2>1 DEF Grants
      <3> QED
        BY <1>3, <2>1, <3>1
    <2>2. ASSUME NEW a, NEW where, Arrives(r, a, where), ArrivesAt(r, a, where)
          PROVE  target'[r] \in Requests /\ session[target'[r]] # NoSession
      <3>1. where = "signAccess"
        BY <1>1, <1>6, <2>2 DEF Arrives, Goto
      <3> QED
        BY <2>2, <3>1 DEF ArrivesAt, Listed, NoSession
    <2>3. \/ pc[r] = "signAccess" /\ target'[r] = target[r]
          \/ \E a, where : Arrives(r, a, where) /\ ArrivesAt(r, a, where)
      <3>1. ASSUME NEW q \in Requests, Step(q) PROVE pc[r] = "signAccess" /\ target' = target
        BY <1>1, <1>6, <3>1, StepMoves DEF Goto
      <3>2. ASSUME NEW q \in Requests \ {r}, NEW a, NEW where, Arrives(q, a, where)
            PROVE  pc[r] = "signAccess" /\ target'[r] = target[r]
        BY <1>1, <1>6, <3>2 DEF Arrives, Goto, Types1, TypeOK, RequestsOK
      <3>3. CASE Tick \/ UNCHANGED vars
        BY <1>6, <3>3 DEF Tick, vars
      <3> QED
        BY <3>1, <3>2, <3>3, NextCases
    <2> QED
      BY <1>3, <2>1, <2>2, <2>3
  <1> QED
    BY <1>4, <1>5, <1>6 DEF Grants

\* Grants holds at first: no session is open.
LEMMA InitGrants == Init => Grants
  BY DEF Init, SessionsInit, Grants
-----------------------------------------------------------------------------
(* Old passwords.                                                          *)

\* A login that is under way with a password which has been changed since was so when the
\* sessions were revoked, or they have not been revoked yet.
Late ==
    \A n \in Requests :
        pc[n] \in {"writeSuccess", "openSession"} /\ ask[n].password # user.password
            => n \in crossed \/ \E r \in Requests : At(r, "revokeAll")

\* The password of the account changes with its creation, or at a change that is followed
\* by the end of all sessions.
LEMMA PasswordStays ==
    ASSUME Types1, [Next]_vars
    PROVE  \/ user'.password = user.password
           \/ user = NoAccount
           \/ \E r \in Requests : SetPassword(r)
  <1>1. user \in UserRows
    BY DEF Types1, TypeOK, TablesOK
  <1>2. ASSUME NEW r \in Requests, Step(r), ~SetPassword(r), user # NoAccount
        PROVE  \/ user' = user
               \/ user' = [user EXCEPT !.status = "ACTIVE"]
               \/ \E x, y : user' = [user EXCEPT !.failed = x, !.locked = y]
    BY <1>2 DEF Step, CreateUser, Exists, WriteFailure, WriteSuccess, OpenSession, SignTokens,
                RenewAccess, Retire, Issue, CountGuess, Mark, Activate, RevokeAll, rows
  <1>3. ASSUME NEW r \in Requests, NEW a, NEW where, Arrives(r, a, where)
        PROVE  user' = user
    BY <1>3 DEF Arrives, rows
  <1>4. CASE Tick
    BY <1>1, <1>4 DEF Tick, UserRows
  <1>5. CASE UNCHANGED vars
    BY <1>5 DEF vars, tables, rows
  <1> QED
    BY <1>1, <1>2, <1>3, <1>4, <1>5, NextCases DEF UserRows

\* Who was under way when the sessions were revoked stays marked as such.
LEMMA CrossedGrows ==
    ASSUME Types1, [Next]_vars
    PROVE  crossed \subseteq crossed'
  <1>1. ASSUME NEW r \in Requests, Step(r) PROVE crossed \subseteq crossed'
    BY <1>1 DEF Step, CreateUser, WriteFailure, WriteSuccess, OpenSession, SignTokens,
                RenewAccess, Retire, Issue, CountGuess, Mark, Activate, SetPassword, RevokeAll, aux
  <1> QED
    BY <1>1, NextCases DEF Arrives, Tick, vars, aux

\* Late and the property itself are preserved together.
LEMMA NextOld ==
    ASSUME Types1, Grants, Late, OldSessionsOverlap, [Next]_vars
    PROVE  Late' /\ OldSessionsOverlap'
  <1>1. /\ pc \in [Requests -> Stages] /\ session \in [Requests -> SessionRows]
        /\ \A r \in Requests : pc[r] \in {"writeSuccess", "openSession"} => user # NoAccount
    BY DEF Types1, TypeOK, TablesOK, SessionsTypeOK, RequestsOK, FoundOK
  <1>2. CASE \E r \in Requests : SetPassword(r)
    <2>1. PICK r \in Requests : SetPassword(r)
      BY <1>2
    <2>2. pc'[r] = "revokeAll"
      BY <1>1, <2>1 DEF SetPassword, Goto
    <2> QED
      BY <2>2 DEF Late, OldSessionsOverlap, At
  <1>3. CASE \E r \in Requests : RevokeAll(r)
    <2>1. PICK r \in Requests : RevokeAll(r)
      BY <1>3
    <2>2. \A n \in Requests : ~session'[n].open
      BY <1>1, <2>1 DEF RevokeAll, AllSessions, Revoke, SessionRows
    <2>3. \A n \in Requests : pc'[n] \in {"writeSuccess", "openSession"} => n \in crossed'
      BY <1>1, <2>1 DEF RevokeAll, Goto
    <2> QED
      BY <2>2, <2>3 DEF Late, OldSessionsOverlap
  <1>4. ASSUME \A r \in Requests : ~SetPassword(r) /\ ~RevokeAll(r)
        PROVE  Late' /\ OldSessionsOverlap'
    <2>1. ASSUME NEW r \in Requests, At(r, "revokeAll")
          PROVE  pc'[r] = "revokeAll"
      <3>1. ASSUME NEW q \in Requests, Step(q) PROVE pc'[r] = "revokeAll"
        BY <1>1, <1>4, <2>1, <3>1, StepMoves DEF Goto, At
      <3>2. ASSUME NEW q \in Requests, NEW a, NEW where, Arrives(q, a, where)
            PROVE  pc'[r] = "revokeAll"
        BY <1>1, <2>1, <3>2 DEF Arrives, Goto, At
      <3>3. CASE Tick \/ UNCHANGED vars
        BY <2>1, <3>3 DEF Tick, vars, At
      <3> QED
        BY <3>1, <3>2, <3>3, NextCases
    <2>2. ASSUME NEW n \in Requests, n \in crossed \/ \E r \in Requests : At(r, "revokeAll")
          PROVE  n \in crossed' \/ \E r \in Requests : At(r, "revokeAll")'
      BY <2>1, <2>2, CrossedGrows DEF At
    <2>3. user # NoAccount => user'.password = user.password
      BY <1>4, PasswordStays
    <2>4. ASSUME NEW n \in Requests, pc'[n] \in {"writeSuccess", "openSession"},
                 ask'[n].password # user'.password
          PROVE  n \in crossed' \/ \E r \in Requests : At(r, "revokeAll")'
      <3>1. CASE pc[n] \in {"writeSuccess", "openSession"} /\ ask'[n] = ask[n]
        BY <1>1, <2>2, <2>3, <2>4, <3>1 DEF Late
      <3>2. ASSUME NEW a, NEW where, Arrives(n, a, where), ArrivesAt(n, a, where)
            PROVE  FALSE
        <4>1. where = "writeSuccess" \/ where = "openSession"
          BY <1>1, <2>4, <3>2 DEF Arrives, Goto
        <4>2. a.password = user.password
          BY <3>2, <4>1 DEF ArrivesAt
        <4> QED
          BY <2>4, <3>2, <4>2 DEF Arrives, rows, Types1, Errands
      <3>3. \/ pc[n] \in {"writeSuccess", "openSession"} /\ ask'[n] = ask[n]
            \/ \E a, where : Arrives(n, a, where) /\ ArrivesAt(n, a, where)
        <4>1. ASSUME NEW q \in Requests, Step(q)
              PROVE  pc[n] \in {"writeSuccess", "openSession"} /\ ask'[n] = ask[n]
          BY <1>1, <2>4, <4>1, StepMoves DEF Goto
        <4>2. ASSUME NEW q \in Requests \ {n}, NEW a, NEW where, Arrives(q, a, where)
              PROVE  pc[n] \in {"writeSuccess", "openSession"} /\ ask'[n] = ask[n]
          BY <1>1, <2>4, <4>2 DEF Arrives, Goto, Types1, Errands
        <4>3. CASE Tick \/ UNCHANGED vars
          BY <2>4, <4>3 DEF Tick, vars
        <4> QED
          BY <4>1, <4>2, <4>3, NextCases
      <3> QED
        BY <3>1, <3>2, <3>3
    <2>5. ASSUME NEW n \in Requests, session'[n].open, session'[n].proof # user'.password
          PROVE  n \in crossed' \/ \E r \in Requests : At(r, "revokeAll")'
      <3>1. CASE OpenSession(n)
        <4>1. /\ session'[n].proof = ask[n].password /\ pc[n] = "openSession"
              /\ user # NoAccount
          BY <1>1, <3>1 DEF OpenSession, OpenRow, At
        <4> QED
          BY <2>2, <2>3, <2>5, <4>1 DEF Late
      <3>2. CASE ~OpenSession(n)
        <4>1. session[n].open /\ session[n].proof = session'[n].proof
          BY <2>5, <3>2, SessionStays
        <4>2. user # NoAccount
          BY <4>1 DEF Grants, NoSession
        <4> QED
          BY <2>2, <2>3, <2>5, <4>1, <4>2 DEF OldSessionsOverlap
      <3> QED
        BY <3>1, <3>2
    <2> QED
      BY <2>4, <2>5 DEF Late, OldSessionsOverlap
  <1> QED
    BY <1>2, <1>3, <1>4

\* A session that proved a password which is not the account's any more is open only for a
\* login that was under way when the sessions were revoked, or until they are.
THEOREM OldSessionsCrossed == Spec => []OldSessionsOverlap
  <1>1. Init => Late /\ OldSessionsOverlap
    BY DEF Init, SessionsInit, NoSession, Late, OldSessionsOverlap
  <1>2. Types1 /\ Grants /\ [Next]_vars => Grants'
    BY NextGrants
  <1>3. Types1 /\ Grants /\ Late /\ OldSessionsOverlap /\ [Next]_vars
           => Late' /\ OldSessionsOverlap'
    BY NextOld
  <1> QED
    BY <1>1, <1>2, <1>3, InitTypes, NextTypes, InitGrants, PTL DEF Spec
-----------------------------------------------------------------------------
(* Lifetimes.                                                              *)

\* A session that is not to be remembered does not outlive its refresh token; one whose
\* tokens are still to be signed has no more than its whole life before it.
Lives ==
    \A n \in Requests :
        session[n].open /\ ~ask[n].remember
            => IF pc[n] = "signTokens" THEN session[n].left <= ShortTTL
                                       ELSE session[n].left <= token[n].refresh

\* A refresh token grows old only with time and is signed once.
LEMMA TokensStay ==
    ASSUME Types1, [Next]_vars, NEW n \in Requests, ~Tick, ~SignTokens(n)
    PROVE  token'[n].refresh = token[n].refresh
  <1>1. token \in [Requests -> [access : Nat, refresh : Nat]]
    BY DEF Types1, TypeOK, TablesOK, SessionsTypeOK
  <1>2. ASSUME NEW r \in Requests, SignTokens(r), r # n PROVE token'[n] = token[n]
    BY <1>1, <1>2 DEF SignTokens, SignBoth
  <1>3. ASSUME NEW r \in Requests, RenewAccess(r)
        PROVE  \/ token'[n] = token[n]
               \/ token'[n] = [token[n] EXCEPT !.access = AccessTTL]
    BY <1>1, <1>3 DEF RenewAccess, SignAccess
  <1>4. ASSUME NEW r \in Requests, Step(r), ~SignTokens(r), ~RenewAccess(r)
        PROVE  token' = token
    BY <1>4 DEF Step, CreateUser, WriteFailure, WriteSuccess, OpenSession, Retire, Issue,
                CountGuess, Mark, Activate, SetPassword, RevokeAll, sessionVars
  <1>5. ASSUME NEW r \in Requests, NEW a, NEW where, Arrives(r, a, where)
        PROVE  token' = token
    BY <1>5 DEF Arrives
  <1>6. CASE UNCHANGED vars
    BY <1>6 DEF vars, tables, sessionVars
  <1> QED
    BY <1>1, <1>2, <1>3, <1>4, <1>5, <1>6, NextCases

\* Lives is preserved, for row and token grow old together.
LEMMA NextLives ==
    ASSUME ShortTTL <= RefreshTTL, Types1, Grants, Lives, [Next]_vars
    PROVE  Lives'
  <1>1. /\ pc \in [Requests -> Stages] /\ session \in [Requests -> SessionRows]
        /\ token \in [Requests -> [access : Nat, refresh : Nat]]
        /\ ShortTTL \in Nat /\ RefreshTTL \in Nat
    BY LifetimesAssumption DEF Types1, TypeOK, TablesOK, SessionsTypeOK, RequestsOK
  <1>2. ASSUME NEW n \in Requests
        PROVE  session[n].left \in Nat /\ token[n].refresh \in Nat
    BY <1>1, SessionUpdate
  <1>3. ASSUME NEW n \in Requests, session'[n].open, ~ask'[n].remember
        PROVE  IF pc'[n] = "signTokens" THEN session'[n].left <= ShortTTL
                                        ELSE session'[n].left <= token'[n].refresh
    <2>1. CASE OpenSession(n)
      <3>1. pc'[n] = "signTokens" /\ ask' = ask /\ ask[n].remember \in BOOLEAN
        BY <1>1, <2>1 DEF OpenSession, Goto, At, Types1, Errands
      <3>2. session'[n].left = Lifetime(ask[n].remember)
        BY <1>1, <2>1 DEF OpenSession, OpenRow
      <3> QED
        BY <1>1, <1>3, <3>1, <3>2 DEF Lifetime
    <2>2. CASE ~OpenSession(n)
      <3>1. /\ session[n].open /\ session[n] # NoSession
            /\ session'[n].left \in {session[n].left, Less(session[n].left)}
        BY <1>3, <2>2, SessionStays DEF NoSession
      <3>2. session'[n].left <= session[n].left
        BY <1>2, <3>1 DEF Less
      <3>3. session'[n].left \in Nat
        BY <1>2, <3>1 DEF Less
      <3>4. pc[n] # "idle"
        BY <3>1 DEF Grants
      <3>5. CASE SignTokens(n)
        <4>1. /\ pc[n] = "signTokens" /\ pc'[n] = "ok" /\ token'[n].refresh = RefreshTTL
              /\ ask' = ask
          BY <1>1, <3>5 DEF SignTokens, SignBoth, Goto, At
        <4>2. session[n].left <= ShortTTL
          BY <1>3, <3>1, <4>1 DEF Lives
        <4> QED
          BY <1>1, <1>2, <3>2, <3>3, <4>1, <4>2
      <3>6. CASE Tick
        <4>1. /\ UNCHANGED <<pc, ask>>
              /\ session'[n].left = Less(session[n].left)
              /\ token'[n].refresh = Less(token[n].refresh)
          BY <1>1, <3>6, RowStays DEF Tick, AgeSessions
        <4>2. IF pc[n] = "signTokens" THEN session[n].left <= ShortTTL
                                      ELSE session[n].left <= token[n].refresh
          BY <1>3, <3>1, <4>1 DEF Lives
        <4> QED
          BY <1>1, <1>2, <4>1, <4>2 DEF Less
      <3>7. CASE ~Tick /\ ~SignTokens(n)
        <4>1. token'[n].refresh = token[n].refresh
          BY <3>7, TokensStay
        <4>2. ask'[n] = ask[n] /\ (pc'[n] = "signTokens" <=> pc[n] = "signTokens")
          <5>1. ASSUME NEW r \in Requests, Step(r)
                PROVE  ask'[n] = ask[n] /\ (pc'[n] = "signTokens" <=> pc[n] = "signTokens")
            <6>1. PICK where \in Stages : Goto(r, where) /\ ask' = ask
                                          /\ (where = "signTokens" => OpenSession(r))
              BY <5>1, StepMoves
            <6>2. r = n => pc[n] # "signTokens"
              BY <3>7, <5>1 DEF Step, CreateUser, WriteFailure, WriteSuccess, OpenSession,
                 RenewAccess, Retire, Issue, CountGuess, Mark, Activate, SetPassword, RevokeAll, At
            <6> QED
              BY <1>1, <2>2, <6>1, <6>2 DEF Goto
          <5>2. ASSUME NEW r \in Requests, NEW a, NEW where, Arrives(r, a, where)
                PROVE  ask'[n] = ask[n] /\ pc'[n] = pc[n]
            BY <1>1, <3>4, <5>2 DEF Arrives, Goto, Types1, Errands
          <5>3. CASE UNCHANGED vars
            BY <5>3 DEF vars
          <5> QED
            BY <3>7, <5>1, <5>2, <5>3, NextCases
        <4>3. IF pc[n] = "signTokens" THEN session[n].left <= ShortTTL
                                      ELSE session[n].left <= token[n].refresh
          BY <1>3, <3>1, <4>2 DEF Lives
        <4> QED
          BY <1>1, <1>2, <3>2, <3>3, <4>1, <4>2, <4>3
      <3> QED
        BY <3>5, <3>6, <3>7
    <2> QED
      BY <2>1, <2>2
  <1> QED
    BY <1>3 DEF Lives

\* If refresh tokens live at least as long as sessions that are not to be remembered, every
\* such session that listSessions shows can be refreshed once its tokens are signed.
THEOREM ListedSessionsRefresh ==
    ASSUME ShortTTL <= RefreshTTL
    PROVE  Spec => []ListedIsRefreshable
  <1>1. Init => Lives
    BY DEF Init, SessionsInit, NoSession, Lives
  <1>2. Types1 /\ Grants /\ [Next]_vars => Grants'
    BY NextGrants
  <1>3. Types1 /\ Grants /\ Lives /\ [Next]_vars => Lives'
    BY NextLives
  <1>4. Types1 /\ Lives => ListedIsRefreshable
    <2> SUFFICES ASSUME Types1, Lives, NEW n \in Listed, ~ask[n].remember, ~At(n, "signTokens")
                 PROVE  Refreshable(n)
      BY DEF ListedIsRefreshable
    <2>1. /\ session[n].left \in Nat /\ token[n].refresh \in Nat
          /\ session[n].open /\ session[n].left > 0
      BY SessionUpdate DEF Listed, Types1, TypeOK, TablesOK, SessionsTypeOK
    <2>2. session[n].left <= token[n].refresh
      BY <2>1 DEF Lives, Listed, At
    <2> QED
      BY <2>1, <2>2 DEF Refreshable
  <1> QED
    BY <1>1, <1>2, <1>3, <1>4, InitTypes, NextTypes, InitGrants, PTL DEF Spec
-----------------------------------------------------------------------------
(* Account implements Access.                                              *)

\* The grant of a session, and to whom it owes access, as in Contract.
GrantOf(n) == IF session[n] = NoSession THEN "none"
              ELSE IF n \in Listed THEN "open" ELSE "ended"
OwedTo(n) == {r \in Requests : \/ At(r, "signTokens") /\ r = n
                               \/ At(r, "signAccess") /\ target[r] = n}

\* A step on which some grants end and nobody gets access: End, or a stutter.
LEMMA MapsToEnd ==
    ASSUME \A n \in Requests : /\ \/ GrantOf(n)' = GrantOf(n)
                                  \/ GrantOf(n) = "open" /\ GrantOf(n)' = "ended"
                               /\ OwedTo(n)' = OwedTo(n)
                               /\ token'[n].access = token[n].access
    PROVE  Contract!End
  <1>1. \A n \in Requests : GrantOf(n)' \in {"none", "open", "ended"}
    BY DEF GrantOf
  <1> QED
    BY <1>1 DEF Contract!End, Contract!SomeEnd, GrantOf, OwedTo

\* A step that opens a grant and owes it to the login.
LEMMA MapsToOpen ==
    ASSUME NEW n \in Requests, GrantOf(n) = "none", GrantOf(n)' = "open", OwedTo(n)' = {n},
           \A m \in Requests \ {n} : GrantOf(m)' = GrantOf(m) /\ OwedTo(m)' = OwedTo(m),
           UNCHANGED token
    PROVE  Contract!Open(n)
  <1>1. [m \in Requests |-> GrantOf(m)]' = [[m \in Requests |-> GrantOf(m)] EXCEPT ![n] = "open"]
    OBVIOUS
  <1>2. [m \in Requests |-> OwedTo(m)]' = [[m \in Requests |-> OwedTo(m)] EXCEPT ![n] = {n}]
    OBVIOUS
  <1>3. UNCHANGED [m \in Requests |-> token[m].access]
    OBVIOUS
  <1> QED
    BY <1>1, <1>2, <1>3 DEF Contract!Open, GrantOf, OwedTo

\* A step on which a request finds an open grant.
LEMMA MapsToAsk ==
    ASSUME NEW n \in Requests, NEW r \in Requests, GrantOf(n) = "open",
           OwedTo(n)' = OwedTo(n) \cup {r}, \A m \in Requests \ {n} : OwedTo(m)' = OwedTo(m),
           UNCHANGED <<session, token>>
    PROVE  Contract!Ask(n, r)
  BY DEF Contract!Ask, GrantOf, OwedTo, Listed

\* A step on which a request gets its access.
LEMMA MapsToGive ==
    ASSUME NEW n \in Requests, NEW r \in OwedTo(n),
           OwedTo(n)' = OwedTo(n) \ {r}, \A m \in Requests \ {n} : OwedTo(m)' = OwedTo(m),
           token'[n].access = AccessTTL,
           \A m \in Requests \ {n} : token'[m].access = token[m].access,
           UNCHANGED session
    PROVE  Contract!Give(n, r)
  BY DEF Contract!Give, GrantOf, OwedTo, Listed

\* What becomes of a grant that is not opened.
LEMMA GrantStays ==
    ASSUME Types1, Grants, [Next]_vars, NEW n \in Requests, ~OpenSession(n)
    PROVE  \/ GrantOf(n)' = GrantOf(n)
           \/ GrantOf(n) = "open" /\ GrantOf(n)' = "ended"
  <1>1. session[n].left \in Nat
    BY SessionUpdate DEF Types1, TypeOK, TablesOK, SessionsTypeOK
  <1>2. /\ session'[n].open => session[n].open
        /\ session'[n].left > 0 => session[n].left > 0
        /\ session[n] = NoSession => session'[n] = NoSession
        /\ session[n] # NoSession => session'[n].proof \in Passwords
    BY <1>1, SessionStays DEF Less, Grants
  <1>3. session[n] # NoSession => session'[n] # NoSession
    BY <1>2, PasswordsAssumption DEF NoSession
  <1>4. n \in Listed' => n \in Listed
    BY <1>2 DEF Listed
  <1> QED
    BY <1>2, <1>3, <1>4 DEF GrantOf

\* Every step of Account is a step of Access or a stutter.
LEMMA NextImplements ==
    ASSUME Types1, Grants, [Next]_vars
    PROVE  Contract!Next \/ UNCHANGED Contract!vars
  <1>1. /\ pc \in [Requests -> Stages] /\ session \in [Requests -> SessionRows]
        /\ token \in [Requests -> [access : Nat, refresh : Nat]]
        /\ \A r \in Requests : pc[r] = "signAccess" => target[r] \in Requests
    BY DEF Types1, TypeOK, TablesOK, SessionsTypeOK, RequestsOK, Errands
  <1>2. ASSUME NEW r \in Requests, OpenSession(r)
        PROVE  Contract!Open(r)
    <2>1. /\ pc[r] = "openSession" /\ Goto(r, "signTokens") /\ session[r] = NoSession
          /\ UNCHANGED <<token, target>>
      BY <1>2 DEF OpenSession, At, Grants
    <2>2. Lifetime(ask[r].remember) > 0 /\ Lifetime(ask[r].remember) \in Nat
      BY LifetimesAssumption DEF Lifetime
    <2>3. session'[r] = [open |-> TRUE, proof |-> ask[r].password,
                         left |-> Lifetime(ask[r].remember)]
      BY <1>1, <1>2 DEF OpenSession, OpenRow
    <2>4. \A m \in Requests \ {r} : session'[m] = session[m]
      BY <1>1, <1>2 DEF OpenSession, OpenRow
    <2>5. GrantOf(r) = "none" /\ GrantOf(r)' = "open"
      BY <2>1, <2>2, <2>3 DEF GrantOf, Listed, NoSession
    <2>6. \A m \in Requests \ {r} : GrantOf(m)' = GrantOf(m)
      BY <2>4 DEF GrantOf, Listed
    <2>7. \A q \in Requests : At(q, "signAccess") => target[q] # r
      BY <2>1 DEF Grants, At
    <2>8. OwedTo(r)' = {r} /\ \A m \in Requests \ {r} : OwedTo(m)' = OwedTo(m)
      BY <1>1, <2>1, <2>7 DEF OwedTo, At, Goto
    <2> QED
      BY <2>1, <2>5, <2>6, <2>8, MapsToOpen
  <1>3. ASSUME NEW r \in Requests, SignTokens(r)
        PROVE  Contract!Give(r, r)
    <2>1. pc[r] = "signTokens" /\ Goto(r, "ok") /\ UNCHANGED <<session, target>>
      BY <1>3 DEF SignTokens, At
    <2>2. /\ token'[r].access = AccessTTL
          /\ \A m \in Requests \ {r} : token'[m].access = token[m].access
      BY <1>1, <1>3 DEF SignTokens, SignBoth
    <2>3. /\ r \in OwedTo(r) /\ OwedTo(r)' = OwedTo(r) \ {r}
          /\ \A m \in Requests \ {r} : OwedTo(m)' = OwedTo(m)
      BY <1>1, <2>1 DEF OwedTo, At, Goto
    <2> QED
      BY <2>1, <2>2, <2>3, MapsToGive
  <1>4. ASSUME NEW r \in Requests, RenewAccess(r)
        PROVE  \E n \in Requests : Contract!Give(n, r)
    <2>1. PICK n \in Requests : target[r] = n
      BY <1>1, <1>4 DEF RenewAccess, At
    <2>2. pc[r] = "signAccess" /\ Goto(r, "ok") /\ UNCHANGED <<session, target>>
      BY <1>4 DEF RenewAccess, At
    <2>3. /\ token'[n].access = AccessTTL
          /\ \A m \in Requests \ {n} : token'[m].access = token[m].access
      BY <1>1, <1>4, <2>1 DEF RenewAccess, SignAccess
    <2>4. /\ r \in OwedTo(n) /\ OwedTo(n)' = OwedTo(n) \ {r}
          /\ \A m \in Requests \ {n} : OwedTo(m)' = OwedTo(m)
      BY <1>1, <2>1, <2>2 DEF OwedTo, At, Goto
    <2> QED
      BY <2>2, <2>3, <2>4, MapsToGive
  <1>5. ASSUME NEW r \in Requests, Step(r), ~OpenSession(r), ~SignTokens(r), ~RenewAccess(r)
        PROVE  Contract!End
    <2>1. token' = token
      BY <1>5 DEF Step, CreateUser, WriteFailure, WriteSuccess, Retire, Issue, CountGuess, Mark,
                  Activate, SetPassword, RevokeAll, sessionVars
    <2>2. pc[r] \notin {"openSession", "signTokens", "signAccess"}
      BY <1>5 DEF Step, CreateUser, WriteFailure, WriteSuccess, Retire, Issue, CountGuess, Mark,
                  Activate, SetPassword, RevokeAll, At
    <2>3. PICK where \in Stages : /\ Goto(r, where) /\ target' = target
                                  /\ where \notin {"signTokens", "signAccess"}
      BY <1>5, StepMoves
    <2>4. \A m \in Requests : OwedTo(m)' = OwedTo(m)
      BY <1>1, <2>2, <2>3 DEF OwedTo, At, Goto
    <2>5. \A m \in Requests : ~OpenSession(m)
      BY <1>1, <1>5, <2>2, <2>3 DEF OpenSession, At, Goto
    <2> QED
      BY <2>1, <2>4, <2>5, GrantStays, MapsToEnd
  <1>6. ASSUME NEW r \in Requests, NEW a \in Asked, NEW where \in Stages \ {"idle"},
               Arrives(r, a, where), ArrivesAt(r, a, where)
        PROVE  Contract!End \/ \E n \in Requests : Contract!Ask(n, r)
    <2>1. /\ pc[r] = "idle" /\ Goto(r, where) /\ token' = token
          /\ \A q \in Requests \ {r} : target'[q] = target[q]
      BY <1>1, <1>6 DEF Arrives, Types1, TypeOK, RequestsOK
    <2>2. CASE where = "signAccess"
      <3>1. PICK n \in Requests : target'[r] = n /\ n \in Listed /\ UNCHANGED session
        BY <1>6, <2>2 DEF Arrives, ArrivesAt, Listed
      <3>2. GrantOf(n) = "open"
        BY <3>1 DEF GrantOf, Listed, NoSession
      <3>3. /\ OwedTo(n)' = OwedTo(n) \cup {r}
            /\ \A m \in Requests \ {n} : OwedTo(m)' = OwedTo(m)
        BY <1>1, <2>1, <2>2, <3>1 DEF OwedTo, At, Goto
      <3> QED
        BY <2>1, <3>1, <3>2, <3>3, MapsToAsk
    <2>3. CASE where # "signAccess"
      <3>1. where # "signTokens"
        BY <1>6 DEF ArrivesAt
      <3>2. \A m \in Requests : OwedTo(m)' = OwedTo(m)
        BY <1>1, <2>1, <2>3, <3>1 DEF OwedTo, At, Goto
      <3>3. \A m \in Requests : ~OpenSession(m)
        BY <1>1, <2>1 DEF OpenSession, At, Goto
      <3> QED
        BY <2>1, <3>2, <3>3, GrantStays, MapsToEnd
    <2> QED
      BY <2>2, <2>3
  <1>7. CASE Tick
    <2>1. /\ UNCHANGED <<pc, target>>
          /\ \A n \in Requests : token'[n].access = Less(token[n].access)
      BY <1>7 DEF Tick, AgeSessions
    <2>2. \A n \in Requests : OwedTo(n)' = OwedTo(n)
      BY <2>1 DEF OwedTo, At
    <2>3. \A n \in Requests : \/ GrantOf(n)' = GrantOf(n)
                              \/ GrantOf(n) = "open" /\ GrantOf(n)' = "ended"
      <3>1. \A n \in Requests : ~OpenSession(n)
        BY <1>1, <2>1 DEF OpenSession, At, Goto
      <3> QED
        BY <3>1, GrantStays
    <2>4. \A n \in Requests : GrantOf(n)' \in {"none", "open", "ended"}
      BY DEF GrantOf
    <2>5. Contract!SomeEnd
      BY <2>3, <2>4 DEF Contract!SomeEnd, GrantOf
    <2>6. Contract!Pass
      BY <2>1, <2>2, <2>5 DEF Contract!Pass, OwedTo, Less
    <2> QED
      BY <2>6 DEF Contract!Next
  <1>8. CASE UNCHANGED vars
    BY <1>8 DEF vars, tables, sessionVars, Contract!vars, Listed, At
  <1> QED
    BY <1>2, <1>3, <1>4, <1>5, <1>6, <1>7, <1>8, NextCases DEF Contract!Next

\* Account keeps the promise of the sessions: access comes from an open grant only, a grant
\* never opens again, and what it gives after its end was asked for before.
THEOREM AccountImplementsAccess == Spec => ImplementsAccess
  <1>1. Init => Contract!Init
    BY DEF Init, SessionsInit, NoToken, At, Contract!Init
  <1>2. Types1 /\ Grants /\ [Next]_vars => [Contract!Next]_(Contract!vars)
    BY NextImplements
  <1>3. Types1 /\ Grants /\ [Next]_vars => Grants'
    BY NextGrants
  <1> QED
    BY <1>1, <1>2, <1>3, InitTypes, NextTypes, InitGrants, PTL
       DEF Spec, ImplementsAccess, Contract!Spec
=============================================================================
