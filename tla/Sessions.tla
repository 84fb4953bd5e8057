------------------------------ MODULE Sessions ------------------------------
(***************************************************************************)
(* The sessions of one account and the tokens issued for them: the rows of *)
(* the table Session, and the signed tokens the client holds, which no     *)
(* table records.  A session has the name of the login that opened it;     *)
(* every lifetime is what is left of it, in ticks.  The operations that    *)
(* use these steps are those of Account.                                   *)
(***************************************************************************)
EXTENDS Integers

CONSTANTS Requests,
          Passwords,
          AccessTTL,   \* jwt.accessExpiresIn
          RefreshTTL,  \* jwt.refreshExpiresIn
          ShortTTL,    \* what issueTokens gives a session
          LongTTL      \* what it gives one that is to be remembered

ASSUME PasswordsAssumption == "none" \notin Passwords
ASSUME LifetimesAssumption == {AccessTTL, RefreshTTL, ShortTTL, LongTTL} \subseteq Nat \ {0}

VARIABLES session,   \* Session, with the password its login has proved
          token      \* what is left of the tokens signed for each session

sessionVars == <<session, token>>

NoSession == [open |-> FALSE, proof |-> "none", left |-> 0]
SessionRows == [open : BOOLEAN, proof : Passwords \cup {"none"}, left : Nat]
NoToken == [access |-> 0, refresh |-> 0]

SessionsTypeOK ==
    /\ session \in [Requests -> SessionRows]
    /\ token \in [Requests -> [access : Nat, refresh : Nat]]

SessionsInit == /\ session = [n \in Requests |-> NoSession]
                /\ token = [n \in Requests |-> NoToken]

\* The row is neither revoked nor expired: what listSessions shows.
Listed == {n \in Requests : session[n].open /\ session[n].left > 0}

\* A request that carries n's access token gets past JwtAuthGuard; nobody looks at the row.
Accepted(n) == token[n].access > 0

\* (slip) The signature is enough to refresh.
RefreshableBySignature(n) == token[n].refresh > 0

\* n's refresh token is still good for a new access token.
Refreshable(n) == token[n].refresh > 0 /\ n \in Listed

\* (slip) Every session is remembered.
LifetimeLong(remember) == LongTTL

Lifetime(remember) == IF remember THEN LongTTL ELSE ShortTTL

OpenRow(n, password, remember) ==
    session' = [session EXCEPT ![n] = [open |-> TRUE, proof |-> password,
                                       left |-> Lifetime(remember)]]

SignBoth(n) == token' = [token EXCEPT ![n] = [access |-> AccessTTL, refresh |-> RefreshTTL]]

SignAccess(n) == token' = [token EXCEPT ![n].access = AccessTTL]

Revoke(sessions) ==
    session' = [n \in Requests |-> IF n \in sessions THEN [session[n] EXCEPT !.open = FALSE]
                                                     ELSE session[n]]

Less(t) == IF t > 0 THEN t - 1 ELSE 0

AgeSessions ==
    /\ session' = [n \in Requests |-> [session[n] EXCEPT !.left = Less(@)]]
    /\ token' = [n \in Requests |-> [access |-> Less(token[n].access),
                                     refresh |-> Less(token[n].refresh)]]
=============================================================================
