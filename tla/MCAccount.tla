----------------------------- MODULE MCAccount ------------------------------
(* Small instances of Account for TLC: who asks for what. *)
EXTENDS Account, TLC

CONSTANTS r1, r2, r3, r4, r5

Ask(op) == [op |-> op]
SignUp(accepts) == [op |-> "register", password |-> "old", acceptTerms |-> accepts]
Reset(password) == [op |-> "reset", password |-> password]
SignIn(password) == [op |-> "login", password |-> password, remember |-> FALSE]
Remembered(password) == [op |-> "login", password |-> password, remember |-> TRUE]
Change(from, to) == [op |-> "change", current |-> from, password |-> to]

Starts == {NoAccount, [status |-> "ACTIVE", password |-> "old", failed |-> 0, locked |-> 0]}

\* From nothing, or from an account in use: registrations, logins with the right and a
\* wrong password, codes sent and presented, and changes of the password.
Everything ==
    r1 :> {SignUp(TRUE), SignIn("old"), Ask("forgot")}
    @@ r2 :> {Ask("verify"), Reset("new"), SignIn("bad")}
    @@ r3 :> {Ask("verify"), Reset("new"), SignIn("bad"), SignUp(TRUE), SignUp(FALSE)}
    @@ r4 :> {Change("old", "new"), Ask("resend")}
    @@ r5 :> {Ask("verify"), SignIn("bad")}

\* Sessions and their tokens.
Bearers ==
    r1 :> {SignIn("old"), Remembered("old")}
    @@ r2 :> {SignIn("old"), Ask("refresh")}
    @@ r3 :> {Ask("refresh"), Ask("end"), Ask("logoutOthers")}
    @@ r4 :> {Change("old", "new"), Ask("logout")}
    @@ r5 :> {Ask("refresh")}

Both == {Everything, Bearers}
=============================================================================
