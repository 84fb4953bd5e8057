------------------------------- MODULE Access -------------------------------
(***************************************************************************)
(* What the sessions of an account promise: whoever gets access gets it    *)
(* from a grant, and a grant that has ended - revoked, by whomever, or run *)
(* out - gives no more of it than was asked for before its end.            *)
(* No signatures, no passwords and no rows here: a grant, the access it    *)
(* has given, which runs out by itself, and the access it still owes.      *)
(***************************************************************************)
EXTENDS Integers

CONSTANTS Requests,   \* grants have the names of the requests they were made to
          AccessTTL   \* how long access lasts once given

VARIABLES grant,   \* "none", "open" or, for good, "ended"
          access,  \* how much longer each grant's access lasts
          owed     \* the requests each grant has still to answer with access

vars == <<grant, access, owed>>

Init == /\ grant = [n \in Requests |-> "none"]
        /\ access = [n \in Requests |-> 0]
        /\ owed = [n \in Requests |-> {}]

Open(n) == /\ grant[n] = "none"
           /\ grant' = [grant EXCEPT ![n] = "open"]
           /\ owed' = [owed EXCEPT ![n] = {n}]
           /\ UNCHANGED access

Ask(n, r) == /\ grant[n] = "open"
             /\ owed' = [owed EXCEPT ![n] = @ \cup {r}]
             /\ UNCHANGED <<grant, access>>

Give(n, r) == /\ r \in owed[n]
              /\ owed' = [owed EXCEPT ![n] = @ \ {r}]
              /\ access' = [access EXCEPT ![n] = AccessTTL]
              /\ UNCHANGED grant

\* Any of the open grants end, never to be opened again.
SomeEnd == /\ grant' \in [Requests -> {"none", "open", "ended"}]
           /\ \A n \in Requests : \/ grant'[n] = grant[n]
                                  \/ grant[n] = "open" /\ grant'[n] = "ended"

End == SomeEnd /\ UNCHANGED <<access, owed>>

\* Access runs out, and some grants may with it.
Pass == /\ SomeEnd
        /\ access' = [n \in Requests |-> IF access[n] > 0 THEN access[n] - 1 ELSE 0]
        /\ UNCHANGED owed

Next == \/ \E n \in Requests : Open(n)
        \/ \E n, r \in Requests : Ask(n, r) \/ Give(n, r)
        \/ End \/ Pass

Spec == Init /\ [][Next]_vars
=============================================================================
