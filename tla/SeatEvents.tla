----------------------------- MODULE SeatEvents -----------------------------
(***************************************************************************)
(* SeatsGateway on top of SeatHold: what those who follow a trip are told. *)
(* An operation on seats ends by broadcasting one event about its seats to *)
(* the trip's room.  The broadcast needs no await, but by then the answer  *)
(* to the last command may be old: others may have changed the seats, and  *)
(* may have told of it first.  Who joins late or loses an event is not     *)
(* modelled: "told" is what the room heard.                                *)
(*                                                                         *)
(* "author" and "heard" only observe.                                      *)
(***************************************************************************)
EXTENDS SeatHold

VARIABLES unsent,   \* the event each call has still to broadcast
          told,     \* what the last event about each seat said of it
          \* auxiliary:
          author,   \* who changed the seat last; NoOne, too, once he has failed
          heard     \* who has told the room of the seat since then

newsVars == <<unsent, told, author, heard>>
eventVars == <<vars, newsVars>>

Nothing == "none"

EventInit ==
    /\ Init
    /\ unsent = [c \in Calls |-> Nothing]
    /\ told = [s \in Seats |-> "AVAILABLE"]
    /\ author = [s \in Seats |-> NoOne]
    /\ heard = [s \in Seats |-> {}]

\* 'held' and 'booked', and for the seats alike 'released' and 'available': the event of
\* the call whose last command was the one it sent from here.
Event(where) == CASE where = "mark" -> "HELD"
                  [] where = "unlockBooked" -> "BOOKED"
                  [] OTHER -> "AVAILABLE"

RequestFinishes(c) ==
    phase[c] \in {"mark", "freeSeats", "unlockBooked", "countUp"} /\ phase'[c] = "ok"

\* (slip) The sweep broadcasts before it frees the seats.
FinishesEarly(c) == \/ RequestFinishes(c)
                    \/ At(c, "expire") /\ phase'[c] = "freeSwept"

\* In this step the call's last command is answered.
Finishes(c) == \/ RequestFinishes(c)
               \/ At(c, "sweeping") /\ pc[c] # "done" /\ pc'[c] = "done"

Fails(c) == phase[c] # phase'[c] /\ phase'[c] \in {"failed", "idle"}

\* A step of SeatHold, by calls that have nothing to broadcast first.
SeatStep ==
    /\ Next
    /\ \A c \in Calls : unsent[c] # Nothing => phase'[c] = phase[c]
    /\ unsent' = [c \in Calls |-> IF Finishes(c) THEN Event(phase[c]) ELSE unsent[c]]
    /\ author' = [s \in Seats |->
                     IF seat'[s] # seat[s] THEN CHOOSE c \in Calls : phase'[c] # phase[c]
                     ELSE IF \E c \in Calls : author[s] = c /\ Fails(c) THEN NoOne
                     ELSE author[s]]
    /\ heard' = [s \in Seats |-> IF seat'[s] # seat[s] THEN {} ELSE heard[s]]
    /\ UNCHANGED told

Broadcast(c) ==
    /\ unsent[c] # Nothing
    /\ told' = [s \in Seats |-> IF s \in SeatsOf(c) THEN unsent[c] ELSE told[s]]
    /\ heard' = [s \in Seats |-> IF s \in SeatsOf(c) THEN heard[s] \cup {c} ELSE heard[s]]
    /\ unsent' = [unsent EXCEPT ![c] = Nothing]
    /\ UNCHANGED <<vars, author>>

\* The process dies before the broadcast.
NoBroadcast(c) ==
    /\ c \in CanFail
    /\ unsent[c] # Nothing
    /\ unsent' = [unsent EXCEPT ![c] = Nothing]
    /\ author' = [s \in Seats |-> IF author[s] = c THEN NoOne ELSE author[s]]
    /\ UNCHANGED <<vars, told, heard>>

EventNext == SeatStep \/ \E c \in Calls : Broadcast(c) \/ NoBroadcast(c)

EventSpec == EventInit /\ [][EventNext]_eventVars

FairEventSpec == /\ EventSpec
                 /\ Fairness
                 /\ \A w \in Sweeps : /\ WF_eventVars(Broadcast(w))
                                       /\ <>[][~NoBroadcast(w)]_eventVars
-----------------------------------------------------------------------------
(* Properties *)

\* The call still has to come to its broadcast.
Busy(c) == \/ unsent[c] # Nothing
           \/ c \in Requests /\ Alive(c)
           \/ c \in Sweeps /\ At(c, "sweeping") /\ pc[c] # "done"

\* What the room was told of a seat last is what the seat is, unless the one who
\* changed the seat last has still to tell, or has failed before he could, or somebody
\* else has told of the seat since the change.
ViewFollows ==
    \A s \in Seats :
        told[s] # seat[s] /\ author[s] # NoOne
            => IF author[s] \in heard[s] THEN heard[s] # {author[s]} ELSE Busy(author[s])
=============================================================================
