------------------------------- MODULE FairLock -------------------------------
(***************************************************************************)
(* What app/conversation/fifo_lock.py promises: "fair, starvation-free     *)
(* locks that grant access in first-in-first-out order".  One owner at a   *)
(* time, clients that wait in order of arrival, and the lock handed        *)
(* directly from an owner to the client with nobody ahead of it, so that   *)
(* nobody who arrives later can come in between.  A waiter may give up; an *)
(* owner may also vanish without handing over, and then the lock stays     *)
(* taken for good.                                                         *)
(***************************************************************************)
CONSTANTS
    Clients,    \* whoever wants the lock
    Nobody,     \* the owner of a free lock
    Vanished    \* the owner of a lock whose owner is gone

VARIABLES
    owner,
    waiting,    \* the clients that wait
    ahead       \* whom each of them waits behind

vars == <<owner, waiting, ahead>>

Init ==
    /\ owner = Nobody
    /\ waiting = {}
    /\ ahead = [c \in Clients |-> {}]

Arrive(c) ==
    /\ c # owner
    /\ c \notin waiting
    /\ \/ /\ owner = Nobody
          /\ owner' = c
          /\ UNCHANGED <<waiting, ahead>>
       \/ /\ owner # Nobody
          /\ waiting' = waiting \union {c}
          /\ ahead' = [ahead EXCEPT ![c] = waiting]
          /\ UNCHANGED owner

Leave(c) ==
    /\ waiting' = waiting \ {c}
    /\ ahead' = [d \in Clients |-> IF d = c THEN {} ELSE ahead[d] \ {c}]

GiveUp(c) ==
    /\ c \in waiting
    /\ Leave(c)
    /\ UNCHANGED owner

HandOver ==
    /\ owner \in Clients
    /\ \/ /\ waiting = {}
          /\ owner' = Nobody
          /\ UNCHANGED <<waiting, ahead>>
       \/ \E c \in waiting :
             /\ ahead[c] = {}
             /\ owner' = c
             /\ Leave(c)

Vanish ==
    /\ owner \in Clients
    /\ owner' = Vanished
    /\ UNCHANGED <<waiting, ahead>>

Next ==
    \/ \E c \in Clients : Arrive(c) \/ GiveUp(c)
    \/ HandOver
    \/ Vanish

Spec == Init /\ [][Next]_vars
=============================================================================
