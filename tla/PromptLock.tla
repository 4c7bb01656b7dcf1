------------------------------ MODULE PromptLock -------------------------------
(***************************************************************************)
(* The lock the storage assumes: an attempt gets it or is refused at once, *)
(* one attempt owns it at a time, and only its owner gives it back, unless *)
(* another program takes it away.  An owner that dies, or loses track of   *)
(* what it made, leaves it locked.                                         *)
(***************************************************************************)
CONSTANTS Attempts, Nobody

VARIABLES owner,    \* the attempt that has locked, or Nobody
          status    \* how far each attempt has come

vars == <<owner, status>>

Statuses == {"new", "owner", "refused", "finished", "dead"}

Init ==
    /\ owner = Nobody
    /\ status = [a \in Attempts |-> "new"]

Acquire(a) ==
    /\ status[a] = "new" /\ owner = Nobody
    /\ owner' = a
    /\ status' = [status EXCEPT ![a] = "owner"]

Refuse(a) ==
    /\ status[a] = "new" /\ owner # Nobody
    /\ status' = [status EXCEPT ![a] = "refused"]
    /\ UNCHANGED owner

Release(a) ==
    /\ status[a] = "owner"
    /\ owner' = Nobody
    /\ status' = [status EXCEPT ![a] = "finished"]

\* Another program takes the lock away: its owner is one no more.
Evict(a) ==
    /\ owner = a
    /\ owner' = Nobody
    /\ status' = [status EXCEPT ![a] = IF @ = "owner" THEN "finished" ELSE @]

\* The owner stops without releasing.
Abandon(a) ==
    /\ status[a] = "owner"
    /\ status' = [status EXCEPT ![a] = "dead"]
    /\ UNCHANGED owner

\* An attempt that owns nothing stops.
Stop(a) ==
    /\ status[a] \in {"new", "refused", "finished"}
    /\ status' = [status EXCEPT ![a] = "dead"]
    /\ UNCHANGED owner

Next == \E a \in Attempts :
            \/ Acquire(a) \/ Refuse(a) \/ Release(a) \/ Evict(a)
            \/ Abandon(a) \/ Stop(a)

Spec == Init /\ [][Next]_vars
================================================================================
