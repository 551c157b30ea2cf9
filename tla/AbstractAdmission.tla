-------------------------- MODULE AbstractAdmission --------------------------
(***************************************************************************)
(* What admission promises, without queue, condition variable or deadline:  *)
(* a book of reservations that never exceeds the budget, where a cancelled  *)
(* identity gains nothing, and a reservation ends only by being released    *)
(* or moved in one step to another identity.                                *)
(***************************************************************************)
EXTENDS Reservations

VARIABLES active, cancelled

vars == <<active, cancelled>>

Init ==
    /\ active = [o \in Owners |-> NoReservation]
    /\ cancelled = {}

Admit(o, s) ==
    /\ o \notin cancelled
    /\ active[o] = NoReservation
    /\ active' = [active EXCEPT ![o] = s]
    /\ WithinLimits(active')
    /\ Cardinality(Active(active')) <= MaxActive
    /\ UNCHANGED cancelled

Move(o, a, s) ==
    /\ a \notin cancelled
    /\ active[o] # NoReservation
    /\ a = o \/ active[a] = NoReservation
    /\ active' = [active EXCEPT ![o] = NoReservation, ![a] = s]
    /\ WithinLimits(active')
    /\ UNCHANGED cancelled

Release(o) ==
    /\ active' = [active EXCEPT ![o] = NoReservation]
    /\ UNCHANGED cancelled

Cancel(o) ==
    /\ cancelled' = cancelled \cup {o}
    /\ UNCHANGED active

Next ==
    \E o \in Owners :
        \/ \E s \in Stages : Admit(o, s)
        \/ \E a \in Owners, s \in Stages : Move(o, a, s)
        \/ Release(o)
        \/ Cancel(o)

Spec == Init /\ [][Next]_vars
=============================================================================
