---------------------------- MODULE Reservations ----------------------------
(***************************************************************************)
(* Resource reservations of the runtime Controller: which owner (an attempt *)
(* or a physical pool owner) is charged which stage peak.  Shared by the    *)
(* admission queue, by its abstract specification and by their proofs.      *)
(*                                                                          *)
(* A reservation is a pair (nano_cpus, memory_bytes) in the code and a      *)
(* function over Resources here.  The sum of a resource is the cardinality  *)
(* of the set of units held, which is what the sum of naturals counts.      *)
(***************************************************************************)
EXTENDS Integers, FiniteSets

CONSTANTS
    Owners,     \* attempt ids and pool owner ids
    Resources,  \* {"cpu", "memory"}
    Stages,     \* the stage peaks callers ask for
    Limit,      \* _limits
    Baseline,   \* _baseline, charged whatever is active
    MaxActive,  \* _max_active; None in the code is any bound >= |Owners|
    NoReservation

ASSUME ReservationsAssumption ==
    /\ IsFiniteSet(Owners)
    /\ Limit \in [Resources -> Nat]
    /\ Baseline \in [Resources -> Nat]
    /\ \A r \in Resources : Baseline[r] <= Limit[r]
    /\ Stages \subseteq [Resources -> Nat]
    /\ MaxActive \in Nat \ {0}
    /\ NoReservation \notin [Resources -> Nat]

\* Contents of the dictionary _active.
Book == [Owners -> Stages \cup {NoReservation}]

Active(book) == {o \in Owners : book[o] # NoReservation}

Held(book, o, r) == IF book[o] = NoReservation THEN 0 ELSE book[o][r]

Units(book, r) == UNION {{o} \X (1..Held(book, o, r)) : o \in Owners}

\* sum(item[r] for item in self._active.values())
Used(book, r) == Cardinality(Units(book, r))

\* The stage alone fits the machine (the ValueError guard of acquire, transfer).
Admissible(s) == \A r \in Resources : s[r] + Baseline[r] <= Limit[r]

\* A complete book is within the budget.
WithinLimits(book) == \A r \in Resources : Baseline[r] + Used(book, r) <= Limit[r]
=============================================================================
