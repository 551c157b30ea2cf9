-------------------------- MODULE RuntimeAdmission --------------------------
(***************************************************************************)
(* RuntimeAdmission (runtime_admission.py): the FIFO queue in front of the  *)
(* resource budget.  Every method runs under one Condition, so a call is    *)
(* one step, except that acquire and transfer may sleep in Condition.wait:  *)
(* the sleeping call is kept in `call', is woken by notify_all or by its    *)
(* deadline, and re-evaluates its loop in Recheck.                          *)
(***************************************************************************)
EXTENDS Reservations, Sequences, Functions

CONSTANTS
    MaxWaiting,      \* max_waiting
    ExclusiveOwners, \* TRUE: callers leave an owner alone while it is being moved
    NoCall

VARIABLES
    active,     \* _active
    waiting,    \* _waiting: identities in arrival order
    cancelled,  \* _cancelled, never shrinks
    call,       \* local variables of the call sleeping under an identity
    awake,      \* sleepers that were notified and will take the lock again
    expired     \* sleepers whose monotonic deadline has passed

vars == <<active, waiting, cancelled, call, awake, expired>>

ASSUME AdmissionAssumption ==
    /\ MaxWaiting \in Nat
    /\ ExclusiveOwners \in BOOLEAN

Kinds == {"acquire", "transfer"}
Calls == [kind : Kinds, owner : Owners, current : Stages \cup {NoReservation}, want : Stages]

ASSUME NoCallAssumption == NoCall \notin Calls

Waiters == {a \in Owners : call[a] # NoCall}

TypeOK ==
    /\ active \in Book
    /\ waiting \in Seq(Owners)
    /\ Len(waiting) <= MaxWaiting
    /\ cancelled \in SUBSET Owners
    /\ call \in [Owners -> Calls \cup {NoCall}]
    /\ awake \in SUBSET Owners
    /\ expired \in SUBSET Owners

Init ==
    /\ active = [o \in Owners |-> NoReservation]
    /\ waiting = <<>>
    /\ cancelled = {}
    /\ call = [o \in Owners |-> NoCall]
    /\ awake = {}
    /\ expired = {}
-----------------------------------------------------------------------------
\* Faulty: the baseline of the host is forgotten.
FitsWithoutBaseline(s) ==
    /\ Cardinality(Active(active)) < MaxActive
    /\ \A r \in Resources : Used(active, r) + s[r] <= Limit[r]

\* _fits
Fits(s) ==
    /\ Cardinality(Active(active)) < MaxActive
    /\ \A r \in Resources : Baseline[r] + Used(active, r) + s[r] <= Limit[r]

\* The test of transfer's loop; `current' was read before the loop began.
FitsInstead(current, s) ==
    \A r \in Resources : Baseline[r] + Used(active, r) - current[r] + s[r] <= Limit[r]

\* The reservation of o is not the subject of a sleeping transfer.  Callers
\* release or move a reservation only from the thread that drives its role.
OwnerIdle(o) ==
    ExclusiveOwners => \A a \in Owners : ~(call[a] # NoCall /\ call[a].kind = "transfer" /\ call[a].owner = o)

NotifyAll == awake' = Waiters

\* Faulty: the old owner keeps its reservation.
MovedAndKept(o, a, s) == [active EXCEPT ![a] = s]

Moved(o, a, s) == [active EXCEPT ![o] = NoReservation, ![a] = s]

\* Append to the deque and go to sleep in Condition.wait.
Sleep(a, kind, o, current, s) ==
    /\ Len(waiting) < MaxWaiting
    /\ waiting' = Append(waiting, a)
    /\ call' = [call EXCEPT ![a] = [kind |-> kind, owner |-> o, current |-> current, want |-> s]]
    /\ UNCHANGED <<active, cancelled, awake, expired>>

\* The `finally' of a call that slept: leave the deque, notify_all.
Leave(a) ==
    /\ \E i \in DOMAIN waiting :
          /\ waiting[i] = a
          /\ \A j \in 1..(i - 1) : waiting[j] # a
          /\ waiting' = SubSeq(waiting, 1, i - 1) \o SubSeq(waiting, i + 1, Len(waiting))
    /\ call' = [call EXCEPT ![a] = NoCall]
    /\ awake' = Waiters \ {a}
    /\ expired' = expired \ {a}
    /\ UNCHANGED cancelled
-----------------------------------------------------------------------------
AcquireNow(a, s) ==
    /\ active[a] = NoReservation
    /\ call[a] = NoCall
    /\ a \notin cancelled
    /\ Admissible(s)
    /\ waiting = <<>>
    /\ Fits(s)
    /\ active' = [active EXCEPT ![a] = s]
    /\ UNCHANGED <<waiting, cancelled, call, awake, expired>>

AcquireQueued(a, s) ==
    /\ active[a] = NoReservation
    /\ call[a] = NoCall
    /\ a \notin cancelled
    /\ Admissible(s)
    /\ ~ (waiting = <<>> /\ Fits(s))
    /\ Sleep(a, "acquire", a, NoReservation, s)

\* Faulty: speculative warming takes whatever fits.
TryAcquireEager(o, s) ==
    /\ active[o] = NoReservation
    /\ call[o] = NoCall
    /\ o \notin cancelled
    /\ Fits(s)
    /\ active' = [active EXCEPT ![o] = s]
    /\ UNCHANGED <<waiting, cancelled, call, awake, expired>>

TryAcquire(o, s) ==
    /\ active[o] = NoReservation
    /\ call[o] = NoCall
    /\ o \notin cancelled
    /\ waiting = <<>>
    /\ Fits(s)
    /\ active' = [active EXCEPT ![o] = s]
    /\ UNCHANGED <<waiting, cancelled, call, awake, expired>>

TransferAllowed(o, a, s) ==
    /\ a \notin cancelled
    /\ a = o \/ active[a] = NoReservation
    /\ call[a] = NoCall
    /\ active[o] # NoReservation
    /\ Admissible(s)
    /\ OwnerIdle(o)

TransferNow(o, a, s) ==
    /\ TransferAllowed(o, a, s)
    /\ FitsInstead(active[o], s)
    /\ active' = Moved(o, a, s)
    /\ NotifyAll
    /\ UNCHANGED <<waiting, cancelled, call, expired>>

TransferQueued(o, a, s) ==
    /\ TransferAllowed(o, a, s)
    /\ ~ FitsInstead(active[o], s)
    /\ Sleep(a, "transfer", o, active[o], s)

\* runtime_queue_full: nothing is moved, but the `finally' still notifies.
TransferBusy(o, a, s) ==
    /\ TransferAllowed(o, a, s)
    /\ ~ FitsInstead(active[o], s)
    /\ Len(waiting) >= MaxWaiting
    /\ NotifyAll
    /\ UNCHANGED <<active, waiting, cancelled, call, expired>>
-----------------------------------------------------------------------------
(* One pass of the loop of a sleeping call, after it took the lock again.   *)

CallFits(a) ==
    IF call[a].kind = "acquire"
    THEN Head(waiting) = a /\ Fits(call[a].want)
    ELSE FitsInstead(call[a].current, call[a].want)

\* acquire looks at its deadline before the budget, transfer after it.
Granted(a) == CallFits(a) /\ (call[a].kind = "acquire" => a \notin expired)

WakeCancelled(a) ==
    /\ a \in cancelled
    /\ Leave(a)
    /\ UNCHANGED active

\* Faulty: cancellation is only looked at before the call goes to sleep.
WakeGrantedCancelled(a) ==
    /\ Granted(a)
    /\ active[call[a].owner] # NoReservation \/ call[a].kind = "acquire"
    /\ active' = Moved(call[a].owner, a, call[a].want)
    /\ Leave(a)

WakeGranted(a) ==
    /\ a \notin cancelled
    /\ Granted(a)
    /\ active[call[a].owner] # NoReservation \/ call[a].kind = "acquire"
    /\ active' = Moved(call[a].owner, a, call[a].want)
    /\ Leave(a)

\* `del self._active[owner_id]' of a reservation that is gone: KeyError.
WakeKeyError(a) ==
    /\ a \notin cancelled
    /\ Granted(a)
    /\ call[a].kind = "transfer"
    /\ active[call[a].owner] = NoReservation
    /\ Leave(a)
    /\ UNCHANGED active

\* Faulty: a transfer waits without a deadline.
WakeTimedOutAcquireOnly(a) ==
    /\ call[a].kind = "acquire"
    /\ a \notin cancelled
    /\ ~ Granted(a)
    /\ a \in expired
    /\ Leave(a)
    /\ UNCHANGED active

WakeTimedOut(a) ==
    /\ a \notin cancelled
    /\ ~ Granted(a)
    /\ a \in expired
    /\ Leave(a)
    /\ UNCHANGED active

WakeAgain(a) ==
    /\ a \notin cancelled
    /\ ~ Granted(a)
    /\ a \notin expired
    /\ awake' = awake \ {a}
    /\ UNCHANGED <<active, waiting, cancelled, call, expired>>

Recheck(a) ==
    /\ call[a] # NoCall
    /\ a \in awake
    /\ \/ WakeCancelled(a)
       \/ WakeGranted(a)
       \/ WakeKeyError(a)
       \/ WakeTimedOut(a)
       \/ WakeAgain(a)

\* Condition.wait(remaining) returns because the deadline has passed.
Deadline(a) ==
    /\ call[a] # NoCall
    /\ a \notin expired
    /\ expired' = expired \cup {a}
    /\ awake' = awake \cup {a}
    /\ UNCHANGED <<active, waiting, cancelled, call>>

\* Faulty: release forgets to notify.
ReleaseSilently(o) ==
    /\ OwnerIdle(o)
    /\ active' = [active EXCEPT ![o] = NoReservation]
    /\ UNCHANGED <<waiting, cancelled, call, awake, expired>>

Release(o) ==
    /\ OwnerIdle(o)
    /\ active' = [active EXCEPT ![o] = NoReservation]
    /\ NotifyAll
    /\ UNCHANGED <<waiting, cancelled, call, expired>>

Cancel(o) ==
    /\ cancelled' = cancelled \cup {o}
    /\ NotifyAll
    /\ UNCHANGED <<active, waiting, call, expired>>

Next ==
    \E o \in Owners :
        \/ \E s \in Stages : AcquireNow(o, s) \/ AcquireQueued(o, s) \/ TryAcquire(o, s)
        \/ \E a \in Owners, s \in Stages :
               TransferNow(o, a, s) \/ TransferQueued(o, a, s) \/ TransferBusy(o, a, s)
        \/ Recheck(o)
        \/ Deadline(o)
        \/ Release(o)
        \/ Cancel(o)

Spec == Init /\ [][Next]_vars

\* A woken thread takes the lock in the end, and deadlines pass.
FairSpec == Spec /\ \A a \in Owners : WF_vars(Recheck(a)) /\ WF_vars(Deadline(a))
-----------------------------------------------------------------------------
(* Properties.                                                              *)

\* The queue holds each sleeping call once, and only sleeping calls are awake
\* or expired: _waiting.remove in `finally' can neither fail nor leave a ghost.
QueueMatchesCalls ==
    /\ Range(waiting) = Waiters
    /\ \A i, j \in DOMAIN waiting : i # j => waiting[i] # waiting[j]
    /\ awake \cup expired \subseteq Waiters

\* Running roles and helpers never hold more than the machine, counting the
\* baseline, nor more slots than max_active (_fits, and the fits of transfer).
WithinBudget ==
    /\ WithinLimits(active)
    /\ Cardinality(Active(active)) <= MaxActive

\* What a sleeping call read before its loop is still true: the `current' of
\* a transfer is the reservation it will delete when granted (so that `del' does
\* not raise) and nobody else is moving it, and neither call would overwrite a
\* reservation of its own identity.
CallIsFresh(a) ==
    IF call[a].kind = "acquire"
    THEN call[a].owner = a /\ active[a] = NoReservation
    ELSE /\ active[call[a].owner] = call[a].current
         /\ call[a].current # NoReservation
         /\ a = call[a].owner \/ active[a] = NoReservation
         /\ \A b \in Waiters : b # a /\ call[b].kind = "transfer" => call[b].owner # call[a].owner

CurrentIsFresh == \A a \in Waiters : CallIsFresh(a)

\* No lost wakeup: a call that sleeps un-notified has nothing to do; neither
\* cancelled, nor past its deadline, nor grantable.
NoLostWakeup ==
    \A a \in Waiters \ awake : a \notin cancelled /\ a \notin expired /\ ~ CallFits(a)

\* Speculative and cold admission never overtake queued work: only the head
\* of a non-empty queue adds a reservation (acquire, try_acquire); transfers
\* of retained stages move one.
AdmitsInOrder ==
    [][\A o \in Owners :
          (active[o] = NoReservation /\ Active(active') = Active(active) \cup {o})
          => (waiting = <<>> \/ Head(waiting) = o)]_vars

\* After cancel(o), o is never charged more or anew, whatever call was asleep
\* or is made later; its charge can only be released or moved away.
CancelledGainsNothing ==
    [][\A o \in cancelled : active'[o] \in {active[o], NoReservation}]_vars

\* Every call that sleeps leaves: a grant, a cancellation, the deadline.
SleepersLeave == \A a \in Owners : call[a] # NoCall ~> call[a] = NoCall

Abstract == INSTANCE AbstractAdmission

\* The queue implements the book of reservations.
AbstractSpec == Abstract!Spec
=============================================================================
