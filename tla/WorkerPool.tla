----------------------------- MODULE WorkerPool -----------------------------
(***************************************************************************)
(* The pool of Workers (runtime_worker_pool.py) with the callbacks that the  *)
(* Docker backend gives it (runtime_docker.py) and the operations of an      *)
(* attempt that call it: preflight offers, prepare_worker takes a pooled     *)
(* Worker or creates a cold one, destroy_worker resets and returns it, abort *)
(* withdraws.  A container is known by its physical owner; the reservation   *)
(* that pays for it moves between that owner and the attempt that uses it.   *)
(*                                                                           *)
(* One step is one section under the lock of the pool, or one callback.      *)
(* Where several entries match, the code takes the oldest and the model any. *)
(* CPU and memory are counted as running Workers; a parked one counts zero.  *)
(***************************************************************************)
EXTENDS Naturals, FiniteSets, Sequences

CONSTANTS
    Attempts,
    Keys,         \* digests of environments
    Environment,  \* the environment of the task of each attempt
    Capacity,     \* worker_pool_capacity
    Limit,        \* Workers that may run within the budget of the machine
    MaxFaults,    \* a bound on failures of Docker and the journal, expiries and the closing
    MaxOwners,    \* a bound on the physical owners alive or remembered at a time
    Inherited,    \* environments of the idle Workers that earlier attempts returned
    Nobody,
    Closer,       \* the thread that closes the pool
    Background    \* the executor and the sweeper

ASSUME PoolAssumption ==
    /\ Environment \in [Attempts -> Keys]
    /\ Capacity \in {1, 2}
    /\ Limit \in Nat \ {0}
    /\ MaxFaults \in Nat
    /\ MaxOwners \in Nat /\ MaxOwners >= Capacity
    /\ \A idle \in Inherited : idle \in Seq(Keys) /\ Len(idle) <= Capacity
    /\ Cardinality({Nobody, Closer, Background}) = 3
    /\ {Nobody, Closer, Background} \cap Attempts = {}
    /\ ({Nobody} \cup Attempts) \cap (1..MaxOwners) = {}

VARIABLES
    pool,         \* _entries
    offered,      \* _offered
    cancelled,    \* _cancelled, and the attempts cancelled in resource_admission
    failed,       \* failed_attempts
    stopped,      \* _stop
    reserved,     \* reservations in resource_admission: 1 for a running Worker, 0 for a parked one
    interrupted,  \* owners cancelled in resource_admission; one that is gone is of no more account
    owner,        \* _worker_owners
    alive,        \* owners for which Docker holds resources
    pc,           \* where each thread is
    target,       \* the entry or the Worker that a thread is at
    todo,         \* entries a thread is in _retire for, or will be
    waits,        \* entries a thread waits for in _wait_retired
    faults        \* how many of those there have been

bookVars == <<offered, cancelled, failed, stopped>>
backendVars == <<reserved, interrupted, owner, alive>>
threadVars == <<pc, target, todo, waits>>
shared == <<pool, bookVars, backendVars, faults>>
vars == <<shared, threadVars>>

Owners == 1..MaxOwners
Threads == Attempts \cup {Closer}
Janitors == Threads \cup {Background}

States == {"preparing", "resetting", "validated", "ready", "claiming", "retiring", "blocked"}

Entry == [state : States, key : Keys, interests : SUBSET Attempts,
          reason : {"none", "cancelled", "other"}, waiting : Attempts \cup {Nobody}, parked : BOOLEAN]

\* Positions in an operation; an attempt at rest has none in progress.
Resting == {"fresh", "idle", "leased", "ended", "aborted", "blocked"}

Busy == {"offering", "replacing", "taking", "asleep", "late", "binding", "bound", "rejected", "refused",
         "cold", "draining", "drainsleep", "acquiring", "creating", "resetting", "wiping", "parking", "destroying", "validated", "publishing", "withdrawing", "withdrawsleep", "removing", "reporting"}

ClosePositions == {"open", "closing", "evicting", "evictsleep", "closed"}

TypeOK ==
    /\ DOMAIN pool \subseteq Owners
    /\ \A o \in DOMAIN pool : pool[o] \in Entry
    /\ Cardinality(DOMAIN pool) <= Capacity
    /\ offered \in SUBSET Attempts
    /\ cancelled \in SUBSET Attempts
    /\ failed \in SUBSET Attempts
    /\ stopped \in BOOLEAN
    /\ DOMAIN reserved \subseteq Owners \cup Attempts
    /\ \A i \in DOMAIN reserved : reserved[i] \in 0..1
    /\ interrupted \in SUBSET Owners
    /\ owner \in [Attempts -> Owners \cup {Nobody}]
    /\ alive \in SUBSET Owners
    /\ pc \in [Threads -> Resting \cup Busy \cup ClosePositions]
    /\ target \in [Attempts -> Owners \cup {Nobody}]
    /\ todo \in [Janitors -> SUBSET Owners]
    /\ waits \in [Threads -> SUBSET Owners]
    /\ faults \in 0..MaxFaults
-----------------------------------------------------------------------------
Without(f, i) == [j \in DOMAIN f \ {i} |-> f[j]]
With(f, i, v) == [j \in DOMAIN f \cup {i} |-> IF j = i THEN v ELSE f[j]]

EntriesIn(states) == {o \in DOMAIN pool : pool[o].state \in states}

\* States in which a cancellation or an eviction retires the entry itself.
AtRest == {"ready", "validated", "blocked"}

HasRoom == Cardinality(DOMAIN pool) < Capacity

\* Faulty: a retirement wakes the takers, not those in _wait_retired.
RousedTakers == [asleep |-> "taking"]

\* notify_all: whoever sleeps on the condition looks at the pool again.
Roused == [asleep |-> "taking", drainsleep |-> "draining",
           withdrawsleep |-> "withdrawing", evictsleep |-> "evicting"]

Notified(p) == [t \in Threads |-> IF p[t] \in DOMAIN Roused THEN Roused[p[t]] ELSE p[t]]

\* _demand_waiters > 0: a cold stage drains the pool or waits to be admitted.
Demand == \E a \in Attempts : pc[a] \in {"draining", "drainsleep", "acquiring"}

Fits == Cardinality({i \in DOMAIN reserved : reserved[i] = 1}) < Limit

\* Somebody may be in the queue of resource_admission, which try_acquire does not overtake.
Queued(a) == \E b \in Attempts \ {a} : pc[b] \in {"acquiring", "binding"}

\* uuid4: an owner nobody has, uses or remembers.
Known ==
    DOMAIN pool \cup alive \cup DOMAIN reserved
        \cup {owner[a] : a \in Attempts} \cup {target[a] : a \in Attempts}
        \cup (UNION {todo[t] : t \in Janitors}) \cup (UNION {waits[t] : t \in Threads})

IsFresh(o) == o \notin Known /\ \A p \in Owners \ Known : o <= p

Idle(key) ==
    [state |-> "ready", key |-> key, interests |-> {}, reason |-> "none", waiting |-> Nobody, parked |-> TRUE]

Init ==
    /\ \E idle \in Inherited :
          /\ pool = [o \in 1..Len(idle) |-> Idle(idle[o])]
          /\ reserved = [o \in 1..Len(idle) |-> 0]
          /\ alive = 1..Len(idle)
    /\ offered = {}
    /\ cancelled = {}
    /\ failed = {}
    /\ stopped = FALSE
    /\ interrupted = {}
    /\ owner = [a \in Attempts |-> Nobody]
    /\ pc = [t \in Threads |-> IF t = Closer THEN "open" ELSE "fresh"]
    /\ target = [a \in Attempts |-> Nobody]
    /\ todo = [t \in Janitors |-> {}]
    /\ waits = [t \in Threads |-> {}]
    /\ faults = 0

\* A failure of Docker or of the journal, an expiry, or the end of the service.
Fault == faults < MaxFaults /\ faults' = faults + 1

\* Thread t goes on, and nothing else of the threads changes.
Goes(t, place) ==
    pc' = [pc EXCEPT ![t] = place] /\ UNCHANGED <<target, todo, waits>>

Moves(t, from, to) == pc[t] = from /\ Goes(t, to) /\ UNCHANGED shared

\* The same, and the thread lets go of its entry or Worker.
Rests(a, place) ==
    /\ pc' = [pc EXCEPT ![a] = place]
    /\ target' = [target EXCEPT ![a] = Nobody]
    /\ UNCHANGED <<todo, waits>>

\* Thread t turns to the retirement of an entry.
Retiring(o, t) ==
    /\ pool' = [pool EXCEPT ![o].state = "retiring", ![o].reason = "other"]
    /\ todo' = [todo EXCEPT ![t] = @ \cup {o}]
-----------------------------------------------------------------------------
(* prewarm_worker: offer                                                     *)

Preflight(a) ==
    /\ pc[a] = "fresh"
    /\ offered' = offered \cup {a}
    /\ Goes(a, "offering")
    /\ UNCHANGED <<pool, cancelled, failed, stopped, backendVars, faults>>

OffersRefused(a) == stopped \/ a \in cancelled \/ Demand

\* Entries whose preparation the offer may join; a returned Worker serves one.
Joinable(a) ==
    {o \in EntriesIn({"preparing", "resetting", "validated", "ready"}) :
        /\ pool[o].key = Environment[a]
        /\ pool[o].reason = "none"
        /\ ~(pool[o].state = "ready" /\ pool[o].parked /\ pool[o].interests # {})}

\* All returned Workers of the environment are spoken for.
AdditionalDemand(a) ==
    \E o \in EntriesIn({"ready"}) :
        pool[o].key = Environment[a] /\ pool[o].parked /\ pool[o].interests # {}

\* Idle entries that a new environment, or a second claim of one, may replace.
Replaceable(a) ==
    {o \in EntriesIn({"ready"}) :
        /\ pool[o].interests = {}
        /\ pool[o].reason = "none"
        /\ \/ AdditionalDemand(a) /\ pool[o].key # Environment[a]
           \/ \E p \in EntriesIn({"ready"}) \ {o} : pool[p].key = pool[o].key}

OfferSkipped(a) ==
    /\ pc[a] = "offering"
    /\ \/ OffersRefused(a)
       \/ Joinable(a) = {} /\ ~HasRoom /\ Replaceable(a) = {}
       \/ Joinable(a) = {} /\ HasRoom /\ (~Fits \/ Queued(a))
    /\ Goes(a, "idle")
    /\ UNCHANGED shared

OfferMerged(a) ==
    /\ pc[a] = "offering" /\ ~OffersRefused(a)
    /\ \E o \in Joinable(a) :
          pool' = [pool EXCEPT ![o].interests = IF Cardinality(@) < Capacity THEN @ \cup {a} ELSE @]
    /\ Goes(a, "idle")
    /\ UNCHANGED <<bookVars, backendVars, faults>>

OfferReplaces(a) ==
    /\ pc[a] = "offering" /\ ~OffersRefused(a)
    /\ Joinable(a) = {} /\ ~HasRoom
    /\ \E o \in Replaceable(a) : Retiring(o, a)
    /\ pc' = [pc EXCEPT ![a] = "replacing"]
    /\ UNCHANGED <<bookVars, backendVars, target, waits, faults>>

\* The victim is retired, or blocked: look again.
OfferAgain(a) == todo[a] = {} /\ Moves(a, "replacing", "offering")

OfferStarts(a) ==
    /\ pc[a] = "offering" /\ ~OffersRefused(a)
    /\ Joinable(a) = {} /\ HasRoom /\ Fits
    /\ \E o \in Owners :
          /\ IsFresh(o)
          /\ pool' = With(pool, o, [state |-> "preparing", key |-> Environment[a], interests |-> {a},
                                    reason |-> "none", waiting |-> Nobody, parked |-> FALSE])
          /\ reserved' = With(reserved, o, 1)
          /\ alive' = alive \cup {o}
          /\ interrupted' = interrupted \ {o}
    /\ Goes(a, "idle")
    /\ UNCHANGED <<bookVars, owner, faults>>

\* _prepare, on a thread of the executor.
Prepared(o) ==
    /\ o \in EntriesIn({"preparing"})
    /\ IF pool[o].reason = "none"
       THEN /\ pool' = [pool EXCEPT ![o].state = "ready"]
            /\ pc' = Notified(pc)
            /\ todo' = todo
       ELSE /\ pool' = [pool EXCEPT ![o].state = "retiring"]
            /\ todo' = [todo EXCEPT ![Background] = @ \cup {o}]
            /\ pc' = pc
    /\ UNCHANGED <<bookVars, backendVars, target, waits, faults>>

\* Docker fails, or the owner was interrupted.
PrepareFails(o) ==
    /\ o \in EntriesIn({"preparing"})
    /\ failed' = failed \cup pool[o].interests
    /\ Retiring(o, Background)
    /\ \/ o \in interrupted /\ UNCHANGED faults
       \/ Fault
    /\ UNCHANGED <<offered, cancelled, stopped, backendVars, pc, target, waits>>
-----------------------------------------------------------------------------
(* prepare_worker: take, and the cold path                                   *)

\* The take holds the lock and looks at the pool: first, again, or after its deadline.
Looks(a) == pc[a] \in {"idle", "taking", "late"}

\* The finally of take: it gives up the entry it was last given, if it still holds it.
Unmarked(a) ==
    IF target[a] \in DOMAIN pool /\ pool[target[a]].waiting = a
    THEN [pool EXCEPT ![target[a]].waiting = Nobody]
    ELSE pool

Leaves(a, place) ==
    /\ pool' = Unmarked(a)
    /\ pc' = [IF target[a] \in DOMAIN pool /\ pool[target[a]].waiting = a THEN Notified(pc) ELSE pc
                 EXCEPT ![a] = place]
    /\ target' = [target EXCEPT ![a] = Nobody]
    /\ UNCHANGED <<bookVars, backendVars, todo, waits, faults>>

OwnRetires(a) ==
    \E o \in EntriesIn({"retiring"}) : pool[o].key = Environment[a] /\ a \in pool[o].interests

Claimable(a) ==
    {o \in DOMAIN pool :
        /\ pool[o].key = Environment[a]
        /\ pool[o].reason = "none"
        /\ pool[o].state \notin {"claiming", "blocked"}
        /\ pool[o].waiting \in {Nobody, a}}

TakeRefused(a) ==
    /\ Looks(a)
    /\ a \in cancelled \/ stopped
    /\ Leaves(a, "idle")

MayTake(a) == Looks(a) /\ a \notin cancelled /\ ~stopped

TakeAwaitsRetirement(a) ==
    /\ MayTake(a) /\ OwnRetires(a)
    /\ IF pc[a] = "late" THEN Leaves(a, "blocked") ELSE Goes(a, "asleep") /\ UNCHANGED shared

TakeFallsBack(a) ==
    /\ MayTake(a) /\ ~OwnRetires(a)
    /\ a \in failed
    /\ Leaves(a, "cold")

\* No entry: the one it waited for keeps its mark.
TakeMisses(a) ==
    /\ MayTake(a) /\ ~OwnRetires(a) /\ a \notin failed
    /\ Claimable(a) = {}
    /\ Rests(a, "cold")
    /\ UNCHANGED shared

TakeQueues(a) ==
    /\ MayTake(a) /\ ~OwnRetires(a) /\ a \notin failed
    /\ \E o \in Claimable(a) :
          /\ pool[o].state # "ready"
          /\ IF pc[a] = "late"
             THEN /\ pool' = [pool EXCEPT ![o].waiting = Nobody]
                  /\ pc' = [Notified(pc) EXCEPT ![a] = "blocked"]
                  /\ target' = [target EXCEPT ![a] = Nobody]
             ELSE /\ pool' = [pool EXCEPT ![o].waiting = a]
                  /\ pc' = [pc EXCEPT ![a] = "asleep"]
                  /\ target' = [target EXCEPT ![a] = o]
    /\ UNCHANGED <<bookVars, backendVars, todo, waits, faults>>

\* Faulty: the entry stays ready while the claim binds it outside the lock.
TakeClaimsUnmarked(a) ==
    /\ MayTake(a) /\ ~OwnRetires(a) /\ a \notin failed
    /\ \E o \in Claimable(a) :
          /\ pool[o].state = "ready"
          /\ pool' = [pool EXCEPT ![o].waiting = Nobody]
          /\ target' = [target EXCEPT ![a] = o]
    /\ pc' = [Notified(pc) EXCEPT ![a] = "binding"]
    /\ UNCHANGED <<bookVars, backendVars, todo, waits, faults>>

TakeClaims(a) ==
    /\ MayTake(a) /\ ~OwnRetires(a) /\ a \notin failed
    /\ \E o \in Claimable(a) :
          /\ pool[o].state = "ready"
          /\ pool' = [pool EXCEPT ![o].state = "claiming", ![o].waiting = Nobody]
          /\ target' = [target EXCEPT ![a] = o]
    /\ pc' = [Notified(pc) EXCEPT ![a] = "binding"]
    /\ UNCHANGED <<bookVars, backendVars, todo, waits, faults>>

TakeDeadline(a) == Moves(a, "asleep", "late")

\* _bind_warm_worker: the reservation moves to the attempt; a parked Worker needs room to run.
Bind(a) ==
    LET o == target[a] IN
    /\ pc[a] = "binding"
    /\ a \notin cancelled /\ a \notin DOMAIN reserved
    /\ reserved[o] = 0 => Fits
    /\ reserved' = With(Without(reserved, o), a, 1)
    /\ owner' = [owner EXCEPT ![a] = o]
    /\ Goes(a, "bound")
    /\ UNCHANGED <<pool, bookVars, interrupted, alive, faults>>

Rejects(a, place) ==
    /\ Retiring(target[a], a)
    /\ pc' = [pc EXCEPT ![a] = place]
    /\ UNCHANGED <<bookVars, backendVars, target, waits>>

\* The reservation does not move: cancelled, no room in time, or the attempt has one already.
BindRefused(a) ==
    /\ pc[a] = "binding"
    /\ \/ a \in cancelled /\ Rejects(a, "refused")
       \/ reserved[target[a]] = 0 /\ ~Fits /\ Rejects(a, "refused")
       \/ a \in DOMAIN reserved /\ Rejects(a, "rejected")
    /\ UNCHANGED faults

\* The Worker does not pass its checks, or does not resume.
BindFails(a) == pc[a] \in {"binding", "bound"} /\ Fault /\ Rejects(a, "rejected")

Claimed(a) ==
    LET o == target[a] IN
    /\ pc[a] = "bound"
    /\ a \notin cancelled /\ ~stopped /\ pool[o].reason = "none"
    /\ pool' = Without(pool, o)
    /\ pc' = [Notified(pc) EXCEPT ![a] = "leased"]
    /\ UNCHANGED <<bookVars, backendVars, target, todo, waits, faults>>

ClaimRetired(a) ==
    /\ pc[a] = "bound"
    /\ a \in cancelled \/ stopped \/ pool[target[a]].reason # "none"
    /\ Rejects(a, IF a \in cancelled THEN "refused" ELSE "rejected")
    /\ UNCHANGED faults

\* After the retirement: a cancellation, a full queue or a deadline is raised, the rest
\* falls back.  A deadline of resource_admission blocks the attempt.
ClaimEnds(a) ==
    /\ pc[a] \in {"refused", "rejected"} /\ todo[a] = {}
    /\ \E place \in (IF pc[a] = "rejected" THEN {"cold"} ELSE {"idle", "blocked"}) :
          pc' = [pc EXCEPT ![a] = place]
    /\ failed' = IF pc[a] = "rejected" THEN failed \cup {a} ELSE failed
    /\ target' = [target EXCEPT ![a] = Nobody]
    /\ UNCHANGED <<pool, offered, cancelled, stopped, backendVars, todo, waits, faults>>

\* What evict_idle drains; pressure spares what is parked, in use or waited for.
Evictable(pressure) ==
    {o \in DOMAIN pool :
        pressure => /\ ~pool[o].parked
                    /\ pool[o].state \notin {"resetting", "claiming", "blocked"}
                    /\ pool[o].waiting = Nobody}

EvictIdle(t, pressure, place) ==
    LET entries == Evictable(pressure)
        idle == entries \cap EntriesIn(AtRest)
    IN  /\ pool' = [o \in DOMAIN pool |->
                      IF o \notin entries THEN pool[o]
                      ELSE [pool[o] EXCEPT !.reason = "other",
                                           !.state = IF o \in idle THEN "retiring" ELSE @]]
        /\ todo' = [todo EXCEPT ![t] = idle]
        /\ waits' = [waits EXCEPT ![t] = entries]
        /\ pc' = [Notified(pc) EXCEPT ![t] = place]
        /\ UNCHANGED target

\* _wait_retired, after the entries that the thread retires itself.
Unretired(t) == {o \in waits[t] \cap DOMAIN pool : pool[o].state # "blocked"}

LeavesResidual(t) == waits[t] \cap EntriesIn({"blocked"}) # {}

Sleeps(t, place) ==
    /\ todo[t] = {} /\ Unretired(t) # {}
    /\ Goes(t, place)
    /\ UNCHANGED shared

Waited(t, place) ==
    /\ todo[t] = {} /\ Unretired(t) = {}
    /\ pc' = [pc EXCEPT ![t] = place]
    /\ waits' = [waits EXCEPT ![t] = {}]
    /\ UNCHANGED <<pool, bookVars, backendVars, target, todo, faults>>

\* Containers of a Worker of its own; the reservation stays with the attempt.
Creates(a) ==
    /\ \E o \in Owners :
          /\ IsFresh(o)
          /\ owner' = [owner EXCEPT ![a] = o]
          /\ target' = [target EXCEPT ![a] = o]
          /\ alive' = alive \cup {o}
          /\ interrupted' = interrupted \ {o}
    /\ reserved' = With(reserved, a, 1)
    /\ pc' = [pc EXCEPT ![a] = "creating"]
    /\ UNCHANGED <<pool, bookVars, todo, waits, faults>>

ColdAtOnce(a) ==
    /\ pc[a] = "cold"
    /\ a \notin DOMAIN reserved /\ a \notin cancelled /\ Fits
    /\ Creates(a)

\* demand: no offers from here on.
ColdDrains(a) ==
    /\ pc[a] = "cold"
    /\ a \notin DOMAIN reserved
    /\ a \in cancelled \/ ~Fits \/ Queued(a)
    /\ EvictIdle(a, TRUE, "draining")
    /\ UNCHANGED <<bookVars, backendVars, faults>>

\* try_acquire raises: what an earlier creation left is still reserved for.
ColdRefused(a) == a \in DOMAIN reserved /\ Moves(a, "cold", "idle")

DrainSleeps(a) == pc[a] = "draining" /\ Sleeps(a, "drainsleep")

DrainEnds(a) ==
    pc[a] = "draining" /\ Waited(a, IF LeavesResidual(a) THEN "idle" ELSE "acquiring")

ColdAdmitted(a) ==
    /\ pc[a] = "acquiring"
    /\ a \notin cancelled /\ Fits
    /\ Creates(a)

\* Cancelled, a full queue, or the deadline, which blocks the attempt.
ColdNotAdmitted(a) ==
    \/ Moves(a, "acquiring", "idle")
    \/ a \notin cancelled /\ Moves(a, "acquiring", "blocked")

Created(a) == Moves(a, "creating", "leased")

\* _recover_resources of the owner, for a reservation: all is removed, or nothing is released.
CreationFails(a) ==
    /\ pc[a] = "creating"
    /\ \E clean \in BOOLEAN :
          /\ alive' = IF clean THEN alive \ {target[a]} ELSE alive
          /\ reserved' = IF clean THEN Without(reserved, a) ELSE reserved
    /\ Rests(a, "idle")
    /\ Fault
    /\ UNCHANGED <<pool, bookVars, interrupted, owner>>
-----------------------------------------------------------------------------
(* destroy_worker: _return_role, recycle and publish                         *)

ReturnSkipped(a) ==
    (stopped \/ ~HasRoom) /\ Moves(a, "leased", "destroying")

ReturnStarts(a) ==
    /\ pc[a] = "leased"
    /\ ~stopped /\ HasRoom
    /\ pool' = With(pool, target[a],
                    [state |-> "resetting", key |-> Environment[a], interests |-> {a},
                     reason |-> "none", waiting |-> Nobody, parked |-> FALSE])
    /\ Goes(a, "resetting")
    /\ UNCHANGED <<bookVars, backendVars, faults>>

\* The container has stopped: its reservation goes back to the owner.
ResetStops(a) ==
    /\ pc[a] = "resetting"
    /\ target[a] \notin interrupted
    /\ reserved' = With(Without(reserved, a), target[a], 1)
    /\ Goes(a, "wiping")
    /\ UNCHANGED <<pool, bookVars, interrupted, owner, alive, faults>>

\* Wiped: the Worker is parked, free of charge and of its attempt.
ResetParks(a) ==
    /\ pc[a] = "wiping"
    /\ target[a] \notin interrupted
    /\ reserved' = With(reserved, target[a], 0)
    /\ owner' = [owner EXCEPT ![a] = Nobody]
    /\ Goes(a, "parking")
    /\ UNCHANGED <<pool, bookVars, interrupted, alive, faults>>

ResetVerified(a) ==
    /\ pc[a] = "parking"
    /\ pool' = [pool EXCEPT ![target[a]].state = "validated", ![target[a]].parked = TRUE]
    /\ pc' = [Notified(pc) EXCEPT ![a] = "validated"]
    /\ UNCHANGED <<bookVars, backendVars, target, todo, waits, faults>>

ResetFails(a) == pc[a] \in {"resetting", "wiping"} /\ Fault /\ Rejects(a, "destroying")

\* The reservation of an interrupted owner does not move.
ResetInterrupted(a) ==
    /\ pc[a] \in {"resetting", "wiping"} /\ target[a] \in interrupted
    /\ Rejects(a, "destroying")
    /\ UNCHANGED faults

\* Not returned, or retired by the failed return: removed, or blocked with what still pays.
Destroyed(a) ==
    LET o == target[a] IN
    /\ pc[a] = "destroying" /\ todo[a] = {}
    /\ alive' = alive \ {o}
    /\ interrupted' = interrupted \ {o}
    /\ reserved' = Without(Without(reserved, o), a)
    /\ owner' = [owner EXCEPT ![a] = Nobody]
    /\ Rests(a, "ended")
    /\ UNCHANGED <<pool, bookVars, faults>>

NotDestroyed(a) ==
    /\ pc[a] = "destroying" /\ todo[a] = {} /\ target[a] \in alive
    /\ Rests(a, "blocked")
    /\ Fault
    /\ UNCHANGED <<pool, bookVars, backendVars>>

\* publish, once the terminal record of the operation is on disk.
Publish(a) ==
    LET o == target[a]
        kept == pool[o].reason = "none"
    IN  /\ pc[a] = "validated"
        /\ o \in EntriesIn({"validated"})
        /\ pool' = [pool EXCEPT ![o].state = IF kept THEN "ready" ELSE "retiring", ![o].interests = {}]
        /\ todo' = [todo EXCEPT ![a] = IF kept THEN {} ELSE {o}]
        /\ pc' = [Notified(pc) EXCEPT ![a] = IF kept THEN "ended" ELSE "publishing"]
        /\ target' = [target EXCEPT ![a] = Nobody]
        /\ UNCHANGED <<bookVars, backendVars, waits, faults>>

Published(a) == todo[a] = {} /\ Moves(a, "publishing", "ended")

\* Another thread has evicted the entry: nothing is published.
NothingToPublish(a) ==
    /\ pc[a] = "validated"
    /\ target[a] \notin EntriesIn({"validated"})
    /\ Rests(a, "ended")
    /\ UNCHANGED shared

\* The terminal record could not be written.
NotRecorded(a) ==
    /\ pc[a] = "validated"
    /\ Rests(a, "ended")
    /\ Fault
    /\ UNCHANGED <<pool, bookVars, backendVars>>
-----------------------------------------------------------------------------
(* abort: cancel_pending at once, recover_attempt in its turn                *)

\* Entries that a was the last to be interested in, now or when an earlier cancel saw them.
CancelledBefore(a, o) ==
    pool[o].reason = "cancelled" /\ pool[o].interests = {} /\ a \in offered /\ pool[o].key = Environment[a]

Abandoned(a) ==
    {o \in DOMAIN pool :
        \/ a \in pool[o].interests /\ pool[o].interests \subseteq {a}
        \/ CancelledBefore(a, o)}

\* Faulty: an interest shared with another attempt is kept.
CancelInterestLast(a, retired) ==
    /\ cancelled' = cancelled \cup {a}
    /\ pool' = [o \in DOMAIN pool |->
                  IF o \notin Abandoned(a) THEN pool[o]
                  ELSE [pool[o] EXCEPT !.interests = @ \ {a},
                                       !.reason = "cancelled",
                                       !.state = IF o \in retired THEN "retiring" ELSE @]]

\* cancel, with the entries it retires; an interest shared with another attempt only shrinks.
CancelInterest(a, retired) ==
    /\ cancelled' = cancelled \cup {a}
    /\ pool' = [o \in DOMAIN pool |->
                  [pool[o] EXCEPT !.interests = @ \ {a},
                                  !.reason = IF o \in Abandoned(a) THEN "cancelled" ELSE @,
                                  !.state = IF o \in retired THEN "retiring" ELSE @]]

Interrupts(a) ==
    interrupted' = interrupted \cup ({owner[a]} \ {Nobody})
                       \cup (Abandoned(a) \cap EntriesIn({"preparing", "resetting"}))

CancelPending(a) ==
    /\ a \notin cancelled
    /\ CancelInterest(a, {})
    /\ Interrupts(a)
    /\ pc' = Notified(pc)
    /\ UNCHANGED <<offered, failed, stopped, reserved, owner, alive, target, todo, waits, faults>>

Withdraw(a) ==
    LET idle == Abandoned(a) \cap EntriesIn(AtRest) IN
    /\ a \in cancelled /\ pc[a] \in Resting \ {"aborted"}
    /\ CancelInterest(a, idle)
    /\ Interrupts(a)
    /\ todo' = [todo EXCEPT ![a] = idle]
    /\ waits' = [waits EXCEPT ![a] = Abandoned(a)]
    /\ pc' = [Notified(pc) EXCEPT ![a] = "withdrawing"]
    /\ target' = [target EXCEPT ![a] = Nobody]
    /\ UNCHANGED <<offered, failed, stopped, reserved, owner, alive, faults>>

WithdrawSleeps(a) == pc[a] = "withdrawing" /\ Sleeps(a, "withdrawsleep")

WithdrawEnds(a) ==
    pc[a] = "withdrawing" /\ Waited(a, IF LeavesResidual(a) THEN "reporting" ELSE "removing")

\* Everything it owns is removed; an error of the pool still blocks the attempt.
Removed(a) ==
    /\ pc[a] \in {"removing", "reporting"}
    /\ alive' = alive \ {owner[a]}
    /\ interrupted' = interrupted \ {owner[a]}
    /\ reserved' = Without(reserved, a)
    /\ owner' = [owner EXCEPT ![a] = Nobody]
    /\ pc' = [pc EXCEPT ![a] = IF pc[a] = "removing" THEN "aborted" ELSE "blocked"]
    /\ UNCHANGED <<pool, bookVars, target, todo, waits, faults>>

NotRemoved(a) ==
    /\ pc[a] \in {"removing", "reporting"}
    /\ owner[a] \in alive
    /\ Goes(a, "blocked")
    /\ Fault
    /\ UNCHANGED <<pool, bookVars, backendVars>>
-----------------------------------------------------------------------------
(* _retire, _expire and close                                                *)

LeasedTo(o) == {a \in Attempts : owner[a] = o}

\* Faulty: the reservation of the attempt that leases the Worker is not looked for.
ChargeOwner(o) == o

\* _cleanup_pool_owner: the charge is the owner's, or that of the attempt it is leased to.
Charge(o) ==
    IF o \in DOMAIN reserved \/ LeasedTo(o) = {} THEN o ELSE CHOOSE a \in LeasedTo(o) : TRUE

Unmapped(o) == [a \in Attempts |-> IF owner[a] = o THEN Nobody ELSE owner[a]]

\* What is left stays paid for, by the owner unless it was interrupted.
ChargeMoves(o) == Charge(o) # o /\ Charge(o) \in DOMAIN reserved /\ o \notin interrupted

Retired(t, o) ==
    /\ o \in todo[t]
    /\ alive' = alive \ {o}
    /\ interrupted' = interrupted \ {o}
    /\ reserved' = Without(reserved, Charge(o))
    /\ owner' = Unmapped(o)
    /\ pool' = Without(pool, o)
    /\ todo' = [todo EXCEPT ![t] = @ \ {o}]
    /\ pc' = Notified(pc)
    /\ UNCHANGED <<bookVars, target, waits, faults>>

CleanupBlocked(t, o) ==
    /\ o \in todo[t] /\ o \in alive
    /\ IF ChargeMoves(o)
       THEN /\ reserved' = With(Without(reserved, Charge(o)), o, reserved[Charge(o)])
            /\ owner' = Unmapped(o)
       ELSE /\ reserved' = reserved
            /\ owner' = IF Charge(o) = o THEN Unmapped(o) ELSE owner
    /\ pool' = [pool EXCEPT ![o].state = "blocked"]
    /\ todo' = [todo EXCEPT ![t] = @ \ {o}]
    /\ pc' = Notified(pc)
    /\ Fault
    /\ UNCHANGED <<bookVars, interrupted, alive, target, waits>>

Expire(o) ==
    /\ ~stopped
    /\ o \in EntriesIn({"ready"})
    /\ Retiring(o, Background)
    /\ Fault
    /\ UNCHANGED <<bookVars, backendVars, pc, target, waits>>

\* The sweeper ends before the pool is drained.
Close ==
    /\ pc[Closer] = "open"
    /\ stopped' = TRUE
    /\ Goes(Closer, "closing")
    /\ Fault
    /\ UNCHANGED <<pool, offered, cancelled, failed, backendVars>>

CloseEvicts ==
    /\ pc[Closer] = "closing"
    /\ EvictIdle(Closer, FALSE, "evicting")
    /\ UNCHANGED <<bookVars, backendVars, faults>>

CloseSleeps == pc[Closer] = "evicting" /\ Sleeps(Closer, "evictsleep")

CloseEnds == pc[Closer] = "evicting" /\ Waited(Closer, "closed")
-----------------------------------------------------------------------------
(* Requests come, idle Workers expire and the service closes at any time.   *)
Requests(a) ==
    Preflight(a) \/ ReturnSkipped(a) \/ ReturnStarts(a) \/ CancelPending(a)

Offers(a) == OfferSkipped(a) \/ OfferMerged(a) \/ OfferReplaces(a) \/ OfferAgain(a) \/ OfferStarts(a)

Takes(a) ==
    \/ TakeRefused(a) \/ TakeAwaitsRetirement(a) \/ TakeFallsBack(a) \/ TakeMisses(a)
    \/ TakeQueues(a) \/ TakeClaims(a) \/ TakeDeadline(a)
    \/ Bind(a) \/ BindRefused(a) \/ Claimed(a) \/ ClaimRetired(a) \/ ClaimEnds(a)

Cold(a) ==
    \/ ColdAtOnce(a) \/ ColdDrains(a) \/ ColdRefused(a) \/ DrainSleeps(a) \/ DrainEnds(a)
    \/ ColdAdmitted(a) \/ ColdNotAdmitted(a) \/ Created(a)

Returns(a) ==
    \/ ResetStops(a) \/ ResetParks(a) \/ ResetVerified(a) \/ ResetInterrupted(a)
    \/ Destroyed(a) \/ Publish(a) \/ NothingToPublish(a) \/ Published(a)

Aborts(a) == Withdraw(a) \/ WithdrawSleeps(a) \/ WithdrawEnds(a) \/ Removed(a)

Works(a) == Offers(a) \/ Takes(a) \/ Cold(a) \/ Returns(a) \/ Aborts(a)

Fails(a) ==
    \/ BindFails(a) \/ CreationFails(a) \/ ResetFails(a)
    \/ NotDestroyed(a) \/ NotRecorded(a) \/ NotRemoved(a)

Prepares(o) == Prepared(o) \/ PrepareFails(o)

Retires(o) == \E t \in Janitors : Retired(t, o) \/ CleanupBlocked(t, o)

Closes == Close \/ CloseEvicts \/ CloseSleeps \/ CloseEnds

Next ==
    \/ \E a \in Attempts : Requests(a) \/ Works(a) \/ Fails(a)
    \/ \E o \in Owners : Prepares(o) \/ Retires(o) \/ Expire(o)
    \/ Closes

Spec == Init /\ [][Next]_vars

-----------------------------------------------------------------------------
(* What the pool promises                                                    *)

UserPositions ==
    {"binding", "bound", "creating", "leased", "resetting", "wiping", "parking", "destroying"}

Users(o) == {a \in Attempts : target[a] = o /\ pc[a] \in UserPositions}

\* A Worker serves one attempt at a time: an entry that can be given to the next
\* attempt, or that is made ready for it, is nobody's; the one being claimed has one
\* claimant; and a leased Worker has left the pool (take binds outside the lock).
OneUser ==
    \A o \in Owners :
        /\ Cardinality(Users(o)) <= 1
        /\ o \in EntriesIn({"preparing", "ready", "validated"}) => Users(o) = {}
        /\ o \in EntriesIn({"claiming"}) => \E a \in Users(o) : pc[a] \in {"binding", "bound"}
        /\ \A a \in Users(o) : pc[a] \in {"creating", "leased"} => o \notin DOMAIN pool

Payers(o) == {i \in {o} \cup LeasedTo(o) : i \in DOMAIN reserved}

\* Whatever Docker still holds is paid for by exactly one reservation, its owner's or that
\* of the attempt it is leased to, in full while it may run, through claims, returns,
\* failed cleanups and interruptions.
AliveIsCharged ==
    \A o \in alive :
        /\ Cardinality(Payers(o)) = 1
        /\ (\E a \in Users(o) : pc[a] \notin {"binding", "parking", "destroying"}) \/ o \in EntriesIn({"preparing"})
               => \A i \in Payers(o) : reserved[i] = 1

\* An aborted attempt has no reservation, no Worker and no interest in the pool left.
AbortedHoldsNothing ==
    \A a \in Attempts :
        pc[a] = "aborted" =>
            /\ a \notin DOMAIN reserved
            /\ owner[a] = Nobody
            /\ \A o \in DOMAIN pool : a \notin pool[o].interests

Sleeping == {"drainsleep", "withdrawsleep", "evictsleep"}

\* Somebody still works on the entry and will say when it is done.
Attended(o) ==
    \/ pool[o].state = "preparing"
    \/ \E t \in Janitors : o \in todo[t]
    \/ \E a \in Attempts : target[a] = o /\ pc[a] \in UserPositions \cup {"validated"}
    \/ \E a \in cancelled : pc[a] = "ended" /\ CancelledBefore(a, o)

\* A return whose terminal record failed, when the pool closes: nobody publishes it, and
\* whoever waits for it waits for ever.  Left out of the property below.
Stranded(o) == stopped /\ pool[o].state = "validated"

\* _wait_retired has no deadline: who sleeps in it waits for an entry that some thread
\* is at, which is not itself asleep, and was not forgotten by a notification.
SleepersAreAwaited ==
    \A t \in Threads :
        pc[t] \in Sleeping => \E o \in Unretired(t) : Attended(o) \/ Stranded(o)
=============================================================================
