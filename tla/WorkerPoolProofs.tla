-------------------------- MODULE WorkerPoolProofs --------------------------
(* Theorems about the pool of Workers, for any attempts, environments, number   *)
(* of faults and budget of the machine.                                         *)
EXTENDS WorkerPool, FiniteSetTheorems, TLAPS

-----------------------------------------------------------------------------
(* Types.                                                                    *)
Places == Resting \cup Busy \cup ClosePositions

\* What a step keeps of the types, by the kind of state.
PoolTyped ==
    /\ DOMAIN pool \subseteq Owners
    /\ \A o \in DOMAIN pool : pool[o] \in Entry
    /\ Cardinality(DOMAIN pool) <= Capacity

BookTyped ==
    /\ offered \in SUBSET Attempts /\ cancelled \in SUBSET Attempts
    /\ failed \in SUBSET Attempts /\ stopped \in BOOLEAN

BackendTyped ==
    /\ DOMAIN reserved \subseteq Owners \cup Attempts
    /\ \A i \in DOMAIN reserved : reserved[i] \in 0..1
    /\ interrupted \in SUBSET Owners
    /\ owner \in [Attempts -> Owners \cup {Nobody}]
    /\ alive \in SUBSET Owners

ThreadsTyped ==
    /\ pc \in [Threads -> Places]
    /\ target \in [Attempts -> Owners \cup {Nobody}]
    /\ todo \in [Janitors -> SUBSET Owners]
    /\ waits \in [Threads -> SUBSET Owners]

LEMMA TypeSplit ==
    TypeOK <=> PoolTyped /\ BookTyped /\ BackendTyped /\ ThreadsTyped /\ faults \in 0..MaxFaults
  BY DEF TypeOK, PoolTyped, BookTyped, BackendTyped, ThreadsTyped, Places

LEMMA OwnersFinite ==
    ASSUME PoolTyped
    PROVE  IsFiniteSet(DOMAIN pool)
  <1>1. IsFiniteSet(Owners)
    BY FS_Interval, PoolAssumption DEF Owners
  <1> QED
    BY <1>1, FS_Subset DEF PoolTyped

\* Entries that change stay entries, and entries that go make room.
LEMMA PoolShrinks ==
    ASSUME PoolTyped, DOMAIN pool' \subseteq DOMAIN pool,
           \A o \in DOMAIN pool' : pool'[o] \in Entry
    PROVE  PoolTyped'
  <1>1. Cardinality(DOMAIN pool') <= Cardinality(DOMAIN pool)
    BY OwnersFinite, FS_Subset
  <1>2. Cardinality(DOMAIN pool) \in Nat /\ Cardinality(DOMAIN pool') \in Nat
    BY OwnersFinite, FS_Subset, FS_CardinalityType
  <1> QED
    BY <1>1, <1>2, PoolAssumption DEF PoolTyped

\* A new entry takes a place that was free.
LEMMA PoolGrows ==
    ASSUME PoolTyped, HasRoom, NEW o \in Owners, NEW e \in Entry, pool' = With(pool, o, e)
    PROVE  PoolTyped'
  <1>1. DOMAIN pool' = DOMAIN pool \cup {o}
    BY DEF With
  <1>2. /\ Cardinality(DOMAIN pool') <= Cardinality(DOMAIN pool) + 1
        /\ Cardinality(DOMAIN pool) \in Nat /\ Cardinality(DOMAIN pool') \in Nat
    <2>1. /\ IsFiniteSet(DOMAIN pool \cup {o})
          /\ Cardinality(DOMAIN pool \cup {o}) =
                IF o \in DOMAIN pool THEN Cardinality(DOMAIN pool) ELSE Cardinality(DOMAIN pool) + 1
      BY OwnersFinite, FS_AddElement, Zenon
    <2>2. Cardinality(DOMAIN pool) \in Nat /\ Cardinality(DOMAIN pool \cup {o}) \in Nat
      BY <2>1, OwnersFinite, FS_CardinalityType, Zenon
    <2> QED
      BY <1>1, <2>1, <2>2
  <1>3. Cardinality(DOMAIN pool') <= Capacity
    BY <1>2, PoolAssumption DEF HasRoom
  <1> QED
    BY <1>1, <1>3 DEF PoolTyped, With

\* A notification moves sleepers only.
LEMMA NotifiedTyped ==
    ASSUME pc \in [Threads -> Places]
    PROVE  /\ Notified(pc) \in [Threads -> Places]
           /\ \A t \in Threads :
                 /\ pc[t] \notin {"asleep"} \cup Sleeping => Notified(pc)[t] = pc[t]
                 /\ Notified(pc)[t] \notin {"taking", "draining", "withdrawing", "evicting"} =>
                       Notified(pc)[t] = pc[t]
                 /\ pc[t] = "asleep" => Notified(pc)[t] = "taking"
                 /\ pc[t] = "drainsleep" => Notified(pc)[t] = "draining"
                 /\ pc[t] = "withdrawsleep" => Notified(pc)[t] = "withdrawing"
                 /\ pc[t] = "evictsleep" => Notified(pc)[t] = "evicting"
  BY DEF Notified, Roused, Places, Resting, Busy, ClosePositions, Sleeping

LEMMA InitTyped == Init => TypeOK
  <1> SUFFICES ASSUME Init PROVE TypeOK
    OBVIOUS
  <1>1. PICK idle \in Inherited :
          /\ pool = [o \in 1..Len(idle) |-> Idle(idle[o])]
          /\ reserved = [o \in 1..Len(idle) |-> 0]
          /\ alive = 1..Len(idle)
    BY DEF Init
  <1>2. /\ Len(idle) \in Nat /\ Len(idle) <= Capacity /\ 1..Len(idle) \subseteq Owners
        /\ \A i \in 1..Len(idle) : idle[i] \in Keys
    BY PoolAssumption DEF Owners
  <1>3. Cardinality(1..Len(idle)) <= Capacity
    <2>1. Cardinality(1..Len(idle)) = IF 1 > Len(idle) THEN 0 ELSE Len(idle) - 1 + 1
      BY <1>2, FS_Interval
    <2> QED
      BY <1>2, <2>1, PoolAssumption
  <1>4. \A k \in Keys : Idle(k) \in Entry
    BY DEF Idle, Entry, States
  <1>5. PoolTyped
    BY <1>1, <1>2, <1>3, <1>4 DEF PoolTyped
  <1>6. BackendTyped
    BY <1>1, <1>2 DEF Init, BackendTyped
  <1>7. ThreadsTyped
    BY DEF Init, ThreadsTyped, Places, Resting, ClosePositions
  <1>8. BookTyped /\ faults \in 0..MaxFaults
    <2>1. offered = {} /\ cancelled = {} /\ failed = {} /\ stopped = FALSE /\ faults = 0
      BY DEF Init
    <2>2. 0 \in 0..MaxFaults
      BY PoolAssumption
    <2> QED
      BY <2>1, <2>2 DEF BookTyped
  <1> QED
    BY <1>5, <1>6, <1>7, <1>8, TypeSplit

-----------------------------------------------------------------------------
(* Who is at which entry: the state of an entry, which every thread changes only  *)
(* under the lock, tells who may be at it.                                      *)
Serving == UserPositions \cup {"validated"}

In(o, states) == o \in DOMAIN pool /\ pool[o].state \in states
Out(o, states) == o \in DOMAIN pool => pool[o].state \in states

\* What an attempt that holds an entry or a Worker finds in the pool.
Placed(a) ==
    /\ pc[a] \in Serving => target[a] \in Owners
    /\ pc[a] \in {"binding", "bound"} => In(target[a], {"claiming"})
    /\ pc[a] \in {"resetting", "wiping", "parking"} => In(target[a], {"resetting"})
    /\ pc[a] \in {"creating", "leased"} => target[a] \notin DOMAIN pool
    /\ pc[a] = "destroying" => Out(target[a], {"retiring", "blocked"})
    /\ pc[a] = "validated" => Out(target[a], {"validated", "retiring", "blocked"})

Apart ==
    \A a, b \in Attempts :
        pc[a] \in Serving /\ pc[b] \in Serving /\ target[a] = target[b] => a = b

\* A retirement is one thread's, and its entry stays until that thread is done.
Cleaning ==
    /\ \A t \in Janitors : \A o \in todo[t] : In(o, {"retiring"})
    /\ \A t, u \in Janitors : \A o \in todo[t] : o \in todo[u] => t = u

Claiming ==
    \A o \in DOMAIN pool : pool[o].state = "claiming" =>
        \E a \in Attempts : target[a] = o /\ pc[a] \in {"binding", "bound"}

Seats == (\A a \in Attempts : Placed(a)) /\ Apart /\ Cleaning /\ Claiming

-----------------------------------------------------------------------------
(* Types along the steps.                                                    *)
\* The operators that several actions share.
LEMMA GoesTyped ==
    ASSUME ThreadsTyped, NEW t \in Threads, NEW place \in Places, Goes(t, place)
    PROVE  ThreadsTyped'
  BY DEF Goes, ThreadsTyped

LEMMA RestsTyped ==
    ASSUME ThreadsTyped, NEW a \in Attempts, NEW place \in Places, Rests(a, place)
    PROVE  ThreadsTyped'
  BY DEF Rests, ThreadsTyped, Threads

LEMMA RetiringTyped ==
    ASSUME PoolTyped, ThreadsTyped, NEW t \in Janitors, NEW o \in DOMAIN pool, Retiring(o, t)
    PROVE  /\ PoolTyped'
           /\ todo' \in [Janitors -> SUBSET Owners]
           /\ DOMAIN pool' = DOMAIN pool
           /\ \A p \in DOMAIN pool \ {o} : pool'[p] = pool[p]
           /\ pool'[o].state = "retiring" /\ pool'[o].interests = pool[o].interests
           /\ pool'[o].key = pool[o].key
  <1>1. /\ DOMAIN pool' = DOMAIN pool
        /\ \A p \in DOMAIN pool \ {o} : pool'[p] = pool[p]
        /\ pool'[o] = [pool[o] EXCEPT !.state = "retiring", !.reason = "other"]
    BY DEF Retiring
  <1>2. pool[o] \in Entry
    BY DEF PoolTyped
  <1>3. /\ pool'[o] \in Entry /\ pool'[o].state = "retiring"
        /\ pool'[o].interests = pool[o].interests /\ pool'[o].key = pool[o].key
    BY <1>1, <1>2 DEF Entry, States
  <1>4. PoolTyped'
    BY <1>1, <1>3, PoolShrinks DEF PoolTyped
  <1>5. todo' \in [Janitors -> SUBSET Owners]
    BY DEF Retiring, ThreadsTyped, PoolTyped
  <1> QED
    BY <1>1, <1>3, <1>4, <1>5

LEMMA EvictTyped ==
    ASSUME PoolTyped, ThreadsTyped, NEW t \in Threads, NEW pressure \in BOOLEAN, NEW place \in Places,
           EvictIdle(t, pressure, place)
    PROVE  PoolTyped' /\ ThreadsTyped'
  <1>1. DOMAIN pool' = DOMAIN pool
    BY DEF EvictIdle
  <1>2. ASSUME NEW o \in DOMAIN pool PROVE pool'[o] \in Entry
    <2>1. pool[o] \in Entry
      BY DEF PoolTyped
    <2>2. \/ pool'[o] = pool[o]
          \/ pool'[o] = [pool[o] EXCEPT !.reason = "other", !.state = "retiring"]
          \/ pool'[o] = [pool[o] EXCEPT !.reason = "other", !.state = @]
      BY DEF EvictIdle
    <2> QED
      BY <2>1, <2>2 DEF Entry, States
  <1>3. PoolTyped'
    BY <1>1, <1>2, PoolShrinks
  <1>4. Evictable(pressure) \subseteq Owners
    BY DEF Evictable, PoolTyped
  <1>5. /\ todo' \in [Janitors -> SUBSET Owners]
        /\ waits' \in [Threads -> SUBSET Owners]
        /\ target' \in [Attempts -> Owners \cup {Nobody}]
    BY <1>4 DEF EvictIdle, ThreadsTyped, Janitors
  <1>6. pc' \in [Threads -> Places]
    <2>1. Notified(pc) \in [Threads -> Places]
      BY NotifiedTyped DEF ThreadsTyped
    <2> QED
      BY <2>1 DEF EvictIdle
  <1> QED
    BY <1>3, <1>5, <1>6 DEF ThreadsTyped

Typed ==
    PoolTyped /\ BookTyped /\ BackendTyped /\ ThreadsTyped /\ faults \in 0..MaxFaults

LEMMA FaultTyped ==
    ASSUME faults \in 0..MaxFaults, Fault
    PROVE  faults' \in 0..MaxFaults
  BY PoolAssumption DEF Fault

LEMMA MovesTyped ==
    ASSUME Typed, NEW t \in Threads, NEW from, NEW to \in Places, Moves(t, from, to)
    PROVE  Typed'
  BY GoesTyped DEF Typed, Moves, shared, bookVars, backendVars, PoolTyped, BookTyped, BackendTyped

LEMMA SharedTyped ==
    ASSUME Typed, UNCHANGED shared
    PROVE  PoolTyped' /\ BookTyped' /\ BackendTyped' /\ faults' \in 0..MaxFaults
  BY DEF Typed, shared, bookVars, backendVars, PoolTyped, BookTyped, BackendTyped

LEMMA PoolKept == PoolTyped /\ UNCHANGED pool => PoolTyped'
  BY DEF PoolTyped

LEMMA BookKept == BookTyped /\ UNCHANGED bookVars => BookTyped'
  BY DEF BookTyped, bookVars

LEMMA BackendKept == BackendTyped /\ UNCHANGED backendVars => BackendTyped'
  BY DEF BackendTyped, backendVars

LEMMA OfferTyped ==
    ASSUME Typed, NEW a \in Attempts, Preflight(a) \/ Offers(a)
    PROVE  Typed'
  <1> USE DEF Typed
  <1>0. a \in Threads /\ a \in Janitors
    BY DEF Threads, Janitors
  <1>1. CASE Preflight(a)
    <2>1. BookTyped'
      BY <1>1 DEF Preflight, BookTyped
    <2>2. ThreadsTyped'
      BY <1>0, <1>1, GoesTyped DEF Preflight, Places, Busy
    <2> QED
      BY <1>1, <2>1, <2>2, PoolKept, BackendKept DEF Preflight
  <1>2. CASE OfferSkipped(a)
    BY <1>0, <1>2, GoesTyped, SharedTyped DEF OfferSkipped, Places, Resting
  <1>3. CASE OfferMerged(a)
    <2>1. PICK o \in Joinable(a) :
            pool' = [pool EXCEPT ![o].interests = IF Cardinality(@) < Capacity THEN @ \cup {a} ELSE @]
      BY <1>3 DEF OfferMerged
    <2>2. o \in DOMAIN pool /\ pool[o] \in Entry
      BY DEF Joinable, EntriesIn, PoolTyped
    <2>3. \E s \in SUBSET Attempts : pool' = [pool EXCEPT ![o] = [pool[o] EXCEPT !.interests = s]]
      BY <2>1, <2>2 DEF Entry
    <2>4. PoolTyped'
      BY <2>2, <2>3, PoolShrinks DEF PoolTyped, Entry
    <2>5. ThreadsTyped'
      BY <1>0, <1>3, GoesTyped DEF OfferMerged, Places, Resting
    <2> QED
      BY <1>3, <2>4, <2>5, BookKept, BackendKept DEF OfferMerged
  <1>4. CASE OfferReplaces(a)
    <2>1. PICK o \in Replaceable(a) : Retiring(o, a)
      BY <1>4 DEF OfferReplaces
    <2>2. o \in DOMAIN pool
      BY DEF Replaceable, EntriesIn
    <2>3. PoolTyped' /\ todo' \in [Janitors -> SUBSET Owners]
      BY <1>0, <2>1, <2>2, RetiringTyped
    <2>4. ThreadsTyped'
      BY <1>0, <1>4, <2>3 DEF OfferReplaces, ThreadsTyped, Places, Busy
    <2> QED
      BY <1>4, <2>3, <2>4, BookKept, BackendKept DEF OfferReplaces
  <1>5. CASE OfferAgain(a)
    BY <1>0, <1>5, MovesTyped DEF OfferAgain, Places, Busy
  <1>6. CASE OfferStarts(a)
    <2>1. PICK o \in Owners :
          /\ IsFresh(o)
          /\ pool' = With(pool, o, [state |-> "preparing", key |-> Environment[a], interests |-> {a},
                                    reason |-> "none", waiting |-> Nobody, parked |-> FALSE])
          /\ reserved' = With(reserved, o, 1)
          /\ alive' = alive \cup {o}
          /\ interrupted' = interrupted \ {o}
      BY <1>6 DEF OfferStarts
    <2>2. [state |-> "preparing", key |-> Environment[a], interests |-> {a},
           reason |-> "none", waiting |-> Nobody, parked |-> FALSE] \in Entry
      BY PoolAssumption DEF Entry, States
    <2>3. PoolTyped'
      BY <1>6, <2>1, <2>2, PoolGrows DEF OfferStarts
    <2>4. BackendTyped'
      BY <1>6, <2>1 DEF OfferStarts, BackendTyped, With
    <2>5. ThreadsTyped'
      BY <1>0, <1>6, GoesTyped DEF OfferStarts, Places, Resting
    <2> QED
      BY <1>6, <2>3, <2>4, <2>5, BookKept DEF OfferStarts
  <1> QED
    BY <1>1, <1>2, <1>3, <1>4, <1>5, <1>6 DEF Offers

LEMMA PreparedTyped ==
    ASSUME Typed, NEW o \in Owners, Prepared(o) \/ PrepareFails(o) \/ Expire(o)
    PROVE  Typed'
  <1> USE DEF Typed
  <1>0. Background \in Janitors
    BY DEF Janitors
  <1>1. o \in DOMAIN pool /\ pool[o] \in Entry
    BY DEF Prepared, PrepareFails, Expire, EntriesIn, PoolTyped
  <1>2. CASE Prepared(o)
    <2>1. \/ pool' = [pool EXCEPT ![o] = [pool[o] EXCEPT !.state = "ready"]]
          \/ pool' = [pool EXCEPT ![o] = [pool[o] EXCEPT !.state = "retiring"]]
      BY <1>1, <1>2 DEF Prepared
    <2>2. PoolTyped'
      BY <1>1, <2>1, PoolShrinks DEF PoolTyped, Entry, States
    <2>3. pc' \in [Threads -> Places]
      BY <1>2, NotifiedTyped DEF Prepared, ThreadsTyped
    <2>4. ThreadsTyped'
      BY <1>0, <1>2, <2>3 DEF Prepared, ThreadsTyped
    <2> QED
      BY <1>2, <2>2, <2>4, BookKept, BackendKept DEF Prepared
  <1>3. CASE PrepareFails(o)
    <2>1. PoolTyped' /\ todo' \in [Janitors -> SUBSET Owners]
      BY <1>0, <1>1, <1>3, RetiringTyped DEF PrepareFails
    <2>2. pool[o].interests \in SUBSET Attempts
      BY <1>1 DEF Entry
    <2>3. BookTyped'
      BY <1>3, <2>2 DEF PrepareFails, BookTyped
    <2>4. ThreadsTyped' /\ faults' \in 0..MaxFaults
      BY <1>3, <2>1, FaultTyped DEF PrepareFails, ThreadsTyped
    <2> QED
      BY <1>3, <2>1, <2>3, <2>4, BackendKept DEF PrepareFails
  <1>4. CASE Expire(o)
    <2>1. PoolTyped' /\ todo' \in [Janitors -> SUBSET Owners]
      BY <1>0, <1>1, <1>4, RetiringTyped DEF Expire
    <2>2. ThreadsTyped' /\ faults' \in 0..MaxFaults
      BY <1>4, <2>1, FaultTyped DEF Expire, ThreadsTyped
    <2> QED
      BY <1>4, <2>1, <2>2, BackendKept, BookKept DEF Expire
  <1> QED
    BY <1>2, <1>3, <1>4

LEMMA TakeTyped ==
    ASSUME Typed, Seats, NEW a \in Attempts, Takes(a) \/ BindFails(a)
    PROVE  Typed'
  <1> USE DEF Typed
  <1>0. /\ a \in Threads /\ a \in Janitors
        /\ {"idle", "taking", "late", "asleep", "blocked", "cold", "binding", "bound",
            "leased", "refused", "rejected", "destroying"} \subseteq Places
        /\ target[a] \in Owners \cup {Nobody} /\ Nobody \notin Attempts
    BY PoolAssumption DEF Threads, Janitors, Places, Resting, Busy, ThreadsTyped
  <1>1. Notified(pc) \in [Threads -> Places]
    BY NotifiedTyped DEF ThreadsTyped
  <1>2. ASSUME NEW place \in Places, Leaves(a, place) PROVE Typed'
    <2>1. PoolTyped'
      <3>1. CASE pool' = pool
        BY <3>1, PoolKept
      <3>2. CASE target[a] \in DOMAIN pool /\ pool' = [pool EXCEPT ![target[a]].waiting = Nobody]
        <4>1. pool[target[a]] \in Entry
          BY <3>2 DEF PoolTyped
        <4>2. pool' = [pool EXCEPT ![target[a]] = [pool[target[a]] EXCEPT !.waiting = Nobody]]
          BY <3>2
        <4> QED
          BY <3>2, <4>1, <4>2, PoolShrinks DEF PoolTyped, Entry
      <3> QED
        BY <1>2, <3>1, <3>2 DEF Leaves, Unmarked
    <2>2. ThreadsTyped'
      BY <1>0, <1>1, <1>2 DEF Leaves, ThreadsTyped
    <2> QED
      BY <1>2, <2>1, <2>2, BookKept, BackendKept DEF Leaves
  <1>3. ASSUME NEW place \in Places, Rejects(a, place), target[a] \in DOMAIN pool,
               faults' \in 0..MaxFaults
        PROVE  Typed'
    <2>1. PoolTyped' /\ todo' \in [Janitors -> SUBSET Owners]
      BY <1>0, <1>3, RetiringTyped DEF Rejects
    <2>2. ThreadsTyped'
      BY <1>3, <2>1 DEF Rejects, ThreadsTyped
    <2> QED
      BY <1>3, <2>1, <2>2, BookKept, BackendKept DEF Rejects
  <1>4. CASE TakeRefused(a)
    BY <1>0, <1>2, <1>4 DEF TakeRefused
  <1>5. CASE TakeAwaitsRetirement(a)
    <2>1. CASE Leaves(a, "blocked")
      BY <1>0, <1>2, <2>1
    <2>2. CASE Goes(a, "asleep") /\ UNCHANGED shared
      BY <1>0, <2>2, GoesTyped, SharedTyped
    <2> QED
      BY <1>5, <2>1, <2>2 DEF TakeAwaitsRetirement
  <1>6. CASE TakeFallsBack(a)
    BY <1>0, <1>2, <1>6 DEF TakeFallsBack
  <1>7. CASE TakeMisses(a)
    BY <1>0, <1>7, RestsTyped, SharedTyped DEF TakeMisses
  <1>8. CASE TakeQueues(a)
    <2>1. PICK o \in Claimable(a) :
          IF pc[a] = "late"
             THEN /\ pool' = [pool EXCEPT ![o].waiting = Nobody]
                  /\ pc' = [Notified(pc) EXCEPT ![a] = "blocked"]
                  /\ target' = [target EXCEPT ![a] = Nobody]
             ELSE /\ pool' = [pool EXCEPT ![o].waiting = a]
                  /\ pc' = [pc EXCEPT ![a] = "asleep"]
                  /\ target' = [target EXCEPT ![a] = o]
      BY <1>8 DEF TakeQueues
    <2>2. o \in DOMAIN pool /\ pool[o] \in Entry /\ o \in Owners
      BY DEF Claimable, PoolTyped
    <2>3. \E w \in Attempts \cup {Nobody} : pool' = [pool EXCEPT ![o] = [pool[o] EXCEPT !.waiting = w]]
      BY <2>1, <2>2
    <2>4. PoolTyped'
      BY <2>2, <2>3, PoolShrinks DEF PoolTyped, Entry
    <2>5. ThreadsTyped'
      BY <1>0, <1>1, <1>8, <2>1, <2>2 DEF TakeQueues, ThreadsTyped
    <2> QED
      BY <1>8, <2>4, <2>5, BookKept, BackendKept DEF TakeQueues
  <1>9. CASE TakeClaims(a)
    <2>1. PICK o \in Claimable(a) :
          /\ pool' = [pool EXCEPT ![o].state = "claiming", ![o].waiting = Nobody]
          /\ target' = [target EXCEPT ![a] = o]
      BY <1>9 DEF TakeClaims
    <2>2. o \in DOMAIN pool /\ pool[o] \in Entry /\ o \in Owners
      BY DEF Claimable, PoolTyped
    <2>3. pool' = [pool EXCEPT ![o] = [pool[o] EXCEPT !.state = "claiming", !.waiting = Nobody]]
      BY <2>1, <2>2 DEF Entry
    <2>4. PoolTyped'
      BY <2>2, <2>3, PoolShrinks DEF PoolTyped, Entry, States
    <2>5. ThreadsTyped'
      BY <1>0, <1>1, <1>9, <2>1, <2>2 DEF TakeClaims, ThreadsTyped
    <2> QED
      BY <1>9, <2>4, <2>5, BookKept, BackendKept DEF TakeClaims
  <1>10. CASE TakeDeadline(a)
    BY <1>0, <1>10, MovesTyped DEF TakeDeadline
  <1>11. CASE Bind(a)
    <2>1. target[a] \in DOMAIN reserved \/ target[a] \in Owners \cup {Nobody}
      BY <1>0
    <2>2. ThreadsTyped'
      BY <1>0, <1>11, GoesTyped DEF Bind
    <2>3. BackendTyped'
      BY <1>0, <1>11 DEF Bind, BackendTyped, With, Without
    <2> QED
      BY <1>11, <2>2, <2>3, PoolKept, BookKept DEF Bind
  <1>12. CASE BindRefused(a)
    <2>1. target[a] \in DOMAIN pool
      BY <1>12 DEF Seats, Placed, In, BindRefused
    <2> QED
      BY <1>0, <1>3, <1>12, <2>1 DEF BindRefused
  <1>13. CASE BindFails(a)
    <2>1. target[a] \in DOMAIN pool
      BY <1>13 DEF Seats, Placed, In, BindFails
    <2> QED
      BY <1>0, <1>3, <1>13, <2>1, FaultTyped DEF BindFails
  <1>14. CASE Claimed(a)
    <2>1. PoolTyped'
      BY <1>14, PoolShrinks DEF Claimed, Without, PoolTyped
    <2>2. ThreadsTyped'
      BY <1>0, <1>1, <1>14 DEF Claimed, ThreadsTyped
    <2> QED
      BY <1>14, <2>1, <2>2, BookKept, BackendKept DEF Claimed
  <1>15. CASE ClaimRetired(a)
    <2>1. target[a] \in DOMAIN pool
      BY <1>15 DEF Seats, Placed, In, ClaimRetired
    <2> QED
      BY <1>0, <1>3, <1>15, <2>1 DEF ClaimRetired
  <1>16. CASE ClaimEnds(a)
    <2>1. BookTyped'
      BY <1>16 DEF ClaimEnds, BookTyped
    <2>2. ThreadsTyped'
      BY <1>0, <1>16 DEF ClaimEnds, ThreadsTyped
    <2> QED
      BY <1>16, <2>1, <2>2, PoolKept, BackendKept DEF ClaimEnds
  <1> QED
    BY <1>4, <1>5, <1>6, <1>7, <1>8, <1>9, <1>10, <1>11, <1>12, <1>13, <1>14, <1>15, <1>16
       DEF Takes

LEMMA WaitedTyped ==
    ASSUME Typed, NEW t \in Threads, NEW place \in Places, Waited(t, place)
    PROVE  Typed'
  <1>1. ThreadsTyped'
    BY DEF Typed, Waited, ThreadsTyped
  <1> QED
    BY <1>1, PoolKept, BookKept, BackendKept DEF Typed, Waited

LEMMA SleepsTyped ==
    ASSUME Typed, NEW t \in Threads, NEW place \in Places, Sleeps(t, place)
    PROVE  Typed'
  BY GoesTyped, SharedTyped DEF Typed, Sleeps

LEMMA ColdTyped ==
    ASSUME Typed, NEW a \in Attempts, Cold(a) \/ CreationFails(a)
    PROVE  Typed'
  <1> USE DEF Typed
  <1>0. /\ a \in Threads
        /\ {"cold", "draining", "drainsleep", "acquiring", "creating", "leased", "idle", "blocked"}
             \subseteq Places
    BY DEF Threads, Places, Resting, Busy
  <1>1. ASSUME Creates(a) PROVE Typed'
    <2>1. PICK o \in Owners :
          /\ owner' = [owner EXCEPT ![a] = o]
          /\ target' = [target EXCEPT ![a] = o]
          /\ alive' = alive \cup {o}
          /\ interrupted' = interrupted \ {o}
      BY <1>1 DEF Creates
    <2>2. BackendTyped'
      BY <1>1, <2>1 DEF Creates, BackendTyped, With
    <2>3. ThreadsTyped'
      BY <1>0, <1>1, <2>1 DEF Creates, ThreadsTyped
    <2> QED
      BY <1>1, <2>2, <2>3, PoolKept, BookKept DEF Creates
  <1>2. CASE ColdDrains(a)
    BY <1>0, <1>2, EvictTyped, BookKept, BackendKept DEF ColdDrains
  <1>3. CASE ColdRefused(a) \/ Created(a)
    BY <1>0, <1>3, MovesTyped DEF ColdRefused, Created
  <1>4. CASE DrainSleeps(a)
    BY <1>0, <1>4, SleepsTyped DEF DrainSleeps
  <1>5. CASE DrainEnds(a)
    BY <1>0, <1>5, WaitedTyped DEF DrainEnds
  <1>6. CASE ColdNotAdmitted(a)
    BY <1>0, <1>6, MovesTyped DEF ColdNotAdmitted
  <1>7. CASE CreationFails(a)
    <2>1. BackendTyped'
      <3>1. alive' \in SUBSET Owners /\ DOMAIN reserved' \subseteq DOMAIN reserved
        BY <1>7 DEF CreationFails, BackendTyped, Without
      <3>2. \A i \in DOMAIN reserved' : reserved'[i] = reserved[i]
        BY <1>7 DEF CreationFails, Without
      <3> QED
        BY <1>7, <3>1, <3>2 DEF CreationFails, BackendTyped
    <2>2. ThreadsTyped'
      BY <1>0, <1>7, RestsTyped DEF CreationFails
    <2> QED
      BY <1>7, <2>1, <2>2, PoolKept, BookKept, FaultTyped DEF CreationFails
  <1> QED
    BY <1>1, <1>2, <1>3, <1>4, <1>5, <1>6, <1>7 DEF Cold, ColdAtOnce, ColdAdmitted

LEMMA ReturnTyped ==
    ASSUME Typed, Seats, NEW a \in Attempts,
           ReturnSkipped(a) \/ ReturnStarts(a) \/ Returns(a) \/ ResetFails(a)
           \/ NotDestroyed(a) \/ NotRecorded(a)
    PROVE  Typed'
  <1> USE DEF Typed
  <1>0. /\ a \in Threads /\ a \in Janitors
        /\ {"resetting", "wiping", "parking", "validated", "publishing", "destroying", "ended",
            "blocked"} \subseteq Places
    BY DEF Threads, Janitors, Places, Resting, Busy
  <1>1. Notified(pc) \in [Threads -> Places]
    BY NotifiedTyped DEF ThreadsTyped
  <1>2. pc[a] \in Serving => target[a] \in Owners
    BY DEF Seats, Placed
  <1>3. pc[a] \in {"resetting", "wiping", "parking"} => target[a] \in DOMAIN pool
    BY DEF Seats, Placed, In
  <1>4. CASE ReturnSkipped(a)
    BY <1>0, <1>4, MovesTyped DEF ReturnSkipped
  <1>5. CASE ReturnStarts(a)
    <2>1. [state |-> "resetting", key |-> Environment[a], interests |-> {a},
           reason |-> "none", waiting |-> Nobody, parked |-> FALSE] \in Entry
      BY PoolAssumption DEF Entry, States
    <2>2. target[a] \in Owners
      BY <1>2, <1>5 DEF ReturnStarts, Serving, UserPositions
    <2>3. PoolTyped'
      BY <1>5, <2>1, <2>2, PoolGrows DEF ReturnStarts
    <2>4. ThreadsTyped'
      BY <1>0, <1>5, GoesTyped DEF ReturnStarts
    <2> QED
      BY <1>5, <2>3, <2>4, BookKept, BackendKept DEF ReturnStarts
  <1>6. CASE ResetStops(a)
    <2>1. target[a] \in Owners
      BY <1>2, <1>6 DEF ResetStops, Serving, UserPositions
    <2>2. BackendTyped'
      BY <1>6, <2>1 DEF ResetStops, BackendTyped, With, Without
    <2>3. ThreadsTyped'
      BY <1>0, <1>6, GoesTyped DEF ResetStops
    <2> QED
      BY <1>6, <2>2, <2>3, PoolKept, BookKept DEF ResetStops
  <1>7. CASE ResetParks(a)
    <2>1. target[a] \in Owners
      BY <1>2, <1>7 DEF ResetParks, Serving, UserPositions
    <2>2. BackendTyped'
      BY <1>7, <2>1 DEF ResetParks, BackendTyped, With
    <2>3. ThreadsTyped'
      BY <1>0, <1>7, GoesTyped DEF ResetParks
    <2> QED
      BY <1>7, <2>2, <2>3, PoolKept, BookKept DEF ResetParks
  <1>8. CASE ResetVerified(a)
    <2>1. pool[target[a]] \in Entry /\ target[a] \in DOMAIN pool
      BY <1>3, <1>8 DEF ResetVerified, PoolTyped
    <2>2. pool' = [pool EXCEPT ![target[a]] = [pool[target[a]] EXCEPT !.state = "validated", !.parked = TRUE]]
      BY <1>8, <2>1 DEF ResetVerified, Entry
    <2>3. PoolTyped'
      BY <2>1, <2>2, PoolShrinks DEF PoolTyped, Entry, States
    <2>4. ThreadsTyped'
      BY <1>0, <1>1, <1>8 DEF ResetVerified, ThreadsTyped
    <2> QED
      BY <1>8, <2>3, <2>4, BookKept, BackendKept DEF ResetVerified
  <1>9. ASSUME Rejects(a, "destroying"), pc[a] \in {"resetting", "wiping"}, faults' \in 0..MaxFaults
        PROVE  Typed'
    <2>1. PoolTyped' /\ todo' \in [Janitors -> SUBSET Owners]
      BY <1>0, <1>3, <1>9, RetiringTyped DEF Rejects
    <2>2. ThreadsTyped'
      BY <1>0, <1>9, <2>1 DEF Rejects, ThreadsTyped
    <2> QED
      BY <1>9, <2>1, <2>2, BookKept, BackendKept DEF Rejects
  <1>10. CASE ResetFails(a) \/ ResetInterrupted(a)
    BY <1>9, <1>10, FaultTyped DEF ResetFails, ResetInterrupted
  <1>11. CASE Destroyed(a)
    <2>1. BackendTyped'
      BY <1>11 DEF Destroyed, BackendTyped, Without
    <2>2. ThreadsTyped'
      BY <1>0, <1>11, RestsTyped DEF Destroyed
    <2> QED
      BY <1>11, <2>1, <2>2, PoolKept, BookKept DEF Destroyed
  <1>12. CASE Publish(a)
    <2>1. pool[target[a]] \in Entry /\ target[a] \in DOMAIN pool /\ target[a] \in Owners
      BY <1>12 DEF Publish, EntriesIn, PoolTyped
    <2>2. \E s \in {"ready", "retiring"} :
            pool' = [pool EXCEPT ![target[a]] = [pool[target[a]] EXCEPT !.state = s, !.interests = {}]]
      BY <1>12, <2>1 DEF Publish, Entry
    <2>3. PoolTyped'
      <3>1. \A s \in States :
              [pool[target[a]] EXCEPT !.state = s, !.interests = {}] \in Entry
        BY <2>1 DEF Entry
      <3>2. PICK s \in {"ready", "retiring"} :
              pool' = [pool EXCEPT ![target[a]] = [pool[target[a]] EXCEPT !.state = s, !.interests = {}]]
        BY <2>2
      <3>3. /\ DOMAIN pool' = DOMAIN pool
            /\ \A o \in DOMAIN pool' : pool'[o] \in Entry
        BY <2>1, <3>1, <3>2 DEF PoolTyped, States
      <3> QED
        BY <3>3, PoolShrinks
    <2>4. ThreadsTyped'
      BY <1>0, <1>1, <1>12, <2>1 DEF Publish, ThreadsTyped
    <2> QED
      BY <1>12, <2>3, <2>4, BookKept, BackendKept DEF Publish
  <1>13. CASE NothingToPublish(a)
    BY <1>0, <1>13, RestsTyped, SharedTyped DEF NothingToPublish
  <1>14. CASE Published(a)
    BY <1>0, <1>14, MovesTyped DEF Published
  <1>15. CASE NotDestroyed(a) \/ NotRecorded(a)
    BY <1>0, <1>15, RestsTyped, PoolKept, BookKept, BackendKept, FaultTyped
       DEF NotDestroyed, NotRecorded
  <1> QED
    BY <1>4, <1>5, <1>6, <1>7, <1>8, <1>10, <1>11, <1>12, <1>13, <1>14, <1>15 DEF Returns

\* What a cancellation leaves of an entry.
LEMMA CancelKeepsEntries ==
    ASSUME PoolTyped, NEW a \in Attempts, NEW retired \in SUBSET Owners, CancelInterest(a, retired)
    PROVE  /\ PoolTyped'
           /\ DOMAIN pool' = DOMAIN pool
           /\ \A o \in DOMAIN pool :
                 /\ pool'[o].interests = pool[o].interests \ {a}
                 /\ pool'[o].state = IF o \in retired THEN "retiring" ELSE pool[o].state
  <1>1. DOMAIN pool' = DOMAIN pool
    BY DEF CancelInterest
  <1>2. ASSUME NEW o \in DOMAIN pool
        PROVE  /\ pool'[o] \in Entry
               /\ pool'[o].interests = pool[o].interests \ {a}
               /\ pool'[o].state = IF o \in retired THEN "retiring" ELSE pool[o].state
    <2>1. pool[o] \in Entry
      BY DEF PoolTyped
    <2>2. pool'[o] = [pool[o] EXCEPT !.interests = @ \ {a},
                                     !.reason = IF o \in Abandoned(a) THEN "cancelled" ELSE @,
                                     !.state = IF o \in retired THEN "retiring" ELSE @]
      BY DEF CancelInterest
    <2>3. PICK reason \in {"none", "cancelled", "other"}, state \in States :
            /\ pool'[o] = [pool[o] EXCEPT !.interests = pool[o].interests \ {a}, !.reason = reason,
                                          !.state = state]
            /\ state = IF o \in retired THEN "retiring" ELSE pool[o].state
      <3>1. pool[o].reason \in {"none", "cancelled", "other"} /\ pool[o].state \in States
        BY <2>1 DEF Entry
      <3> QED
        BY <2>1, <2>2, <3>1, ZenonT(30) DEF Entry, States
    <2>4. PICK left \in SUBSET Attempts : left = pool[o].interests \ {a}
      BY <2>1 DEF Entry
    <2>5. pool'[o] = [pool[o] EXCEPT !.interests = left, !.reason = reason, !.state = state]
      BY <2>3, <2>4
    <2>6. pool'[o] \in Entry /\ pool'[o].interests = left /\ pool'[o].state = state
      BY <2>1, <2>5 DEF Entry
    <2> QED
      BY <2>3, <2>4, <2>6
  <1> QED
    BY <1>1, <1>2, PoolShrinks

LEMMA AbandonedTyped ==
    ASSUME PoolTyped, NEW a
    PROVE  Abandoned(a) \subseteq Owners /\ Abandoned(a) \cap EntriesIn(AtRest) \subseteq Owners
  BY DEF Abandoned, PoolTyped

LEMMA InterruptsTyped ==
    ASSUME PoolTyped, BackendTyped, NEW a \in Attempts, Interrupts(a)
    PROVE  interrupted' \in SUBSET Owners
  BY AbandonedTyped DEF Interrupts, BackendTyped

LEMMA AbortTyped ==
    ASSUME Typed, NEW a \in Attempts, CancelPending(a) \/ Aborts(a) \/ NotRemoved(a)
    PROVE  Typed'
  <1> USE DEF Typed
  <1>0. /\ a \in Threads /\ a \in Janitors
        /\ {"withdrawing", "withdrawsleep", "removing", "reporting", "aborted", "blocked"}
             \subseteq Places
    BY DEF Threads, Janitors, Places, Resting, Busy
  <1>1. Notified(pc) \in [Threads -> Places]
    BY NotifiedTyped DEF ThreadsTyped
  <1>2. CASE CancelPending(a)
    <2>1. PoolTyped'
      BY <1>2, CancelKeepsEntries DEF CancelPending
    <2>2. BookTyped'
      BY <1>2 DEF CancelPending, CancelInterest, BookTyped
    <2>3. BackendTyped'
      BY <1>2, InterruptsTyped DEF CancelPending, BackendTyped
    <2>4. ThreadsTyped'
      BY <1>1, <1>2 DEF CancelPending, ThreadsTyped
    <2> QED
      BY <1>2, <2>1, <2>2, <2>3, <2>4 DEF CancelPending
  <1>3. CASE Withdraw(a)
    <2>1. PoolTyped'
      BY <1>3, CancelKeepsEntries, AbandonedTyped DEF Withdraw
    <2>2. BookTyped'
      BY <1>3 DEF Withdraw, CancelInterest, BookTyped
    <2>3. BackendTyped'
      BY <1>3, InterruptsTyped DEF Withdraw, BackendTyped
    <2>4. ThreadsTyped'
      BY <1>0, <1>1, <1>3, AbandonedTyped DEF Withdraw, ThreadsTyped
    <2> QED
      BY <1>3, <2>1, <2>2, <2>3, <2>4 DEF Withdraw
  <1>4. CASE WithdrawSleeps(a)
    BY <1>0, <1>4, SleepsTyped DEF WithdrawSleeps
  <1>5. CASE WithdrawEnds(a)
    BY <1>0, <1>5, WaitedTyped DEF WithdrawEnds
  <1>6. CASE Removed(a)
    <2>1. BackendTyped'
      BY <1>6 DEF Removed, BackendTyped, Without
    <2>2. ThreadsTyped'
      BY <1>0, <1>6 DEF Removed, ThreadsTyped
    <2> QED
      BY <1>6, <2>1, <2>2, PoolKept, BookKept DEF Removed
  <1>7. CASE NotRemoved(a)
    BY <1>0, <1>7, GoesTyped, PoolKept, BookKept, BackendKept, FaultTyped DEF NotRemoved
  <1> QED
    BY <1>2, <1>3, <1>4, <1>5, <1>6, <1>7 DEF Aborts

LEMMA RetireTyped ==
    ASSUME Typed, Seats, NEW o \in Owners, Retires(o)
    PROVE  Typed'
  <1> USE DEF Typed
  <1>1. PICK t \in Janitors : Retired(t, o) \/ CleanupBlocked(t, o)
    BY DEF Retires
  <1>2. Notified(pc) \in [Threads -> Places]
    BY NotifiedTyped DEF ThreadsTyped
  <1>3. Unmapped(o) \in [Attempts -> Owners \cup {Nobody}]
    BY DEF Unmapped, BackendTyped
  <1>4. CASE Retired(t, o)
    <2>1. PoolTyped'
      BY <1>4, PoolShrinks DEF Retired, Without, PoolTyped
    <2>2. BackendTyped'
      BY <1>3, <1>4 DEF Retired, BackendTyped, Without
    <2>3. ThreadsTyped'
      BY <1>2, <1>4 DEF Retired, ThreadsTyped
    <2> QED
      BY <1>4, <2>1, <2>2, <2>3, BookKept DEF Retired
  <1>5. CASE CleanupBlocked(t, o)
    <2>1. o \in DOMAIN pool /\ pool[o] \in Entry
      BY <1>5 DEF CleanupBlocked, Seats, Cleaning, In, PoolTyped
    <2>2. pool' = [pool EXCEPT ![o] = [pool[o] EXCEPT !.state = "blocked"]]
      BY <1>5, <2>1 DEF CleanupBlocked
    <2>3. PoolTyped'
      BY <2>1, <2>2, PoolShrinks DEF PoolTyped, Entry, States
    <2>4. BackendTyped'
      <3>1. CASE ChargeMoves(o)
        <4>1. Charge(o) \in DOMAIN reserved
          BY <3>1 DEF ChargeMoves
        <4>2. reserved' = With(Without(reserved, Charge(o)), o, reserved[Charge(o)])
          BY <1>5, <3>1 DEF CleanupBlocked
        <4>3. /\ DOMAIN reserved' \subseteq Owners \cup Attempts
              /\ \A i \in DOMAIN reserved' : reserved'[i] \in 0..1
          BY <4>1, <4>2 DEF BackendTyped, With, Without
        <4> QED
          BY <1>3, <1>5, <3>1, <4>3 DEF CleanupBlocked, BackendTyped
      <3>2. CASE ~ChargeMoves(o)
        <4>1. /\ reserved' = reserved
              /\ owner' = Unmapped(o) \/ owner' = owner
          BY <1>5, <3>2 DEF CleanupBlocked
        <4> QED
          BY <1>3, <1>5, <4>1 DEF CleanupBlocked, BackendTyped
      <3> QED
        BY <3>1, <3>2
    <2>5. ThreadsTyped'
      BY <1>2, <1>5 DEF CleanupBlocked, ThreadsTyped
    <2> QED
      BY <1>5, <2>3, <2>4, <2>5, BookKept, FaultTyped DEF CleanupBlocked
  <1> QED
    BY <1>1, <1>4, <1>5

LEMMA CloseTyped ==
    ASSUME Typed, Closes
    PROVE  Typed'
  <1> USE DEF Typed
  <1>0. /\ Closer \in Threads
        /\ {"closing", "evicting", "evictsleep", "closed"} \subseteq Places
    BY DEF Threads, Places, ClosePositions
  <1>1. CASE Close
    <2>1. BookTyped'
      BY <1>1 DEF Close, BookTyped
    <2> QED
      BY <1>0, <1>1, <2>1, GoesTyped, PoolKept, BackendKept, FaultTyped DEF Close
  <1>2. CASE CloseEvicts
    BY <1>0, <1>2, EvictTyped, BookKept, BackendKept DEF CloseEvicts
  <1>3. CASE CloseSleeps
    BY <1>0, <1>3, SleepsTyped DEF CloseSleeps
  <1>4. CASE CloseEnds
    BY <1>0, <1>4, WaitedTyped DEF CloseEnds
  <1> QED
    BY <1>1, <1>2, <1>3, <1>4 DEF Closes

LEMMA StepTyped ==
    ASSUME Typed, Seats, [Next]_vars
    PROVE  Typed'
  <1>1. CASE UNCHANGED vars
    <2>1. ThreadsTyped'
      BY <1>1 DEF Typed, vars, threadVars, ThreadsTyped
    <2> QED
      BY <1>1, <2>1, SharedTyped DEF Typed, vars
  <1>2. ASSUME NEW a \in Attempts, Requests(a) \/ Works(a) \/ Fails(a) PROVE Typed'
    BY <1>2, OfferTyped, TakeTyped, ColdTyped, ReturnTyped, AbortTyped DEF Requests, Works, Fails
  <1>3. ASSUME NEW o \in Owners, Prepares(o) \/ Retires(o) \/ Expire(o) PROVE Typed'
    BY <1>3, PreparedTyped, RetireTyped DEF Prepares
  <1> QED
    BY <1>1, <1>2, <1>3, CloseTyped DEF Next

-----------------------------------------------------------------------------
(* Seats along the steps.                                                    *)
Stands(b) == pc'[b] = pc[b] /\ target'[b] = target[b]

\* An attempt that keeps its seat, or that has left it and was not claiming.
Undisturbed == \A b \in Attempts : Stands(b) \/ (pc'[b] \notin Serving /\ pc[b] \notin {"binding", "bound"})

SameEntry(o) ==
    /\ o \in DOMAIN pool' <=> o \in DOMAIN pool
    /\ o \in DOMAIN pool => pool'[o].state = pool[o].state

\* The changes of an entry that others may see while they are at it.
Soft(o) ==
    \/ SameEntry(o)
    \/ In(o, {"preparing"} \cup AtRest) /\ In(o, {"retiring"})'
    \/ In(o, {"preparing"}) /\ In(o, {"ready"})'
    \/ In(o, {"retiring"}) /\ Out(o, {"blocked"})'

LEMMA InitSeats == Init => Seats
  <1> SUFFICES ASSUME Init PROVE Seats
    OBVIOUS
  <1>1. \A a \in Attempts : pc[a] = "fresh"
    BY PoolAssumption DEF Init, Threads
  <1>2. \A t \in Janitors : todo[t] = {}
    BY DEF Init
  <1>3. \A o \in DOMAIN pool : pool[o].state = "ready"
    BY DEF Init, Idle
  <1> QED
    BY <1>1, <1>2, <1>3 DEF Seats, Placed, Apart, Cleaning, Claiming, Serving, UserPositions

LEMMA SeatsKept ==
    ASSUME Seats, Cleaning',
           \A b \in Attempts : pc'[b] \in Serving => Stands(b) /\ Soft(target[b]),
           \A o \in DOMAIN pool' : pool'[o].state = "claiming" =>
              /\ In(o, {"claiming"})
              /\ \A b \in Attempts : target[b] = o /\ pc[b] \in {"binding", "bound"} => Stands(b)
    PROVE  Seats'
  <1>1. ASSUME NEW b \in Attempts PROVE Placed(b)'
    <2>1. CASE pc'[b] \in Serving
      <3>1. pc'[b] = pc[b] /\ target'[b] = target[b] /\ Soft(target[b]) /\ Placed(b)
        BY <2>1 DEF Stands, Seats
      <3> QED
        BY <3>1 DEF Placed, In, Out, Soft, SameEntry, AtRest
    <2>2. CASE pc'[b] \notin Serving
      BY <2>2 DEF Placed, Serving, UserPositions
    <2> QED
      BY <2>1, <2>2
  <1>2. Apart'
    BY DEF Seats, Apart, Stands
  <1>3. Claiming'
    <2> SUFFICES ASSUME NEW o \in DOMAIN pool', pool'[o].state = "claiming"
                 PROVE  \E a \in Attempts : target'[a] = o /\ pc'[a] \in {"binding", "bound"}
      BY DEF Claiming
    <2>1. PICK a \in Attempts : target[a] = o /\ pc[a] \in {"binding", "bound"}
      BY DEF Seats, Claiming, In
    <2> QED
      BY <2>1 DEF Stands
  <1> QED
    BY <1>1, <1>2, <1>3 DEF Seats

LEMMA CleaningKept ==
    ASSUME Cleaning,
           \A t \in Janitors : todo'[t] \subseteq todo[t],
           \A t \in Janitors : \A o \in todo'[t] : In(o, {"retiring"})'
    PROVE  Cleaning'
  BY DEF Cleaning

LEMMA CleaningGrows ==
    ASSUME Cleaning, NEW t \in Janitors, NEW S,
           todo'[t] \subseteq todo[t] \cup S,
           \A u \in Janitors \ {t} : todo'[u] = todo[u],
           \A o \in S : ~In(o, {"retiring"}) /\ In(o, {"retiring"})',
           \A o \in DOMAIN pool : pool[o].state = "retiring" => In(o, {"retiring"})'
    PROVE  Cleaning'
  BY DEF Cleaning, In

\* The pool and the retirements are left alone.
LEMMA SeatsStay ==
    ASSUME Seats, Undisturbed, pool' = pool, todo' = todo
    PROVE  Seats'
  <1>1. Cleaning'
    BY CleaningKept DEF Seats, Cleaning, In
  <1> QED
    BY <1>1, SeatsKept DEF Undisturbed, Seats, Soft, SameEntry, In, Stands, Serving, UserPositions

\* Entries are retired or marked; nobody takes a seat.
LEMMA SeatsSoften ==
    ASSUME Seats, Cleaning', Undisturbed,
           DOMAIN pool' \subseteq Owners,
           \A o \in Owners : Soft(o)
    PROVE  Seats'
  <1>1. \A b \in Attempts : pc'[b] \in Serving => Stands(b) /\ Soft(target[b])
    BY DEF Undisturbed, Seats, Placed, Stands
  <1>2. ASSUME NEW o \in DOMAIN pool', pool'[o].state = "claiming" PROVE In(o, {"claiming"})
    BY <1>2 DEF Soft, SameEntry, In, Out
  <1>3. \A b \in Attempts : pc[b] \in {"binding", "bound"} => Stands(b)
    BY DEF Undisturbed
  <1> QED
    BY <1>1, <1>2, <1>3, SeatsKept

LEMMA GoesUndisturbed ==
    ASSUME Typed, NEW t \in Threads, NEW place, place \notin Serving,
           t \in Attempts => pc[t] \notin {"binding", "bound"},
           \/ pc' = [pc EXCEPT ![t] = place]
           \/ pc' = [Notified(pc) EXCEPT ![t] = place],
           \A b \in Attempts : target'[b] = target[b] \/ b = t
    PROVE  Undisturbed
  <1>1. \A b \in Attempts : b \in Threads
    BY DEF Threads
  <1> QED
    BY <1>1, NotifiedTyped DEF Typed, ThreadsTyped, Undisturbed, Stands, Serving, UserPositions, Sleeping

LEMMA NotifiedUndisturbed ==
    ASSUME Typed, pc' = Notified(pc) \/ pc' = pc, target' = target
    PROVE  Undisturbed
  <1>1. \A b \in Attempts : b \in Threads
    BY DEF Threads
  <1> QED
    BY <1>1, NotifiedTyped DEF Typed, ThreadsTyped, Undisturbed, Stands, Serving, UserPositions, Sleeping

\* Retiring an entry that is not being retired.
LEMMA RetiringSeats ==
    ASSUME Typed, NEW t \in Janitors, NEW o \in DOMAIN pool, pool[o].state # "retiring",
           Retiring(o, t), Seats
    PROVE  /\ Cleaning'
           /\ \A p \in Owners \ {o} : SameEntry(p)
           /\ In(o, {"retiring"})'
           /\ DOMAIN pool' = DOMAIN pool
  <1>1. /\ DOMAIN pool' = DOMAIN pool
        /\ \A p \in DOMAIN pool \ {o} : pool'[p] = pool[p]
        /\ pool'[o].state = "retiring"
    BY RetiringTyped DEF Typed
  <1>2. todo' = [todo EXCEPT ![t] = @ \cup {o}] /\ todo \in [Janitors -> SUBSET Owners]
    BY DEF Retiring, Typed, ThreadsTyped
  <1>3. Cleaning'
    <2>1. /\ todo'[t] \subseteq todo[t] \cup {o}
          /\ \A u \in Janitors \ {t} : todo'[u] = todo[u]
      BY <1>2
    <2>2. /\ \A p \in {o} : ~In(p, {"retiring"}) /\ In(p, {"retiring"})'
          /\ \A p \in DOMAIN pool : pool[p].state = "retiring" => In(p, {"retiring"})'
      BY <1>1 DEF In
    <2> QED
      BY <2>1, <2>2, CleaningGrows DEF Seats
  <1> QED
    BY <1>1, <1>3 DEF In, SameEntry

LEMMA OfferSeats ==
    ASSUME Typed, Typed', Seats, NEW a \in Attempts, Preflight(a) \/ Offers(a)
    PROVE  Seats'
  <1>0. /\ a \in Threads /\ a \in Janitors
        /\ {"offering", "idle", "replacing"} \cap Serving = {}
        /\ DOMAIN pool' \subseteq Owners
    BY DEF Threads, Janitors, Serving, UserPositions, Typed, PoolTyped
  <1>1. pc[a] \notin {"binding", "bound"}
    BY DEF Preflight, Offers, OfferSkipped, OfferMerged, OfferReplaces, OfferAgain, OfferStarts, Moves
  <1>2. Undisturbed
    <2>1. \E place \in {"offering", "idle", "replacing"} : pc' = [pc EXCEPT ![a] = place]
      BY DEF Preflight, Offers, OfferSkipped, OfferMerged, OfferReplaces, OfferAgain, OfferStarts,
         Moves, Goes
    <2>2. target' = target
      BY DEF Preflight, Offers, OfferSkipped, OfferMerged, OfferReplaces, OfferAgain, OfferStarts,
         Moves, Goes
    <2> QED
      BY <1>0, <1>1, <2>1, <2>2, GoesUndisturbed
  <1>3. CASE Preflight(a) \/ OfferSkipped(a) \/ OfferAgain(a)
    BY <1>2, <1>3, SeatsStay DEF Preflight, OfferSkipped, OfferAgain, Moves, Goes, shared
  <1>4. CASE OfferMerged(a)
    <2>1. /\ DOMAIN pool' = DOMAIN pool
          /\ \A o \in DOMAIN pool : pool'[o].state = pool[o].state
      BY <1>4 DEF OfferMerged, Typed, PoolTyped, Entry
    <2>2. Cleaning'
      BY <1>4, <2>1, CleaningKept DEF OfferMerged, Goes, Seats, Cleaning, In
    <2> QED
      BY <1>0, <1>2, <2>1, <2>2, SeatsSoften DEF Soft, SameEntry
  <1>5. CASE OfferReplaces(a)
    <2>1. PICK o \in Replaceable(a) : Retiring(o, a)
      BY <1>5 DEF OfferReplaces
    <2>2. o \in DOMAIN pool /\ pool[o].state = "ready"
      BY DEF Replaceable, EntriesIn
    <2>3. Cleaning' /\ \A p \in Owners : Soft(p)
      BY <1>0, <2>1, <2>2, RetiringSeats DEF Soft, In, AtRest
    <2> QED
      BY <1>0, <1>2, <2>3, SeatsSoften
  <1>6. CASE OfferStarts(a)
    <2>1. PICK o \in Owners :
          /\ IsFresh(o)
          /\ pool' = With(pool, o, [state |-> "preparing", key |-> Environment[a], interests |-> {a},
                                    reason |-> "none", waiting |-> Nobody, parked |-> FALSE])
      BY <1>6 DEF OfferStarts
    <2>2. o \notin DOMAIN pool /\ \A b \in Attempts : target[b] # o
      BY <2>1 DEF IsFresh, Known
    <2>3. /\ DOMAIN pool' = DOMAIN pool \cup {o}
          /\ \A p \in DOMAIN pool : pool'[p] = pool[p]
          /\ pool'[o].state = "preparing"
      BY <2>1, <2>2 DEF With
    <2>4. Cleaning'
      BY <1>6, <2>3, CleaningKept DEF OfferStarts, Goes, Seats, Cleaning, In
    <2>5. \A p \in Owners \ {o} : SameEntry(p)
      BY <2>2, <2>3 DEF SameEntry
    <2>6. \A b \in Attempts : pc'[b] \in Serving => Stands(b) /\ Soft(target[b])
      BY <1>2, <2>2, <2>5 DEF Undisturbed, Soft, Stands, Seats, Placed
    <2>7. \A p \in DOMAIN pool' : pool'[p].state = "claiming" => In(p, {"claiming"})
      BY <2>3 DEF In
    <2> QED
      BY <1>2, <2>4, <2>6, <2>7, SeatsKept DEF Undisturbed
  <1> QED
    BY <1>3, <1>4, <1>5, <1>6 DEF Offers

LEMMA PreparedSeats ==
    ASSUME Typed, Typed', Seats, NEW o \in Owners, Prepared(o) \/ PrepareFails(o) \/ Expire(o)
    PROVE  Seats'
  <1>0. Background \in Janitors /\ DOMAIN pool' \subseteq Owners
    BY DEF Janitors, Typed, PoolTyped
  <1>1. /\ o \in DOMAIN pool /\ pool[o] \in Entry /\ pool[o].state \in {"preparing", "ready"}
        /\ Undisturbed
    BY NotifiedUndisturbed DEF Prepared, PrepareFails, Expire, EntriesIn, Typed, PoolTyped
  <1>2. CASE Prepared(o)
    <2>0. pool[o].state = "preparing"
      BY <1>2 DEF Prepared, EntriesIn
    <2>1. PICK s \in {"ready", "retiring"} :
            /\ pool' = [pool EXCEPT ![o] = [pool[o] EXCEPT !.state = s]]
            /\ todo' = IF s = "ready" THEN todo ELSE [todo EXCEPT ![Background] = @ \cup {o}]
      BY <1>1, <1>2 DEF Prepared
    <2>2. /\ DOMAIN pool' = DOMAIN pool /\ pool'[o].state = s
          /\ \A p \in DOMAIN pool \ {o} : pool'[p] = pool[p]
      BY <1>1, <2>1 DEF Entry
    <2>3. Cleaning'
      <3>1. CASE s = "ready"
        BY <2>0, <2>1, <2>2, <3>1, CleaningKept DEF Seats, Cleaning, In
      <3>2. CASE s = "retiring"
        <4>1. /\ todo'[Background] \subseteq todo[Background] \cup {o}
              /\ \A u \in Janitors \ {Background} : todo'[u] = todo[u]
          BY <1>0, <2>1, <3>2 DEF Typed, ThreadsTyped
        <4>2. /\ \A p \in {o} : ~In(p, {"retiring"}) /\ In(p, {"retiring"})'
              /\ \A p \in DOMAIN pool : pool[p].state = "retiring" => In(p, {"retiring"})'
          BY <1>1, <2>0, <2>2, <3>2 DEF In
        <4>3. Background \in Janitors /\ Cleaning
          BY <1>0 DEF Seats
        <4> QED
          BY <4>1, <4>2, <4>3, CleaningGrows
      <3> QED
        BY <3>1, <3>2
    <2>4. \A p \in Owners : Soft(p)
      BY <1>1, <2>0, <2>2 DEF Soft, SameEntry, In
    <2> QED
      BY <1>0, <1>1, <2>3, <2>4, SeatsSoften
  <1>3. CASE PrepareFails(o) \/ Expire(o)
    <2>1. Retiring(o, Background)
      BY <1>3 DEF PrepareFails, Expire
    <2>2. Cleaning' /\ \A p \in Owners : Soft(p)
      BY <1>0, <1>1, <2>1, RetiringSeats DEF Soft, In, AtRest
    <2> QED
      BY <1>0, <1>1, <2>2, SeatsSoften
  <1> QED
    BY <1>2, <1>3

\* Only what nobody sees in its seat changes.
LEMMA SeatsSame ==
    ASSUME Typed, Typed', Seats, Undisturbed, todo' = todo, \A o \in Owners : SameEntry(o)
    PROVE  Seats'
  <1>1. DOMAIN pool \subseteq Owners /\ DOMAIN pool' \subseteq Owners
    BY DEF Typed, PoolTyped
  <1>2. Cleaning'
    BY <1>1, CleaningKept DEF Seats, Cleaning, In, SameEntry
  <1> QED
    BY <1>1, <1>2, SeatsSoften DEF Soft

LEMMA EvictSeats ==
    ASSUME Typed, Typed', Seats, NEW t \in Threads, NEW pressure \in BOOLEAN,
           NEW place, place \notin Serving, t \in Attempts => pc[t] \notin {"binding", "bound"},
           EvictIdle(t, pressure, place)
    PROVE  Seats'
  <1>0. t \in Janitors /\ DOMAIN pool \subseteq Owners
    BY DEF Janitors, Typed, PoolTyped
  <1> DEFINE idle == Evictable(pressure) \cap EntriesIn(AtRest)
  <1>1. /\ DOMAIN pool' = DOMAIN pool
        /\ \A o \in idle : In(o, AtRest) /\ In(o, {"retiring"})'
        /\ \A o \in DOMAIN pool \ idle : pool'[o].state = pool[o].state
    <2>1. DOMAIN pool' = DOMAIN pool
      BY DEF EvictIdle
    <2>2. ASSUME NEW o \in idle PROVE In(o, AtRest) /\ In(o, {"retiring"})'
      <3>1. o \in DOMAIN pool /\ pool[o] \in Entry /\ In(o, AtRest)
        BY DEF EntriesIn, In, Typed, PoolTyped
      <3>2. pool'[o] = [pool[o] EXCEPT !.reason = "other", !.state = "retiring"]
        BY <3>1 DEF EvictIdle
      <3> QED
        BY <2>1, <3>1, <3>2 DEF In, Entry
    <2>3. ASSUME NEW o \in DOMAIN pool \ idle PROVE pool'[o].state = pool[o].state
      <3>1. pool[o] \in Entry
        BY DEF Typed, PoolTyped
      <3>2. pool'[o] = pool[o] \/ pool'[o] = [pool[o] EXCEPT !.reason = "other", !.state = @]
        BY DEF EvictIdle
      <3> QED
        BY <3>1, <3>2 DEF Entry
    <2> QED
      BY <2>1, <2>2, <2>3
  <1>2. todo' = [todo EXCEPT ![t] = idle]
    BY DEF EvictIdle
  <1> HIDE DEF idle
  <1>3. Cleaning'
    <2>1. /\ todo'[t] \subseteq todo[t] \cup idle
          /\ \A u \in Janitors \ {t} : todo'[u] = todo[u]
      BY <1>0, <1>2 DEF Typed, ThreadsTyped
    <2>2. /\ \A o \in idle : ~In(o, {"retiring"}) /\ In(o, {"retiring"})'
          /\ \A o \in DOMAIN pool : pool[o].state = "retiring" => In(o, {"retiring"})'
      BY <1>1 DEF In, AtRest
    <2>3. Cleaning
      BY DEF Seats
    <2> QED
      BY <1>0, <2>1, <2>2, <2>3, CleaningGrows
  <1>4. Undisturbed
    <2>1. pc' = [Notified(pc) EXCEPT ![t] = place] /\ target' = target
      BY DEF EvictIdle
    <2> QED
      BY <2>1, GoesUndisturbed
  <1>5. \A o \in Owners : Soft(o)
    BY <1>1 DEF Soft, SameEntry, In
  <1> QED
    BY <1>0, <1>1, <1>3, <1>4, <1>5, SeatsSoften

\* The entry of an attempt's seat is retired, and the attempt moves on with the retirement.
LEMMA RejectsSeats ==
    ASSUME Typed, Typed', Seats, NEW a \in Attempts,
           pc[a] \in {"binding", "bound", "resetting", "wiping"},
           NEW place \in {"refused", "rejected", "destroying"}, Rejects(a, place)
    PROVE  Seats'
  <1>1. /\ target[a] \in DOMAIN pool /\ pool[target[a]].state \in {"claiming", "resetting"}
        /\ a \in Janitors /\ a \in Threads
    BY DEF Seats, Placed, In, Janitors, Threads
  <1>2. /\ Cleaning'
        /\ \A p \in Owners \ {target[a]} : SameEntry(p)
        /\ In(target[a], {"retiring"})'
        /\ DOMAIN pool' = DOMAIN pool
    BY <1>1, RetiringSeats DEF Rejects
  <1>3. /\ pc' = [pc EXCEPT ![a] = place] /\ target' = target
        /\ \A b \in Attempts : b \in Threads
    BY DEF Rejects, Threads
  <1>4. \A b \in Attempts \ {a} : pc[b] \in Serving => target[b] # target[a] /\ target[b] \in Owners
    BY DEF Seats, Apart, Placed, Serving, UserPositions
  <1>5. \A b \in Attempts \ {a} : Stands(b)
    BY <1>3 DEF Stands, Typed, ThreadsTyped
  <1>6. pc'[a] = place
    BY <1>1, <1>3 DEF Typed, ThreadsTyped
  <1>7. \A b \in Attempts : Placed(b)'
    <2>1. Placed(a)'
      BY <1>2, <1>3, <1>6 DEF Placed, Serving, UserPositions, In, Out, Seats
    <2>2. ASSUME NEW b \in Attempts \ {a} PROVE Placed(b)'
      <3>1. Placed(b) /\ pc'[b] = pc[b] /\ target'[b] = target[b]
        BY <1>5 DEF Stands, Seats
      <3>2. pc[b] \in Serving => SameEntry(target[b])
        BY <1>2, <1>4
      <3> QED
        BY <3>1, <3>2 DEF Placed, SameEntry, In, Out, Serving, UserPositions
    <2> QED
      BY <2>1, <2>2
  <1>8. Apart'
    BY <1>3, <1>4, <1>5 DEF Stands, Apart, Seats
  <1>9. Claiming'
    <2> SUFFICES ASSUME NEW o \in DOMAIN pool', pool'[o].state = "claiming"
                 PROVE  \E b \in Attempts : target'[b] = o /\ pc'[b] \in {"binding", "bound"}
      BY DEF Claiming
    <2>1. o \in Owners /\ o # target[a] /\ In(o, {"claiming"})
      <3>1. o \in Owners
        BY DEF Typed, PoolTyped
      <3>2. o # target[a]
        BY <1>2, <1>3 DEF In
      <3>3. SameEntry(o)
        BY <1>2, <3>1, <3>2
      <3> QED
        BY <3>1, <3>2, <3>3 DEF SameEntry, In
    <2>2. PICK b \in Attempts : target[b] = o /\ pc[b] \in {"binding", "bound"}
      BY <2>1 DEF Seats, Claiming, In
    <2> QED
      BY <1>5, <2>1, <2>2 DEF Stands
  <1> QED
    BY <1>2, <1>7, <1>8, <1>9 DEF Seats

LEMMA TakeSeats ==
    ASSUME Typed, Typed', Seats, NEW a \in Attempts, Takes(a) \/ BindFails(a)
    PROVE  Seats'
  <1>0. /\ a \in Threads /\ a \in Janitors /\ \A b \in Attempts : b \in Threads
        /\ {"idle", "taking", "late", "asleep", "blocked", "cold", "refused", "rejected"} \cap Serving = {}
        /\ DOMAIN pool \subseteq Owners /\ DOMAIN pool' \subseteq Owners
    BY DEF Threads, Janitors, Serving, UserPositions, Typed, PoolTyped
  <1>1. Looks(a) => pc[a] \notin {"binding", "bound"}
    BY DEF Looks
  <1>2. ASSUME NEW place \in {"idle", "blocked", "cold"}, Leaves(a, place), Looks(a) PROVE Seats'
    <2>1. Undisturbed
      BY <1>0, <1>1, <1>2, GoesUndisturbed DEF Leaves, Typed, ThreadsTyped
    <2>2. \A o \in Owners : SameEntry(o)
      BY <1>2 DEF Leaves, Unmarked, SameEntry, Typed, PoolTyped, Entry
    <2> QED
      BY <1>2, <2>1, <2>2, SeatsSame DEF Leaves
  <1>3. CASE TakeRefused(a) \/ TakeFallsBack(a)
    BY <1>2, <1>3 DEF TakeRefused, TakeFallsBack, MayTake
  <1>4. CASE TakeAwaitsRetirement(a)
    <2>1. CASE Leaves(a, "blocked")
      BY <1>2, <1>4, <2>1 DEF TakeAwaitsRetirement, MayTake
    <2>2. CASE Goes(a, "asleep") /\ UNCHANGED shared
      <3>1. Undisturbed
        BY <1>0, <1>1, <1>4, <2>2, GoesUndisturbed DEF Goes, TakeAwaitsRetirement, MayTake
      <3> QED
        BY <2>2, <3>1, SeatsStay DEF Goes, shared
    <2> QED
      BY <1>4, <2>1, <2>2 DEF TakeAwaitsRetirement
  <1>5. CASE TakeMisses(a)
    <2>1. Undisturbed
      BY <1>0, <1>1, <1>5, GoesUndisturbed DEF Rests, TakeMisses, MayTake, Typed, ThreadsTyped
    <2> QED
      BY <1>5, <2>1, SeatsStay DEF TakeMisses, Rests, shared
  <1>6. CASE TakeQueues(a)
    <2>1. Undisturbed
      <3>1. \E place \in {"blocked", "asleep"} :
              pc' = [pc EXCEPT ![a] = place] \/ pc' = [Notified(pc) EXCEPT ![a] = place]
        BY <1>6 DEF TakeQueues
      <3>2. \A b \in Attempts : target'[b] = target[b] \/ b = a
        BY <1>6 DEF TakeQueues, Typed, ThreadsTyped
      <3> QED
        BY <1>0, <1>1, <1>6, <3>1, <3>2, GoesUndisturbed DEF TakeQueues, MayTake
    <2>2. \A o \in Owners : SameEntry(o)
      BY <1>6 DEF TakeQueues, SameEntry, Typed, PoolTyped, Entry
    <2> QED
      BY <1>6, <2>1, <2>2, SeatsSame DEF TakeQueues
  <1>7. CASE TakeDeadline(a)
    <2>1. Undisturbed
      BY <1>0, <1>7, GoesUndisturbed DEF Moves, Goes, TakeDeadline
    <2> QED
      BY <1>7, <2>1, SeatsStay DEF TakeDeadline, Moves, Goes, shared
  <1>8. CASE ClaimEnds(a)
    <2>1. Undisturbed
      BY <1>0, <1>8, GoesUndisturbed DEF ClaimEnds, Typed, ThreadsTyped
    <2> QED
      BY <1>8, <2>1, SeatsStay DEF ClaimEnds
  <1>9. CASE BindRefused(a) \/ BindFails(a) \/ ClaimRetired(a)
    BY <1>9, RejectsSeats DEF BindRefused, BindFails, ClaimRetired
  <1>10. CASE TakeClaims(a)
    <2>1. PICK o \in Claimable(a) :
          /\ pool[o].state = "ready"
          /\ pool' = [pool EXCEPT ![o].state = "claiming", ![o].waiting = Nobody]
          /\ target' = [target EXCEPT ![a] = o]
      BY <1>10 DEF TakeClaims
    <2>2. /\ o \in DOMAIN pool /\ pool[o] \in Entry /\ o \in Owners
          /\ pc' = [Notified(pc) EXCEPT ![a] = "binding"] /\ todo' = todo
      BY <1>10 DEF Claimable, Typed, PoolTyped, TakeClaims
    <2>3. /\ DOMAIN pool' = DOMAIN pool /\ pool'[o].state = "claiming"
          /\ \A p \in DOMAIN pool \ {o} : pool'[p] = pool[p]
      BY <2>1, <2>2 DEF Entry
    <2>4. /\ target'[a] = o /\ pc'[a] = "binding"
          /\ \A b \in Attempts \ {a} : target'[b] = target[b] /\ pc'[b] = Notified(pc)[b]
      BY <1>0, <2>1, <2>2, NotifiedTyped DEF Typed, ThreadsTyped
    <2>5. \A b \in Attempts \ {a} :
             /\ pc'[b] \in Serving => pc[b] = pc'[b]
             /\ pc[b] \in Serving => pc[b] = pc'[b] /\ target[b] # o
      BY <1>0, <2>1, <2>2, <2>4, NotifiedTyped
         DEF Typed, ThreadsTyped, Serving, UserPositions, Sleeping, Seats, Placed, In, Out
    <2>6. Cleaning'
      BY <2>1, <2>2, <2>3, CleaningKept DEF Seats, Cleaning, In
    <2>7. ASSUME NEW b \in Attempts PROVE Placed(b)'
      <3>1. CASE b = a
        BY <2>2, <2>3, <2>4, <3>1 DEF Placed, In, Out
      <3>2. CASE b # a /\ pc'[b] \in Serving
        <4>1. /\ pc'[b] = pc[b] /\ target'[b] = target[b] /\ target[b] # o /\ Placed(b)
              /\ target[b] \in Owners
          BY <2>4, <2>5, <3>2 DEF Seats, Placed
        <4> QED
          BY <2>3, <4>1 DEF Placed, In, Out
      <3>3. CASE pc'[b] \notin Serving
        BY <3>3 DEF Placed, Serving, UserPositions
      <3> QED
        BY <3>1, <3>2, <3>3
    <2>8. Apart'
      BY <2>4, <2>5 DEF Apart, Seats
    <2>9. Claiming'
      <3> SUFFICES ASSUME NEW p \in DOMAIN pool', pool'[p].state = "claiming"
                   PROVE  \E b \in Attempts : target'[b] = p /\ pc'[b] \in {"binding", "bound"}
        BY DEF Claiming
      <3>1. CASE p = o
        BY <2>4, <3>1
      <3>2. CASE p # o
        <4>1. PICK b \in Attempts : target[b] = p /\ pc[b] \in {"binding", "bound"}
          BY <2>3, <3>2 DEF Seats, Claiming
        <4>2. b # a
          BY <1>1, <1>10, <4>1 DEF TakeClaims, MayTake
        <4> QED
          BY <2>4, <2>5, <4>1, <4>2 DEF Serving, UserPositions
      <3> QED
        BY <3>1, <3>2
    <2> QED
      BY <2>6, <2>7, <2>8, <2>9 DEF Seats
  <1>11. CASE Bind(a)
    <2>1. /\ pool' = pool /\ target' = target /\ todo' = todo
          /\ pc[a] = "binding" /\ pc'[a] = "bound"
          /\ \A b \in Attempts \ {a} : pc'[b] = pc[b]
      BY <1>0, <1>11 DEF Bind, Goes, Typed, ThreadsTyped
    <2>2. Cleaning'
      BY <2>1, CleaningKept DEF Seats, Cleaning, In
    <2>3. \A b \in Attempts : Placed(b)'
      BY <2>1 DEF Seats, Placed, In, Out, Serving, UserPositions
    <2>4. Apart' /\ Claiming'
      BY <2>1 DEF Seats, Apart, Claiming, Serving, UserPositions
    <2> QED
      BY <2>2, <2>3, <2>4 DEF Seats
  <1>12. CASE Claimed(a)
    <2>1. /\ pool' = Without(pool, target[a]) /\ target' = target /\ todo' = todo
          /\ pc[a] = "bound" /\ pc' = [Notified(pc) EXCEPT ![a] = "leased"]
      BY <1>12 DEF Claimed
    <2>2. /\ DOMAIN pool' = DOMAIN pool \ {target[a]}
          /\ \A p \in DOMAIN pool \ {target[a]} : pool'[p] = pool[p]
          /\ In(target[a], {"claiming"}) /\ target[a] \in Owners
      BY <2>1 DEF Without, Seats, Placed, Serving, UserPositions
    <2>3. /\ pc'[a] = "leased"
          /\ \A b \in Attempts \ {a} :
                /\ pc'[b] \in Serving => pc[b] = pc'[b] /\ target[b] # target[a]
                /\ pc[b] \in Serving => pc[b] = pc'[b] /\ target[b] # target[a]
      <3>1. \A b \in Attempts \ {a} : pc[b] \in Serving => target[b] # target[a]
        BY <2>1 DEF Seats, Apart, Serving, UserPositions
      <3> QED
        BY <1>0, <2>1, <3>1, NotifiedTyped DEF Typed, ThreadsTyped, Serving, UserPositions, Sleeping
    <2>4. Cleaning'
      BY <2>1, <2>2, CleaningKept DEF Seats, Cleaning, In
    <2>5. ASSUME NEW b \in Attempts PROVE Placed(b)'
      <3>1. CASE b = a
        BY <2>1, <2>2, <2>3, <3>1 DEF Placed, In, Out
      <3>2. CASE b # a /\ pc'[b] \in Serving
        <4>1. pc'[b] = pc[b] /\ target'[b] = target[b] /\ target[b] # target[a] /\ Placed(b)
          BY <2>1, <2>3, <3>2 DEF Seats
        <4> QED
          BY <2>2, <4>1 DEF Placed, In, Out
      <3>3. CASE pc'[b] \notin Serving
        BY <3>3 DEF Placed, Serving, UserPositions
      <3> QED
        BY <3>1, <3>2, <3>3
    <2>6. Apart'
      BY <2>1, <2>3 DEF Apart, Seats
    <2>7. Claiming'
      BY <2>1, <2>2, <2>3 DEF Claiming, Seats, Serving, UserPositions
    <2> QED
      BY <2>4, <2>5, <2>6, <2>7 DEF Seats
  <1> QED
    BY <1>3, <1>4, <1>5, <1>6, <1>7, <1>8, <1>9, <1>10, <1>11, <1>12 DEF Takes

\* A move within the pool's back yard: nobody is disturbed.
LEMMA MovesSeats ==
    ASSUME Typed, Seats, NEW t \in Threads, NEW place, place \notin Serving,
           t \in Attempts => pc[t] \notin {"binding", "bound"},
           pc' = [pc EXCEPT ![t] = place], target' = target, todo' = todo, pool' = pool
    PROVE  Seats'
  <1>1. Undisturbed
    BY GoesUndisturbed
  <1> QED
    BY <1>1, SeatsStay

\* A seat is given up.
LEMMA RestsSeats ==
    ASSUME Typed, Seats, NEW a \in Attempts, NEW place, place \notin Serving,
           pc[a] \notin {"binding", "bound"}, Rests(a, place), pool' = pool
    PROVE  Seats'
  <1>1. Undisturbed
    BY GoesUndisturbed DEF Rests, Threads, Typed, ThreadsTyped
  <1> QED
    BY <1>1, SeatsStay DEF Rests

\* An attempt goes from one position in its seat to another.
LEMMA SeatKept ==
    ASSUME Typed, Seats, NEW a \in Attempts,
           \/ pc[a] = "creating" /\ pc' = [pc EXCEPT ![a] = "leased"]
           \/ pc[a] = "leased" /\ pc' = [pc EXCEPT ![a] = "destroying"]
           \/ pc[a] = "resetting" /\ pc' = [pc EXCEPT ![a] = "wiping"]
           \/ pc[a] = "wiping" /\ pc' = [pc EXCEPT ![a] = "parking"],
           target' = target, todo' = todo, pool' = pool
    PROVE  Seats'
  <1>1. /\ \A b \in Attempts \ {a} : pc'[b] = pc[b]
        /\ pc'[a] \in {"leased", "destroying", "wiping", "parking"}
        /\ pc'[a] = "leased" => pc[a] = "creating"
        /\ pc'[a] = "destroying" => pc[a] = "leased"
        /\ pc'[a] \in {"wiping", "parking"} => pc[a] \in {"resetting", "wiping"}
        /\ pc[a] \in {"creating", "leased", "resetting", "wiping"}
    BY DEF Typed, ThreadsTyped, Threads
  <1>2. Cleaning'
    BY CleaningKept DEF Seats, Cleaning, In
  <1>3. \A b \in Attempts : Placed(b)'
    BY <1>1 DEF Seats, Placed, In, Out, Serving, UserPositions
  <1>4. Apart' /\ Claiming'
    BY <1>1 DEF Seats, Apart, Claiming, Serving, UserPositions
  <1> QED
    BY <1>2, <1>3, <1>4 DEF Seats

LEMMA ColdSeats ==
    ASSUME Typed, Typed', Seats, NEW a \in Attempts, Cold(a) \/ CreationFails(a)
    PROVE  Seats'
  <1>0. /\ a \in Threads /\ \A b \in Attempts : b \in Threads
        /\ {"idle", "blocked", "cold", "draining", "drainsleep", "acquiring"} \cap Serving = {}
    BY DEF Threads, Serving, UserPositions
  <1>1. ASSUME Creates(a), pc[a] \in {"cold", "acquiring"} PROVE Seats'
    <2>1. PICK o \in Owners : IsFresh(o) /\ target' = [target EXCEPT ![a] = o]
      BY <1>1 DEF Creates
    <2>2. /\ o \notin DOMAIN pool /\ \A b \in Attempts : target[b] # o
      BY <2>1 DEF IsFresh, Known
    <2>3. /\ pool' = pool /\ todo' = todo /\ pc'[a] = "creating" /\ target'[a] = o
          /\ \A b \in Attempts \ {a} : Stands(b)
      BY <1>0, <1>1, <2>1 DEF Creates, Stands, Typed, ThreadsTyped
    <2>4. Cleaning'
      BY <2>3, CleaningKept DEF Seats, Cleaning, In
    <2>5. \A b \in Attempts : Placed(b)'
      BY <2>2, <2>3 DEF Seats, Placed, In, Out, Stands, Serving, UserPositions
    <2>6. Apart'
      BY <2>2, <2>3 DEF Seats, Apart, Stands
    <2>7. Claiming'
      BY <1>1, <2>3 DEF Seats, Claiming, Stands
    <2> QED
      BY <2>4, <2>5, <2>6, <2>7 DEF Seats
  <1>2. CASE ColdAtOnce(a) \/ ColdAdmitted(a)
    BY <1>1, <1>2 DEF ColdAtOnce, ColdAdmitted
  <1>3. CASE ColdDrains(a)
    BY <1>0, <1>3, EvictSeats DEF ColdDrains
  <1>4. CASE ColdRefused(a)
    BY <1>0, <1>4, MovesSeats DEF ColdRefused, Moves, Goes, shared
  <1>5. CASE DrainSleeps(a)
    BY <1>0, <1>5, MovesSeats DEF DrainSleeps, Sleeps, Goes, shared
  <1>6. CASE DrainEnds(a)
    BY <1>0, <1>6, MovesSeats DEF DrainEnds, Waited
  <1>7. CASE ColdNotAdmitted(a)
    BY <1>0, <1>7, MovesSeats DEF ColdNotAdmitted, Moves, Goes, shared
  <1>8. CASE Created(a)
    BY <1>8, SeatKept DEF Created, Moves, Goes, shared
  <1>9. CASE CreationFails(a)
    BY <1>0, <1>9, RestsSeats DEF CreationFails
  <1> QED
    BY <1>2, <1>3, <1>4, <1>5, <1>6, <1>7, <1>8, <1>9 DEF Cold

LEMMA ReturnSeats ==
    ASSUME Typed, Typed', Seats, NEW a \in Attempts,
           ReturnSkipped(a) \/ ReturnStarts(a) \/ Returns(a) \/ ResetFails(a)
           \/ NotDestroyed(a) \/ NotRecorded(a)
    PROVE  Seats'
  <1>0. /\ a \in Threads /\ a \in Janitors /\ \A b \in Attempts : b \in Threads
        /\ {"publishing", "ended", "blocked"} \cap Serving = {}
        /\ DOMAIN pool \subseteq Owners /\ DOMAIN pool' \subseteq Owners
    BY DEF Threads, Janitors, Serving, UserPositions, Typed, PoolTyped
  <1>1. \A b \in Attempts \ {a} : pc[a] \in Serving /\ pc[b] \in Serving => target[b] # target[a]
    BY DEF Seats, Apart
  <1>2. CASE ReturnSkipped(a) \/ ResetStops(a) \/ ResetParks(a)
    BY <1>2, SeatKept DEF ReturnSkipped, ResetStops, ResetParks, Moves, Goes, shared
  <1>3. CASE ReturnStarts(a)
    <2>1. /\ pc[a] = "leased" /\ pc'[a] = "resetting" /\ todo' = todo
          /\ \A b \in Attempts \ {a} : Stands(b)
          /\ target' = target /\ target[a] \notin DOMAIN pool /\ target[a] \in Owners
      BY <1>0, <1>3 DEF ReturnStarts, Goes, Stands, Typed, ThreadsTyped, Seats, Placed, Serving,
         UserPositions
    <2>2. /\ DOMAIN pool' = DOMAIN pool \cup {target[a]}
          /\ \A p \in DOMAIN pool : pool'[p] = pool[p]
          /\ pool'[target[a]].state = "resetting"
      BY <1>3, <2>1 DEF ReturnStarts, With
    <2>3. Cleaning'
      BY <2>1, <2>2, CleaningKept DEF Seats, Cleaning, In
    <2>4. ASSUME NEW b \in Attempts PROVE Placed(b)'
      <3>1. CASE b = a
        BY <2>1, <2>2, <3>1 DEF Placed, In, Out
      <3>2. CASE b # a /\ pc[b] \in Serving
        BY <1>1, <2>1, <2>2, <3>2 DEF Seats, Placed, In, Out, Stands, Serving, UserPositions
      <3>3. CASE b # a /\ pc[b] \notin Serving
        BY <2>1, <3>3 DEF Placed, Serving, UserPositions, Stands
      <3> QED
        BY <3>1, <3>2, <3>3
    <2>5. Apart'
      BY <2>1 DEF Seats, Apart, Stands, Serving, UserPositions
    <2>6. Claiming'
      BY <2>1, <2>2 DEF Seats, Claiming, Stands
    <2> QED
      BY <2>3, <2>4, <2>5, <2>6 DEF Seats
  <1>4. CASE ResetVerified(a)
    <2>1. /\ pc[a] = "parking" /\ todo' = todo /\ target' = target
          /\ target[a] \in DOMAIN pool /\ pool[target[a]] \in Entry
          /\ pool[target[a]].state = "resetting"
      BY <1>4 DEF ResetVerified, Seats, Placed, In, Typed, PoolTyped
    <2>2. /\ DOMAIN pool' = DOMAIN pool /\ pool'[target[a]].state = "validated"
          /\ \A p \in DOMAIN pool \ {target[a]} : pool'[p] = pool[p]
      BY <1>4, <2>1 DEF ResetVerified, Entry
    <2>3. /\ pc'[a] = "validated"
          /\ \A b \in Attempts \ {a} :
                /\ pc'[b] \in Serving => pc[b] = pc'[b] /\ target[b] # target[a]
                /\ pc[b] \in Serving => pc[b] = pc'[b] /\ target[b] # target[a]
      BY <1>0, <1>1, <1>4, <2>1, NotifiedTyped
         DEF ResetVerified, Typed, ThreadsTyped, Serving, UserPositions, Sleeping
    <2>4. Cleaning'
      BY <2>1, <2>2, CleaningKept DEF Seats, Cleaning, In
    <2>5. ASSUME NEW b \in Attempts PROVE Placed(b)'
      <3>1. CASE b = a
        BY <1>0, <2>1, <2>2, <2>3, <3>1 DEF Placed, In, Out
      <3>2. CASE b # a /\ pc'[b] \in Serving
        <4>1. pc'[b] = pc[b] /\ target'[b] = target[b] /\ target[b] # target[a] /\ Placed(b)
          BY <2>1, <2>3, <3>2 DEF Seats
        <4> QED
          BY <2>2, <4>1 DEF Placed, In, Out
      <3>3. CASE pc'[b] \notin Serving
        BY <3>3 DEF Placed, Serving, UserPositions
      <3> QED
        BY <3>1, <3>2, <3>3
    <2>6. Apart'
      BY <2>1, <2>3 DEF Apart, Seats
    <2>7. Claiming'
      BY <2>1, <2>2, <2>3 DEF Claiming, Seats, Serving, UserPositions
    <2> QED
      BY <2>4, <2>5, <2>6, <2>7 DEF Seats
  <1>5. CASE ResetFails(a) \/ ResetInterrupted(a)
    BY <1>5, RejectsSeats DEF ResetFails, ResetInterrupted
  <1>6. CASE Destroyed(a) \/ NotDestroyed(a) \/ NothingToPublish(a) \/ NotRecorded(a)
    BY <1>0, <1>6, RestsSeats DEF Destroyed, NotDestroyed, NothingToPublish, NotRecorded, shared
  <1>7. CASE Published(a)
    BY <1>0, <1>7, MovesSeats DEF Published, Moves, Goes, shared
  <1>8. CASE Publish(a)
    <2>1. /\ pc[a] = "validated" /\ target[a] \in DOMAIN pool /\ pool[target[a]] \in Entry
          /\ pool[target[a]].state = "validated"
      BY <1>8 DEF Publish, EntriesIn, Typed, PoolTyped
    <2>2. PICK s \in {"ready", "retiring"} :
            /\ pool' = [pool EXCEPT ![target[a]].state = s, ![target[a]].interests = {}]
            /\ todo' = [todo EXCEPT ![a] = IF s = "ready" THEN {} ELSE {target[a]}]
            /\ pc' = [Notified(pc) EXCEPT ![a] = IF s = "ready" THEN "ended" ELSE "publishing"]
            /\ target' = [target EXCEPT ![a] = Nobody]
      BY <1>8 DEF Publish
    <2>3. /\ DOMAIN pool' = DOMAIN pool /\ pool'[target[a]].state = s
          /\ \A p \in DOMAIN pool \ {target[a]} : pool'[p] = pool[p]
      BY <2>1, <2>2 DEF Entry
    <2>4. Undisturbed
      BY <1>0, <2>1, <2>2, GoesUndisturbed DEF Typed, ThreadsTyped
    <2>5. \A b \in Attempts : pc'[b] \in Serving => b # a
      BY <1>0, <2>2, NotifiedTyped DEF Typed, ThreadsTyped
    <2>6. \A b \in Attempts : pc'[b] \in Serving => Stands(b) /\ Soft(target[b])
      <3>1. \A b \in Attempts : pc'[b] \in Serving => Stands(b) /\ target[b] # target[a]
        BY <1>1, <2>1, <2>4, <2>5 DEF Undisturbed, Stands, Serving, UserPositions
      <3> QED
        BY <2>3, <3>1 DEF Soft, SameEntry
    <2>7. Cleaning'
      <3>1. Cleaning /\ todo \in [Janitors -> SUBSET Owners]
        BY DEF Seats, Typed, ThreadsTyped
      <3>2. CASE s = "ready"
        <4>1. \A t \in Janitors : todo'[t] \subseteq todo[t]
          BY <2>2, <3>1, <3>2
        <4>2. \A t \in Janitors : \A o \in todo'[t] : In(o, {"retiring"})'
          BY <2>1, <2>3, <3>1, <4>1 DEF Cleaning, In
        <4> QED
          BY <3>1, <4>1, <4>2, CleaningKept
      <3>3. CASE s = "retiring"
        <4>0. PICK S : S = {target[a]}
          OBVIOUS
        <4>1. /\ todo'[a] \subseteq todo[a] \cup S
              /\ \A u \in Janitors \ {a} : todo'[u] = todo[u]
          BY <1>0, <2>2, <3>1, <3>3, <4>0
        <4>2. /\ \A p \in S : ~In(p, {"retiring"}) /\ In(p, {"retiring"})'
              /\ \A p \in DOMAIN pool : pool[p].state = "retiring" => In(p, {"retiring"})'
          BY <2>1, <2>3, <3>3, <4>0 DEF In
        <4>3. a \in Janitors /\ Cleaning
          BY <1>0, <3>1
        <4> QED
          BY <4>1, <4>2, <4>3, CleaningGrows
      <3> QED
        BY <3>2, <3>3
    <2>8. \A o \in DOMAIN pool' : pool'[o].state = "claiming" => In(o, {"claiming"})
      BY <2>3 DEF In
    <2> QED
      BY <2>4, <2>6, <2>7, <2>8, SeatsKept DEF Undisturbed
  <1> QED
    BY <1>2, <1>3, <1>4, <1>5, <1>6, <1>7, <1>8 DEF Returns

LEMMA AbortSeats ==
    ASSUME Typed, Typed', Seats, NEW a \in Attempts, CancelPending(a) \/ Aborts(a) \/ NotRemoved(a)
    PROVE  Seats'
  <1>0. /\ a \in Threads /\ a \in Janitors /\ \A b \in Attempts : b \in Threads
        /\ {"withdrawing", "withdrawsleep", "removing", "reporting", "aborted", "blocked"}
             \cap Serving = {}
        /\ DOMAIN pool \subseteq Owners /\ DOMAIN pool' \subseteq Owners
    BY DEF Threads, Janitors, Serving, UserPositions, Typed, PoolTyped
  <1>1. CASE CancelPending(a)
    <2>1. \A o \in Owners : SameEntry(o)
      <3>1. CancelInterest(a, {}) /\ PoolTyped
        BY <1>1 DEF CancelPending, Typed
      <3>2. /\ DOMAIN pool' = DOMAIN pool
            /\ \A o \in DOMAIN pool : pool'[o].state = IF o \in {} THEN "retiring" ELSE pool[o].state
        BY <3>1, CancelKeepsEntries
      <3> QED
        BY <3>2 DEF SameEntry
    <2>2. Undisturbed
      BY <1>1, NotifiedUndisturbed DEF CancelPending
    <2> QED
      BY <1>1, <2>1, <2>2, SeatsSame DEF CancelPending
  <1>2. CASE Withdraw(a)
    <2>0. PICK idle : idle = Abandoned(a) \cap EntriesIn(AtRest)
      OBVIOUS
    <2>1. /\ idle \in SUBSET Owners /\ CancelInterest(a, idle) /\ PoolTyped
          /\ todo' = [todo EXCEPT ![a] = idle]
          /\ \A o \in idle : In(o, AtRest)
      BY <1>2, <2>0, AbandonedTyped DEF Withdraw, Typed, EntriesIn, In
    <2>2. /\ DOMAIN pool' = DOMAIN pool
          /\ \A o \in DOMAIN pool : pool'[o].state = IF o \in idle THEN "retiring" ELSE pool[o].state
      BY <2>1, CancelKeepsEntries
    <2>3. Cleaning'
      <3>1. /\ todo'[a] \subseteq todo[a] \cup idle
            /\ \A u \in Janitors \ {a} : todo'[u] = todo[u]
        BY <1>0, <2>1 DEF Typed, ThreadsTyped
      <3>2. /\ \A o \in idle : ~In(o, {"retiring"}) /\ In(o, {"retiring"})'
            /\ \A o \in DOMAIN pool : pool[o].state = "retiring" => In(o, {"retiring"})'
        BY <2>1, <2>2 DEF In, AtRest
      <3>3. Cleaning
        BY DEF Seats
      <3> QED
        BY <1>0, <3>1, <3>2, <3>3, CleaningGrows
    <2>4. Undisturbed
      <3>1. pc[a] \notin {"binding", "bound"}
        BY <1>2 DEF Withdraw, Resting
      <3>2. \A b \in Attempts : target'[b] = target[b] \/ b = a
        BY <1>2 DEF Withdraw, Typed, ThreadsTyped
      <3> QED
        BY <1>0, <1>2, <3>1, <3>2, GoesUndisturbed DEF Withdraw
    <2>5. \A o \in Owners : Soft(o)
      BY <2>1, <2>2 DEF Soft, SameEntry, In
    <2> QED
      BY <1>0, <2>3, <2>4, <2>5, SeatsSoften
  <1>3. CASE WithdrawSleeps(a)
    BY <1>0, <1>3, MovesSeats DEF WithdrawSleeps, Sleeps, Goes, shared
  <1>4. CASE WithdrawEnds(a)
    BY <1>0, <1>4, MovesSeats DEF WithdrawEnds, Waited
  <1>5. CASE Removed(a)
    BY <1>0, <1>5, MovesSeats DEF Removed
  <1>6. CASE NotRemoved(a)
    BY <1>0, <1>6, MovesSeats DEF NotRemoved, Goes
  <1> QED
    BY <1>1, <1>2, <1>3, <1>4, <1>5, <1>6 DEF Aborts

LEMMA RetireSeats ==
    ASSUME Typed, Typed', Seats, NEW o \in Owners, Retires(o)
    PROVE  Seats'
  <1>0. DOMAIN pool \subseteq Owners /\ DOMAIN pool' \subseteq Owners
    BY DEF Typed, PoolTyped
  <1>1. PICK t \in Janitors : Retired(t, o) \/ CleanupBlocked(t, o)
    BY DEF Retires
  <1>2. /\ In(o, {"retiring"}) /\ o \in todo[t] /\ pool[o] \in Entry
        /\ \A u \in Janitors \ {t} : o \notin todo[u]
    BY <1>1 DEF Retired, CleanupBlocked, Seats, Cleaning, In, Typed, PoolTyped
  <1>3. /\ Out(o, {"blocked"})'
        /\ \A p \in Owners \ {o} : (p \in DOMAIN pool' <=> p \in DOMAIN pool)
                                    /\ (p \in DOMAIN pool => pool'[p] = pool[p])
    <2>1. CASE Retired(t, o)
      BY <2>1 DEF Retired, Without, Out
    <2>2. CASE CleanupBlocked(t, o)
      BY <1>2, <2>2 DEF CleanupBlocked, Out, In, Entry
    <2> QED
      BY <1>1, <2>1, <2>2
  <1>4. todo' = [todo EXCEPT ![t] = @ \ {o}] /\ todo \in [Janitors -> SUBSET Owners]
    BY <1>1 DEF Retired, CleanupBlocked, Typed, ThreadsTyped
  <1>5. Cleaning'
    <2>1. \A u \in Janitors : todo'[u] \subseteq todo[u] /\ o \notin todo'[u]
      BY <1>2, <1>4
    <2>2. \A u \in Janitors : \A p \in todo'[u] : In(p, {"retiring"})'
      BY <1>3, <1>4, <2>1 DEF Seats, Cleaning, In
    <2>3. Cleaning
      BY DEF Seats
    <2> QED
      BY <2>1, <2>2, <2>3, CleaningKept
  <1>6. Undisturbed
    BY <1>1, NotifiedUndisturbed DEF Retired, CleanupBlocked
  <1>7. \A p \in Owners : Soft(p)
    BY <1>2, <1>3 DEF Soft, SameEntry
  <1> QED
    BY <1>0, <1>5, <1>6, <1>7, SeatsSoften

LEMMA CloseSeats ==
    ASSUME Typed, Typed', Seats, Closes
    PROVE  Seats'
  <1>0. /\ Closer \in Threads /\ Closer \notin Attempts
        /\ {"closing", "evicting", "evictsleep", "closed"} \cap Serving = {}
    BY PoolAssumption DEF Threads, Serving, UserPositions
  <1>1. CASE Close
    BY <1>0, <1>1, MovesSeats DEF Close, Goes
  <1>2. CASE CloseEvicts
    BY <1>0, <1>2, EvictSeats DEF CloseEvicts
  <1>3. CASE CloseSleeps
    BY <1>0, <1>3, MovesSeats DEF CloseSleeps, Sleeps, Goes, shared
  <1>4. CASE CloseEnds
    BY <1>0, <1>4, MovesSeats DEF CloseEnds, Waited
  <1> QED
    BY <1>1, <1>2, <1>3, <1>4 DEF Closes

LEMMA StepSeats ==
    ASSUME Typed, Typed', Seats, [Next]_vars
    PROVE  Seats'
  <1>1. CASE UNCHANGED vars
    <2>1. Undisturbed /\ pool' = pool /\ todo' = todo
      BY <1>1 DEF vars, shared, threadVars, Undisturbed, Stands
    <2> QED
      BY <2>1, SeatsStay
  <1>2. ASSUME NEW a \in Attempts, Requests(a) \/ Works(a) \/ Fails(a) PROVE Seats'
    BY <1>2, OfferSeats, TakeSeats, ColdSeats, ReturnSeats, AbortSeats DEF Requests, Works, Fails
  <1>3. ASSUME NEW o \in Owners, Prepares(o) \/ Retires(o) \/ Expire(o) PROVE Seats'
    BY <1>3, PreparedSeats, RetireSeats DEF Prepares
  <1> QED
    BY <1>1, <1>2, <1>3, CloseSeats DEF Next

\* The invariant behind both: types, and seats as the states of the entries tell.
THEOREM SeatsHold == Spec => [](TypeOK /\ Seats)
  <1>1. Init => TypeOK /\ Seats
    BY InitTyped, InitSeats
  <1>2. TypeOK /\ Seats /\ [Next]_vars => (TypeOK /\ Seats)'
    <2> SUFFICES ASSUME TypeOK, Seats, [Next]_vars PROVE TypeOK' /\ Seats'
      OBVIOUS
    <2>1. Typed
      BY TypeSplit DEF Typed
    <2>2. Typed'
      BY <2>1, StepTyped
    <2>3. TypeOK'
      BY <2>2 DEF Typed, TypeOK, PoolTyped, BookTyped, BackendTyped, ThreadsTyped, Places
    <2> QED
      BY <2>1, <2>2, <2>3, StepSeats
  <1> QED
    BY <1>1, <1>2, PTL DEF Spec

\* TypeOK: every variable of the pool keeps its type, and the pool its capacity.
THEOREM TypeCorrect == Spec => []TypeOK
  BY SeatsHold, PTL

LEMMA SeatsGiveOneUser == ASSUME TypeOK, Seats PROVE OneUser
  <1> SUFFICES ASSUME NEW o \in Owners
               PROVE  /\ Cardinality(Users(o)) <= 1
                      /\ o \in EntriesIn({"preparing", "ready", "validated"}) => Users(o) = {}
                      /\ o \in EntriesIn({"claiming"}) => \E a \in Users(o) : pc[a] \in {"binding", "bound"}
                      /\ \A a \in Users(o) : pc[a] \in {"creating", "leased"} => o \notin DOMAIN pool
    BY DEF OneUser
  <1>1. Cardinality(Users(o)) <= 1
    <2>1. CASE Users(o) = {}
      <3>1. Cardinality({}) = 0
        BY FS_EmptySet
      <3> QED
        BY <2>1, <3>1
    <2>2. CASE Users(o) # {}
      <3>1. PICK a \in Users(o) : TRUE
        BY <2>2
      <3>2. Users(o) = {a}
        BY <3>1 DEF Users, Seats, Apart, Serving
      <3>3. Cardinality({a}) = 1
        BY FS_Singleton
      <3> QED
        BY <3>2, <3>3
    <2> QED
      BY <2>1, <2>2
  <1>2. o \in EntriesIn({"preparing", "ready", "validated"}) => Users(o) = {}
    BY DEF EntriesIn, Users, UserPositions, Seats, Placed, In, Out
  <1>3. o \in EntriesIn({"claiming"}) => \E a \in Users(o) : pc[a] \in {"binding", "bound"}
    BY DEF EntriesIn, Users, UserPositions, Seats, Claiming
  <1>4. \A a \in Users(o) : pc[a] \in {"creating", "leased"} => o \notin DOMAIN pool
    BY DEF Users, Seats, Placed
  <1> QED
    BY <1>1, <1>2, <1>3, <1>4

\* OneUser: a Worker serves one attempt at a time, whatever callbacks run outside the
\* lock of the pool, and what can be given to an attempt is nobody's.
THEOREM OneUserAtATime == Spec => []OneUser
  BY SeatsHold, SeatsGiveOneUser, PTL

-----------------------------------------------------------------------------
(* Who pays: the reservation follows the Worker from its owner to the attempt    *)
(* and back.                                                                   *)
Pays(i, o) == i \in DOMAIN reserved /\ (i = o \/ (i \in Attempts /\ owner[i] = o))

\* What an attempt pays for in its seat; who waits to be admitted has no reservation.
Paying(a) ==
    /\ pc[a] \in {"bound", "creating", "leased", "resetting"} =>
          owner[a] = target[a] /\ a \in DOMAIN reserved /\ reserved[a] = 1
    /\ pc[a] = "wiping" => target[a] \in DOMAIN reserved /\ reserved[target[a]] = 1
    /\ pc[a] \in {"binding", "parking"} => target[a] \in DOMAIN reserved
    /\ pc[a] \in {"destroying", "wiping"} => owner[a] \in {target[a], Nobody}
    /\ pc[a] \in {"draining", "drainsleep", "acquiring"} => a \notin DOMAIN reserved

\* What an entry at rest or in preparation pays for.
Paid(o) ==
    /\ In(o, {"preparing"}) => o \in DOMAIN reserved /\ reserved[o] = 1
    /\ In(o, {"ready", "validated"}) => o \in DOMAIN reserved

OnePayer(o) ==
    \E i \in Owners \cup Attempts :
        Pays(i, o) /\ \A j \in Owners \cup Attempts : Pays(j, o) => j = i

Charges ==
    /\ \A a \in Attempts : Paying(a)
    /\ \A o \in Owners : Paid(o)
    /\ \A o \in alive : OnePayer(o)

LEMMA ChargesGiveCharged == ASSUME TypeOK, Seats, Charges PROVE AliveIsCharged
  <1> SUFFICES ASSUME NEW o \in alive
               PROVE  /\ Cardinality(Payers(o)) = 1
                      /\ (\E a \in Users(o) : pc[a] \notin {"binding", "parking", "destroying"})
                         \/ o \in EntriesIn({"preparing"})
                            => \A i \in Payers(o) : reserved[i] = 1
    BY DEF AliveIsCharged
  <1>1. PICK i \in Owners \cup Attempts :
          Pays(i, o) /\ \A j \in Owners \cup Attempts : Pays(j, o) => j = i
    BY DEF Charges, OnePayer
  <1>2. o \in Owners
    BY DEF TypeOK
  <1>3. Payers(o) = {i}
    BY <1>1, <1>2 DEF Payers, LeasedTo, Pays
  <1>4. Cardinality({i}) = 1
    BY FS_Singleton
  <1>5. ASSUME NEW a \in Users(o), pc[a] \notin {"binding", "parking", "destroying"} PROVE reserved[i] = 1
    <2>1. a \in Attempts /\ target[a] = o /\ pc[a] \in {"bound", "creating", "leased", "resetting", "wiping"}
      BY <1>5 DEF Users, UserPositions
    <2>2. CASE pc[a] = "wiping"
      BY <1>1, <1>2, <2>1, <2>2 DEF Charges, Paying, Pays
    <2>3. CASE pc[a] # "wiping"
      BY <1>1, <2>1, <2>3 DEF Charges, Paying, Pays
    <2> QED
      BY <2>2, <2>3
  <1>6. o \in EntriesIn({"preparing"}) => reserved[i] = 1
    BY <1>1, <1>2 DEF EntriesIn, Charges, Paid, In, Pays
  <1> QED
    BY <1>3, <1>4, <1>5, <1>6

Admitting == {"draining", "drainsleep", "acquiring"}

\* Attempt a goes nowhere that would take another reservation.
Settles(a) ==
    \/ Stands(a)
    \/ pc'[a] \notin UserPositions \cup Admitting
    \/ pc'[a] \in Admitting /\ (pc[a] \in Admitting \/ a \notin DOMAIN reserved)
    \/ pc[a] \in {"bound", "creating"} /\ pc'[a] = "leased" /\ target'[a] = target[a]
    \/ pc[a] \in {"leased", "resetting", "wiping"} /\ pc'[a] = "destroying" /\ target'[a] = target[a]
    \/ pc[a] = "leased" /\ pc'[a] = "resetting" /\ target'[a] = target[a]
    \/ pc'[a] = "binding" /\ target'[a] \in DOMAIN reserved

\* Entry o comes to no state that would take another reservation.
Rested(o) ==
    \/ SameEntry(o)
    \/ Out(o, {"retiring", "blocked", "claiming", "resetting"})'
    \/ In(o, {"preparing", "ready", "validated"}) /\ In(o, {"ready", "validated"})'
    \/ o \in DOMAIN reserved /\ Out(o, {"ready", "validated"})'

\* A step that leaves the reservations alone.
LEMMA ChargesKept ==
    ASSUME Charges, UNCHANGED <<reserved, owner, alive>>,
           \A a \in Attempts : Settles(a),
           \A o \in Owners : Rested(o)
    PROVE  Charges'
  <1>1. ASSUME NEW a \in Attempts PROVE Paying(a)'
    <2>1. Paying(a) /\ Settles(a)
      BY DEF Charges
    <2> QED
      BY <2>1 DEF Settles, Paying, Stands, UserPositions, Admitting
  <1>2. ASSUME NEW o \in Owners PROVE Paid(o)'
    <2>1. Paid(o) /\ Rested(o)
      BY DEF Charges
    <2> QED
      BY <2>1 DEF Rested, Paid, In, Out, SameEntry
  <1>3. \A o \in alive' : OnePayer(o)'
    BY DEF Charges, OnePayer, Pays
  <1> QED
    BY <1>1, <1>2, <1>3 DEF Charges

LEMMA GoesSettles ==
    ASSUME Typed, NEW t \in Threads, NEW place,
           \/ place \notin UserPositions \cup Admitting
           \/ place \in Admitting /\ (pc[t] \in Admitting \/ t \notin DOMAIN reserved),
           \/ pc' = [pc EXCEPT ![t] = place]
           \/ pc' = [Notified(pc) EXCEPT ![t] = place],
           \A b \in Attempts : target'[b] = target[b] \/ b = t
    PROVE  \A b \in Attempts : Settles(b)
  <1>1. \A b \in Attempts : b \in Threads
    BY DEF Threads
  <1>2. ASSUME NEW b \in Attempts, b # t PROVE Settles(b)
    <2>1. /\ pc'[b] = pc[b] \/ pc'[b] = Notified(pc)[b]
          /\ target'[b] = target[b]
      BY <1>1, <1>2 DEF Typed, ThreadsTyped, Notified
    <2> QED
      BY <1>1, <2>1, NotifiedTyped
         DEF Typed, ThreadsTyped, Settles, Stands, UserPositions, Admitting, Sleeping
  <1>3. ASSUME t \in Attempts PROVE Settles(t)
    <2>1. pc'[t] = place
      BY DEF Typed, ThreadsTyped, Notified
    <2> QED
      BY <2>1 DEF Settles
  <1> QED
    BY <1>2, <1>3

LEMMA NotifiedSettles ==
    ASSUME Typed, pc' = Notified(pc) \/ pc' = pc, target' = target
    PROVE  \A b \in Attempts : Settles(b)
  <1>1. \A b \in Attempts : b \in Threads
    BY DEF Threads
  <1> QED
    BY <1>1, NotifiedTyped
       DEF Typed, ThreadsTyped, Settles, Stands, UserPositions, Admitting, Sleeping

LEMMA SoftRests == ASSUME NEW o, Soft(o) PROVE Rested(o)
  BY DEF Soft, Rested, In, Out

LEMMA EvictSoft ==
    ASSUME Typed, NEW t, NEW pressure, NEW place, EvictIdle(t, pressure, place)
    PROVE  \A o \in Owners : Soft(o)
  <1>1. DOMAIN pool' = DOMAIN pool
    BY DEF EvictIdle
  <1>2. ASSUME NEW o \in DOMAIN pool
        PROVE  \/ pool'[o].state = pool[o].state
               \/ In(o, AtRest) /\ pool'[o].state = "retiring"
    <2>1. pool[o] \in Entry
      BY DEF Typed, PoolTyped
    <2>2. \/ pool'[o] = pool[o]
          \/ pool'[o] = [pool[o] EXCEPT !.reason = "other", !.state = @]
          \/ In(o, AtRest) /\ pool'[o] = [pool[o] EXCEPT !.reason = "other", !.state = "retiring"]
      BY DEF EvictIdle, EntriesIn, In
    <2> QED
      BY <2>1, <2>2 DEF Entry
  <1> QED
    BY <1>1, <1>2 DEF Soft, SameEntry, In

LEMMA CancelSoft ==
    ASSUME Typed, NEW a \in Attempts, NEW S \in SUBSET Owners, CancelInterest(a, S),
           S \subseteq EntriesIn(AtRest)
    PROVE  \A o \in Owners : Soft(o)
  <1>1. /\ DOMAIN pool' = DOMAIN pool
        /\ \A o \in DOMAIN pool : pool'[o].state = IF o \in S THEN "retiring" ELSE pool[o].state
    BY CancelKeepsEntries DEF Typed
  <1> QED
    BY <1>1 DEF Soft, SameEntry, In, EntriesIn

LEMMA RetiringRests ==
    ASSUME Typed, NEW t \in Janitors, NEW o \in DOMAIN pool, Retiring(o, t)
    PROVE  \A p \in Owners : Rested(p)
  <1>1. /\ DOMAIN pool' = DOMAIN pool
        /\ \A p \in DOMAIN pool \ {o} : pool'[p] = pool[p]
        /\ pool'[o].state = "retiring"
    BY RetiringTyped DEF Typed
  <1> QED
    BY <1>1 DEF Rested, SameEntry, In, Out

LEMMA PoolRests == ASSUME pool' = pool PROVE \A p \in Owners : Rested(p)
  BY DEF Rested, SameEntry

\* Actions of an attempt that leave the reservations alone.
LEMMA OfferCharges ==
    ASSUME Typed, Typed', Seats, Charges, NEW a \in Attempts,
           Preflight(a) \/ OfferSkipped(a) \/ OfferMerged(a) \/ OfferReplaces(a) \/ OfferAgain(a)
    PROVE  Charges'
  <1>0. /\ a \in Threads /\ a \in Janitors
        /\ {"offering", "idle", "replacing"} \cap (UserPositions \cup Admitting) = {}
    BY DEF Threads, Janitors, UserPositions, Admitting
  <1>1. UNCHANGED <<reserved, owner, alive>>
    BY DEF Preflight, OfferSkipped, OfferMerged, OfferReplaces, OfferAgain, Moves, shared, backendVars
  <1>2. \A b \in Attempts : Settles(b)
    <2>1. \E place \in {"offering", "idle", "replacing"} : pc' = [pc EXCEPT ![a] = place]
      BY DEF Preflight, OfferSkipped, OfferMerged, OfferReplaces, OfferAgain, Moves, Goes
    <2>2. target' = target
      BY DEF Preflight, OfferSkipped, OfferMerged, OfferReplaces, OfferAgain, Moves, Goes
    <2> QED
      BY <1>0, <2>1, <2>2, GoesSettles
  <1>3. \A o \in Owners : Rested(o)
    <2>1. CASE OfferMerged(a)
      BY <2>1 DEF OfferMerged, Rested, SameEntry, Typed, PoolTyped, Entry
    <2>2. CASE OfferReplaces(a)
      <3>1. PICK o \in Replaceable(a) : Retiring(o, a)
        BY <2>2 DEF OfferReplaces
      <3>2. o \in DOMAIN pool
        BY DEF Replaceable, EntriesIn
      <3> QED
        BY <1>0, <3>1, <3>2, RetiringRests
    <2>3. CASE Preflight(a) \/ OfferSkipped(a) \/ OfferAgain(a)
      BY <2>3, PoolRests DEF Preflight, OfferSkipped, OfferAgain, Moves, shared
    <2> QED
      BY <2>1, <2>2, <2>3
  <1> QED
    BY <1>1, <1>2, <1>3, ChargesKept

LEMMA PreparedCharges ==
    ASSUME Typed, Typed', Seats, Charges, NEW o \in Owners,
           Prepared(o) \/ PrepareFails(o) \/ Expire(o)
    PROVE  Charges'
  <1>1. UNCHANGED <<reserved, owner, alive>> /\ \A b \in Attempts : Settles(b)
    BY NotifiedSettles DEF Prepared, PrepareFails, Expire, backendVars
  <1>2. o \in DOMAIN pool /\ pool[o] \in Entry /\ Background \in Janitors
    BY DEF Prepared, PrepareFails, Expire, EntriesIn, Janitors, Typed, PoolTyped
  <1>3. \A p \in Owners : Rested(p)
    <2>1. CASE Prepared(o)
      <3>1. PICK s \in {"ready", "retiring"} : pool' = [pool EXCEPT ![o] = [pool[o] EXCEPT !.state = s]]
        BY <1>2, <2>1 DEF Prepared
      <3>2. /\ DOMAIN pool' = DOMAIN pool /\ pool'[o].state = s
            /\ \A p \in DOMAIN pool \ {o} : pool'[p] = pool[p]
        BY <1>2, <3>1 DEF Entry
      <3>3. pool[o].state = "preparing"
        BY <2>1 DEF Prepared, EntriesIn
      <3> QED
        BY <1>2, <3>2, <3>3 DEF Rested, SameEntry, In, Out
    <2>2. CASE PrepareFails(o) \/ Expire(o)
      BY <1>2, <2>2, RetiringRests DEF PrepareFails, Expire
    <2> QED
      BY <2>1, <2>2
  <1> QED
    BY <1>1, <1>3, ChargesKept

LEMMA TakeCharges ==
    ASSUME Typed, Typed', Seats, Charges, NEW a \in Attempts, Takes(a) \/ BindFails(a), ~Bind(a)
    PROVE  Charges'
  <1>0. /\ a \in Threads /\ a \in Janitors
        /\ {"idle", "taking", "late", "asleep", "blocked", "cold", "refused", "rejected"}
             \cap (UserPositions \cup Admitting) = {}
    BY DEF Threads, Janitors, UserPositions, Admitting
  <1>1. ASSUME NEW place \in {"idle", "blocked", "cold"}, Leaves(a, place) PROVE Charges'
    <2>1. \A b \in Attempts : Settles(b)
      <3>1. \/ pc' = [pc EXCEPT ![a] = place]
            \/ pc' = [Notified(pc) EXCEPT ![a] = place]
        BY <1>1 DEF Leaves
      <3>2. \A b \in Attempts : target'[b] = target[b] \/ b = a
        BY <1>1 DEF Leaves, Typed, ThreadsTyped
      <3> QED
        BY <1>0, <3>1, <3>2, GoesSettles
    <2>2. \A o \in Owners : Rested(o)
      BY <1>1 DEF Leaves, Unmarked, Rested, SameEntry, Typed, PoolTyped, Entry
    <2> QED
      BY <1>1, <2>1, <2>2, ChargesKept DEF Leaves, backendVars
  <1>2. CASE TakeRefused(a) \/ TakeFallsBack(a)
    BY <1>1, <1>2 DEF TakeRefused, TakeFallsBack
  <1>3. CASE TakeAwaitsRetirement(a)
    <2>1. CASE Leaves(a, "blocked")
      BY <1>1, <2>1
    <2>2. CASE Goes(a, "asleep") /\ UNCHANGED shared
      <3>1. \A b \in Attempts : Settles(b)
        BY <1>0, <2>2, GoesSettles DEF Goes
      <3> QED
        BY <2>2, <3>1, PoolRests, ChargesKept DEF shared, backendVars
    <2> QED
      BY <1>3, <2>1, <2>2 DEF TakeAwaitsRetirement
  <1>4. CASE TakeMisses(a)
    <2>1. \A b \in Attempts : Settles(b)
      BY <1>0, <1>4, GoesSettles DEF TakeMisses, Rests, Typed, ThreadsTyped
    <2> QED
      BY <1>4, <2>1, PoolRests, ChargesKept DEF TakeMisses, shared, backendVars
  <1>5. CASE TakeQueues(a)
    <2>1. \A b \in Attempts : Settles(b)
      <3>1. \E place \in {"blocked", "asleep"} :
              pc' = [pc EXCEPT ![a] = place] \/ pc' = [Notified(pc) EXCEPT ![a] = place]
        BY <1>5 DEF TakeQueues
      <3>2. \A b \in Attempts : target'[b] = target[b] \/ b = a
        BY <1>5 DEF TakeQueues, Typed, ThreadsTyped
      <3> QED
        BY <1>0, <3>1, <3>2, GoesSettles
    <2>2. \A o \in Owners : Rested(o)
      BY <1>5 DEF TakeQueues, Rested, SameEntry, Typed, PoolTyped, Entry
    <2> QED
      BY <1>5, <2>1, <2>2, ChargesKept DEF TakeQueues, backendVars
  <1>6. CASE TakeDeadline(a)
    <2>1. \A b \in Attempts : Settles(b)
      BY <1>0, <1>6, GoesSettles DEF TakeDeadline, Moves, Goes
    <2> QED
      BY <1>6, <2>1, PoolRests, ChargesKept DEF TakeDeadline, Moves, shared, backendVars
  <1>7. CASE ClaimEnds(a)
    <2>1. \A b \in Attempts : Settles(b)
      BY <1>0, <1>7, GoesSettles DEF ClaimEnds, Typed, ThreadsTyped
    <2> QED
      BY <1>7, <2>1, PoolRests, ChargesKept DEF ClaimEnds, backendVars
  <1>8. CASE BindRefused(a) \/ BindFails(a) \/ ClaimRetired(a)
    <2>1. PICK place \in {"refused", "rejected"} : Rejects(a, place)
      BY <1>8 DEF BindRefused, BindFails, ClaimRetired
    <2>2. target[a] \in DOMAIN pool
      BY <1>8 DEF BindRefused, BindFails, ClaimRetired, Seats, Placed, In
    <2>3. \A b \in Attempts : Settles(b)
      BY <1>0, <2>1, GoesSettles DEF Rejects
    <2>4. \A o \in Owners : Rested(o)
      BY <1>0, <2>1, <2>2, RetiringRests DEF Rejects
    <2> QED
      BY <2>1, <2>3, <2>4, ChargesKept DEF Rejects, backendVars
  <1>9. CASE TakeClaims(a)
    <2>1. PICK o \in Claimable(a) :
          /\ pool[o].state = "ready"
          /\ pool' = [pool EXCEPT ![o].state = "claiming", ![o].waiting = Nobody]
          /\ target' = [target EXCEPT ![a] = o]
      BY <1>9 DEF TakeClaims
    <2>2. /\ o \in DOMAIN pool /\ pool[o] \in Entry /\ o \in Owners
          /\ pc' = [Notified(pc) EXCEPT ![a] = "binding"]
          /\ UNCHANGED <<reserved, owner, alive>>
      BY <1>9 DEF Claimable, Typed, PoolTyped, TakeClaims, backendVars
    <2>3. \A p \in Owners : Rested(p)
      BY <2>1, <2>2 DEF Rested, SameEntry, Out, Entry
    <2>4. o \in DOMAIN reserved
      BY <2>1, <2>2 DEF Charges, Paid, In
    <2>5. Settles(a)
      BY <1>0, <2>1, <2>2, <2>4 DEF Settles, Typed, ThreadsTyped, Notified
    <2>6. ASSUME NEW b \in Attempts, b # a PROVE Settles(b)
      <3>1. b \in Threads /\ pc'[b] = Notified(pc)[b] /\ target'[b] = target[b]
        BY <2>1, <2>2, <2>6 DEF Threads, Typed, ThreadsTyped, Notified
      <3> QED
        BY <3>1, NotifiedTyped
           DEF Typed, ThreadsTyped, Settles, Stands, UserPositions, Admitting, Sleeping
    <2> QED
      BY <2>2, <2>3, <2>5, <2>6, ChargesKept
  <1>10. CASE Claimed(a)
    <2>0. pc[a] = "bound" /\ pc' = [Notified(pc) EXCEPT ![a] = "leased"] /\ target' = target
      BY <1>10 DEF Claimed
    <2>1. \A b \in Attempts \ {a} : Settles(b)
      <3> SUFFICES ASSUME NEW b \in Attempts \ {a} PROVE Settles(b)
        OBVIOUS
      <3>1. b \in Threads /\ pc'[b] = Notified(pc)[b] /\ target'[b] = target[b]
        BY <2>0 DEF Threads, Typed, ThreadsTyped, Notified
      <3> QED
        BY <3>1, NotifiedTyped
           DEF Typed, ThreadsTyped, Settles, Stands, UserPositions, Admitting, Sleeping
    <2>2. Settles(a)
      BY <1>0, <2>0 DEF Settles, Typed, ThreadsTyped, Notified
    <2>3. \A o \in Owners : Rested(o)
      BY <1>10 DEF Claimed, Without, Rested, SameEntry, Out
    <2> QED
      BY <1>10, <2>1, <2>2, <2>3, ChargesKept DEF Claimed, backendVars
  <1> QED
    BY <1>2, <1>3, <1>4, <1>5, <1>6, <1>7, <1>8, <1>9, <1>10 DEF Takes

LEMMA ColdCharges ==
    ASSUME Typed, Typed', Seats, Charges, NEW a \in Attempts,
           ColdDrains(a) \/ ColdRefused(a) \/ DrainSleeps(a) \/ DrainEnds(a) \/ ColdNotAdmitted(a)
           \/ Created(a)
    PROVE  Charges'
  <1>0. /\ a \in Threads
        /\ {"idle", "blocked"} \cap (UserPositions \cup Admitting) = {}
    BY DEF Threads, UserPositions, Admitting
  <1>1. UNCHANGED <<reserved, owner, alive>>
    BY DEF ColdDrains, ColdRefused, DrainSleeps, DrainEnds, ColdNotAdmitted, Created, Moves, Sleeps,
       Waited, shared, backendVars
  <1>2. \A o \in Owners : Rested(o)
    <2>1. CASE ColdDrains(a)
      BY <2>1, EvictSoft, SoftRests DEF ColdDrains
    <2>2. CASE ~ColdDrains(a)
      BY <2>2, PoolRests
         DEF ColdRefused, DrainSleeps, DrainEnds, ColdNotAdmitted, Created, Moves, Sleeps, Waited, shared
    <2> QED
      BY <2>1, <2>2
  <1>3. \A b \in Attempts : Settles(b)
    <2>1. CASE ColdDrains(a)
      BY <1>0, <2>1, GoesSettles DEF ColdDrains, EvictIdle, Admitting
    <2>2. CASE ColdRefused(a) \/ ColdNotAdmitted(a)
      <3>1. \E place \in {"idle", "blocked"} : pc' = [pc EXCEPT ![a] = place] /\ target' = target
        BY <2>2 DEF ColdRefused, ColdNotAdmitted, Moves, Goes
      <3> QED
        BY <1>0, <3>1, GoesSettles
    <2>3. CASE DrainSleeps(a) \/ DrainEnds(a)
      <3>1. /\ pc[a] = "draining" /\ target' = target
            /\ \E place \in {"drainsleep", "idle", "acquiring"} : pc' = [pc EXCEPT ![a] = place]
        BY <2>3 DEF DrainSleeps, DrainEnds, Sleeps, Waited, Goes
      <3> QED
        BY <1>0, <3>1, GoesSettles DEF Admitting
    <2>4. CASE Created(a)
      BY <1>0, <2>4 DEF Created, Moves, Goes, Settles, Stands, Typed, ThreadsTyped, Threads
    <2> QED
      BY <2>1, <2>2, <2>3, <2>4
  <1> QED
    BY <1>1, <1>2, <1>3, ChargesKept

LEMMA ReturnCharges ==
    ASSUME Typed, Typed', Seats, Charges, NEW a \in Attempts,
           ReturnSkipped(a) \/ ReturnStarts(a) \/ Returns(a) \/ ResetFails(a)
           \/ NotDestroyed(a) \/ NotRecorded(a),
           ~ResetStops(a) /\ ~ResetParks(a) /\ ~Destroyed(a)
    PROVE  Charges'
  <1>0. /\ a \in Threads /\ a \in Janitors /\ \A b \in Attempts : b \in Threads
        /\ {"publishing", "ended", "blocked", "validated"} \cap (UserPositions \cup Admitting) = {}
    BY DEF Threads, Janitors, UserPositions, Admitting
  <1>1. CASE ReturnSkipped(a) \/ ReturnStarts(a)
    <2>1. /\ pc[a] = "leased" /\ target' = target
          /\ pc' = [pc EXCEPT ![a] = "destroying"] \/ pc' = [pc EXCEPT ![a] = "resetting"]
          /\ UNCHANGED <<reserved, owner, alive>>
      BY <1>1 DEF ReturnSkipped, ReturnStarts, Moves, Goes, shared, backendVars
    <2>2. \A b \in Attempts : Settles(b)
      BY <1>0, <2>1 DEF Settles, Stands, Typed, ThreadsTyped
    <2>3. \A o \in Owners : Rested(o)
      BY <1>1 DEF ReturnSkipped, ReturnStarts, Moves, shared, With, Rested, SameEntry, Out
    <2> QED
      BY <2>1, <2>2, <2>3, ChargesKept
  <1>2. CASE ResetVerified(a)
    <2>1. /\ pc' = [Notified(pc) EXCEPT ![a] = "validated"] /\ target' = target
          /\ UNCHANGED <<reserved, owner, alive>>
      BY <1>2 DEF ResetVerified, backendVars
    <2>2. \A b \in Attempts : Settles(b)
      BY <1>0, <2>1, GoesSettles
    <2>3. target[a] \in DOMAIN reserved
      BY <1>2 DEF ResetVerified, Charges, Paying
    <2>4. \A o \in Owners : Rested(o)
      BY <1>2, <2>3 DEF ResetVerified, Rested, SameEntry, Out, Typed, PoolTyped, Entry
    <2> QED
      BY <2>1, <2>2, <2>4, ChargesKept
  <1>3. CASE ResetFails(a) \/ ResetInterrupted(a)
    <2>1. Rejects(a, "destroying") /\ pc[a] \in {"resetting", "wiping"}
      BY <1>3 DEF ResetFails, ResetInterrupted
    <2>2. target[a] \in DOMAIN pool
      BY <2>1 DEF Seats, Placed, In
    <2>3. \A b \in Attempts : Settles(b)
      BY <1>0, <2>1 DEF Rejects, Settles, Stands, Typed, ThreadsTyped
    <2>4. \A o \in Owners : Rested(o)
      BY <1>0, <2>1, <2>2, RetiringRests DEF Rejects
    <2> QED
      BY <2>1, <2>3, <2>4, ChargesKept DEF Rejects, backendVars
  <1>4. CASE NotDestroyed(a) \/ NothingToPublish(a) \/ NotRecorded(a) \/ Published(a)
    <2>1. /\ UNCHANGED <<reserved, owner, alive>> /\ pool' = pool
          /\ \E place \in {"ended", "blocked"} : pc' = [pc EXCEPT ![a] = place]
          /\ \A b \in Attempts : target'[b] = target[b] \/ b = a
      BY <1>4 DEF NotDestroyed, NothingToPublish, NotRecorded, Published, Rests, Moves, Goes, shared,
         backendVars, Typed, ThreadsTyped
    <2>2. \A b \in Attempts : Settles(b)
      BY <1>0, <2>1, GoesSettles
    <2> QED
      BY <2>1, <2>2, PoolRests, ChargesKept
  <1>5. CASE Publish(a)
    <2>1. PICK s \in {"ready", "retiring"} :
            /\ pool' = [pool EXCEPT ![target[a]].state = s, ![target[a]].interests = {}]
            /\ pc' = [Notified(pc) EXCEPT ![a] = IF s = "ready" THEN "ended" ELSE "publishing"]
            /\ target' = [target EXCEPT ![a] = Nobody]
      BY <1>5 DEF Publish
    <2>2. \A b \in Attempts : Settles(b)
      BY <1>0, <2>1, GoesSettles DEF Typed, ThreadsTyped
    <2>3. target[a] \in DOMAIN pool /\ pool[target[a]].state = "validated"
      BY <1>5 DEF Publish, EntriesIn
    <2>4. \A o \in Owners : Rested(o)
      BY <2>1, <2>3 DEF Rested, SameEntry, In, Out, Typed, PoolTyped, Entry
    <2> QED
      BY <1>5, <2>2, <2>4, ChargesKept DEF Publish, backendVars
  <1> QED
    BY <1>1, <1>2, <1>3, <1>4, <1>5 DEF Returns

LEMMA AbortCharges ==
    ASSUME Typed, Typed', Seats, Charges, NEW a \in Attempts,
           CancelPending(a) \/ Withdraw(a) \/ WithdrawSleeps(a) \/ WithdrawEnds(a) \/ NotRemoved(a)
    PROVE  Charges'
  <1>0. /\ a \in Threads
        /\ {"withdrawing", "withdrawsleep", "removing", "reporting", "blocked"}
             \cap (UserPositions \cup Admitting) = {}
    BY DEF Threads, UserPositions, Admitting
  <1>1. UNCHANGED <<reserved, owner, alive>>
    BY DEF CancelPending, Withdraw, WithdrawSleeps, WithdrawEnds, NotRemoved, Sleeps, Waited, shared,
       backendVars
  <1>2. \A o \in Owners : Rested(o)
    <2>1. CASE CancelPending(a)
      BY <2>1, CancelSoft, SoftRests DEF CancelPending
    <2>2. CASE Withdraw(a)
      BY <2>2, CancelSoft, SoftRests, AbandonedTyped DEF Withdraw, Typed
    <2>3. CASE ~CancelPending(a) /\ ~Withdraw(a)
      BY <2>3, PoolRests DEF WithdrawSleeps, WithdrawEnds, NotRemoved, Sleeps, Waited, shared
    <2> QED
      BY <2>1, <2>2, <2>3
  <1>3. \A b \in Attempts : Settles(b)
    <2>1. CASE CancelPending(a)
      BY <2>1, NotifiedSettles DEF CancelPending
    <2>2. CASE ~CancelPending(a)
      <3>1. \E place \in {"withdrawing", "withdrawsleep", "removing", "reporting", "blocked"} :
              pc' = [pc EXCEPT ![a] = place] \/ pc' = [Notified(pc) EXCEPT ![a] = place]
        BY <2>2 DEF Withdraw, WithdrawSleeps, WithdrawEnds, NotRemoved, Sleeps, Waited, Goes
      <3>2. \A b \in Attempts : target'[b] = target[b] \/ b = a
        BY <2>2 DEF Withdraw, WithdrawSleeps, WithdrawEnds, NotRemoved, Sleeps, Waited, Goes, Typed,
           ThreadsTyped
      <3> QED
        BY <1>0, <3>1, <3>2, GoesSettles
    <2> QED
      BY <2>1, <2>2
  <1> QED
    BY <1>1, <1>2, <1>3, ChargesKept

LEMMA CloseCharges ==
    ASSUME Typed, Charges, Closes
    PROVE  Charges'
  <1>0. /\ Closer \in Threads
        /\ {"closing", "evicting", "evictsleep", "closed"} \cap (UserPositions \cup Admitting) = {}
    BY DEF Threads, UserPositions, Admitting
  <1>1. UNCHANGED <<reserved, owner, alive>>
    BY DEF Closes, Close, CloseEvicts, CloseSleeps, CloseEnds, Sleeps, Waited, shared, backendVars
  <1>2. \A o \in Owners : Rested(o)
    <2>1. CASE CloseEvicts
      BY <2>1, EvictSoft, SoftRests DEF CloseEvicts
    <2>2. CASE ~CloseEvicts
      BY <2>2, PoolRests DEF Closes, Close, CloseSleeps, CloseEnds, Sleeps, Waited, shared
    <2> QED
      BY <2>1, <2>2
  <1>3. \A b \in Attempts : Settles(b)
    <2>1. /\ \E place \in {"closing", "evicting", "evictsleep", "closed"} :
                pc' = [pc EXCEPT ![Closer] = place] \/ pc' = [Notified(pc) EXCEPT ![Closer] = place]
          /\ target' = target
      BY DEF Closes, Close, CloseEvicts, EvictIdle, CloseSleeps, CloseEnds, Sleeps, Waited, Goes
    <2> QED
      BY <1>0, <2>1, GoesSettles
  <1> QED
    BY <1>1, <1>2, <1>3, ChargesKept

\* Actions that take, move or give back a reservation.
LEMMA Disjoint == \A a \in Attempts : a \notin Owners /\ a # Nobody
  BY PoolAssumption DEF Owners

LEMMA StartCharges ==
    ASSUME Typed, Typed', Seats, Charges, NEW a \in Attempts, OfferStarts(a)
    PROVE  Charges'
  <1>1. PICK o \in Owners :
          /\ IsFresh(o)
          /\ pool' = With(pool, o, [state |-> "preparing", key |-> Environment[a], interests |-> {a},
                                    reason |-> "none", waiting |-> Nobody, parked |-> FALSE])
          /\ reserved' = With(reserved, o, 1)
          /\ alive' = alive \cup {o}
    BY DEF OfferStarts
  <1>2. /\ o \notin DOMAIN pool /\ o \notin DOMAIN reserved /\ o \notin alive
        /\ \A b \in Attempts : target[b] # o /\ owner[b] # o
    BY <1>1 DEF IsFresh, Known
  <1>3. /\ owner' = owner /\ target' = target
        /\ \A b \in Attempts : pc'[b] = pc[b] \/ pc'[b] = "idle"
    BY DEF OfferStarts, Goes, Typed, ThreadsTyped, Threads
  <1>4. /\ DOMAIN reserved' = DOMAIN reserved \cup {o} /\ reserved'[o] = 1
        /\ \A i \in DOMAIN reserved : reserved'[i] = reserved[i]
    BY <1>1, <1>2 DEF With
  <1>5. /\ DOMAIN pool' = DOMAIN pool \cup {o} /\ pool'[o].state = "preparing"
        /\ \A p \in DOMAIN pool : pool'[p] = pool[p]
    BY <1>1, <1>2 DEF With
  <1>6. ASSUME NEW b \in Attempts PROVE Paying(b)'
    <2>1. Paying(b) /\ b # o
      BY Disjoint DEF Charges
    <2> QED
      BY <1>3, <1>4, <2>1 DEF Paying
  <1>7. \A p \in Owners : Paid(p)'
    BY <1>4, <1>5 DEF Charges, Paid, In
  <1>8. ASSUME NEW p \in alive' PROVE OnePayer(p)'
    <2>1. CASE p = o
      <3>1. /\ Pays(o, o)'
            /\ \A j \in Owners \cup Attempts : Pays(j, o)' => j = o
        BY <1>2, <1>3, <1>4 DEF Pays
      <3> QED
        BY <2>1, <3>1 DEF OnePayer
    <2>2. CASE p # o
      <3>1. p \in alive
        BY <1>1, <2>2
      <3>2. PICK i \in Owners \cup Attempts :
              Pays(i, p) /\ \A j \in Owners \cup Attempts : Pays(j, p) => j = i
        BY <3>1 DEF Charges, OnePayer
      <3>3. \A j \in Owners \cup Attempts : Pays(j, p)' <=> Pays(j, p)
        BY <1>2, <1>3, <1>4, <2>2, Disjoint DEF Pays
      <3> QED
        BY <3>2, <3>3 DEF OnePayer
    <2> QED
      BY <2>1, <2>2
  <1> QED
    BY <1>6, <1>7, <1>8 DEF Charges

LEMMA BindCharges ==
    ASSUME Typed, Typed', Seats, Charges, NEW a \in Attempts, Bind(a)
    PROVE  Charges'
  <1>1. PICK o \in Owners : o = target[a] /\ In(o, {"claiming"}) /\ pc[a] = "binding" /\ o \in DOMAIN reserved
    BY DEF Bind, Seats, Placed, Serving, UserPositions, Charges, Paying
  <1>2. /\ a \notin DOMAIN reserved /\ a \notin Owners /\ a # Nobody
        /\ reserved' = With(Without(reserved, o), a, 1)
        /\ owner' = [owner EXCEPT ![a] = o]
        /\ pool' = pool /\ alive' = alive /\ target' = target
        /\ pc'[a] = "bound" /\ \A b \in Attempts \ {a} : pc'[b] = pc[b]
    BY <1>1, Disjoint DEF Bind, Goes, Typed, ThreadsTyped, Threads
  <1>3. /\ DOMAIN reserved' = (DOMAIN reserved \ {o}) \cup {a} /\ reserved'[a] = 1
        /\ \A i \in DOMAIN reserved \ {o} : reserved'[i] = reserved[i]
    BY <1>2 DEF With, Without
  <1>4. owner'[a] = o /\ \A b \in Attempts \ {a} : owner'[b] = owner[b]
    BY <1>2 DEF Typed, BackendTyped
  <1>5. ASSUME NEW b \in Attempts PROVE Paying(b)'
    <2>1. CASE b = a
      BY <1>1, <1>2, <1>3, <1>4, <2>1 DEF Paying
    <2>2. CASE b # a
      <3>1. Paying(b) /\ b \notin Owners
        BY Disjoint DEF Charges
      <3>2. pc[b] \in Serving => target[b] # o /\ target[b] \in Owners
        BY <1>1, <2>2 DEF Seats, Apart, Placed, Serving, UserPositions
      <3> QED
        BY <1>1, <1>2, <1>3, <1>4, <2>2, <3>1, <3>2 DEF Paying, Serving, UserPositions
    <2> QED
      BY <2>1, <2>2
  <1>6. \A p \in Owners : Paid(p)'
    BY <1>1, <1>2, <1>3 DEF Charges, Paid, In
  <1>7. ASSUME NEW p \in alive' PROVE OnePayer(p)'
    <2>1. PICK i \in Owners \cup Attempts :
            Pays(i, p) /\ \A j \in Owners \cup Attempts : Pays(j, p) => j = i
      BY <1>2 DEF Charges, OnePayer
    <2>2. p \in Owners
      BY <1>2 DEF Typed, BackendTyped
    <2>3. CASE p = o
      <3>1. i = o
        BY <1>1, <2>1, <2>3 DEF Pays
      <3>2. Pays(a, o)' /\ \A j \in Owners \cup Attempts : Pays(j, o)' => j = a
        BY <1>2, <1>3, <1>4, <2>1, <2>3, <3>1, Disjoint DEF Pays
      <3> QED
        BY <2>3, <3>2 DEF OnePayer
    <2>4. CASE p # o
      <3>1. \A j \in Owners \cup Attempts : Pays(j, p)' <=> Pays(j, p)
        BY <1>1, <1>2, <1>3, <1>4, <2>2, <2>4, Disjoint DEF Pays
      <3> QED
        BY <2>1, <3>1 DEF OnePayer
    <2> QED
      BY <2>3, <2>4
  <1> QED
    BY <1>5, <1>6, <1>7 DEF Charges

LEMMA CreateCharges ==
    ASSUME Typed, Typed', Seats, Charges, NEW a \in Attempts, ColdAtOnce(a) \/ ColdAdmitted(a)
    PROVE  Charges'
  <1>0. a \notin DOMAIN reserved /\ Creates(a)
    BY DEF ColdAtOnce, ColdAdmitted, Charges, Paying
  <1>1. PICK o \in Owners :
          /\ IsFresh(o)
          /\ owner' = [owner EXCEPT ![a] = o]
          /\ target' = [target EXCEPT ![a] = o]
          /\ alive' = alive \cup {o}
    BY <1>0 DEF Creates
  <1>2. /\ o \notin DOMAIN pool /\ o \notin DOMAIN reserved /\ o \notin alive
        /\ \A b \in Attempts : target[b] # o /\ owner[b] # o
        /\ a \notin Owners /\ a # Nobody
    BY <1>1, Disjoint DEF IsFresh, Known
  <1>3. /\ pool' = pool /\ reserved' = With(reserved, a, 1)
        /\ pc'[a] = "creating" /\ target'[a] = o /\ owner'[a] = o
        /\ \A b \in Attempts \ {a} : pc'[b] = pc[b] /\ target'[b] = target[b] /\ owner'[b] = owner[b]
    BY <1>0, <1>1 DEF Creates, Typed, ThreadsTyped, BackendTyped, Threads
  <1>4. /\ DOMAIN reserved' = DOMAIN reserved \cup {a} /\ reserved'[a] = 1
        /\ \A i \in DOMAIN reserved : reserved'[i] = reserved[i]
    BY <1>0, <1>3 DEF With
  <1>5. ASSUME NEW b \in Attempts PROVE Paying(b)'
    <2>1. CASE b = a
      BY <1>3, <1>4, <2>1 DEF Paying
    <2>2. CASE b # a
      <3>1. Paying(b)
        BY DEF Charges
      <3> QED
        BY <1>3, <1>4, <2>2, <3>1 DEF Paying
    <2> QED
      BY <2>1, <2>2
  <1>6. \A p \in Owners : Paid(p)'
    BY <1>2, <1>3, <1>4 DEF Charges, Paid, In
  <1>7. ASSUME NEW p \in alive' PROVE OnePayer(p)'
    <2>0. p \in Owners
      BY <1>1 DEF Typed, BackendTyped
    <2>1. CASE p = o
      <3>1. Pays(a, o)' /\ \A j \in Owners \cup Attempts : Pays(j, o)' => j = a
        BY <1>2, <1>3, <1>4 DEF Pays
      <3> QED
        BY <2>1, <3>1 DEF OnePayer
    <2>2. CASE p # o
      <3>1. PICK i \in Owners \cup Attempts :
              Pays(i, p) /\ \A j \in Owners \cup Attempts : Pays(j, p) => j = i
        BY <1>1, <2>2 DEF Charges, OnePayer
      <3>2. \A j \in Owners \cup Attempts : Pays(j, p)' <=> Pays(j, p)
        BY <1>0, <1>2, <1>3, <1>4, <2>0, <2>2 DEF Pays
      <3> QED
        BY <3>1, <3>2 DEF OnePayer
    <2> QED
      BY <2>1, <2>2
  <1> QED
    BY <1>5, <1>6, <1>7 DEF Charges

LEMMA FailCharges ==
    ASSUME Typed, Typed', Seats, Charges, NEW a \in Attempts, CreationFails(a)
    PROVE  Charges'
  <1>1. /\ pc[a] = "creating" /\ owner[a] = target[a] /\ owner' = owner /\ pool' = pool
        /\ pc'[a] = "idle" /\ a \notin Owners
        /\ \A b \in Attempts \ {a} : Stands(b)
    BY Disjoint DEF CreationFails, Rests, Charges, Paying, Stands, Typed, ThreadsTyped, Threads
  <1>2. CASE reserved' = reserved /\ alive' = alive
    <2>1. \A b \in Attempts : Settles(b)
      BY <1>1 DEF Settles, UserPositions, Admitting
    <2> QED
      BY <1>1, <1>2, <2>1, PoolRests, ChargesKept
  <1>3. CASE reserved' = Without(reserved, a) /\ alive' = alive \ {target[a]}
    <2>1. /\ DOMAIN reserved' = DOMAIN reserved \ {a}
          /\ \A i \in DOMAIN reserved \ {a} : reserved'[i] = reserved[i]
      BY <1>3 DEF Without
    <2>2. ASSUME NEW b \in Attempts PROVE Paying(b)'
      <3>1. CASE b = a
        BY <1>1, <3>1 DEF Paying
      <3>2. CASE b # a
        <4>1. Paying(b) /\ Stands(b) /\ (pc[b] \in Serving => target[b] \in Owners)
          BY <1>1, <3>2 DEF Charges, Seats, Placed
        <4> QED
          BY <1>1, <2>1, <3>2, <4>1 DEF Paying, Stands, Serving, UserPositions
      <3> QED
        BY <3>1, <3>2
    <2>3. \A p \in Owners : Paid(p)'
      BY <1>1, <2>1 DEF Charges, Paid, In
    <2>4. ASSUME NEW p \in alive' PROVE OnePayer(p)'
      <3>1. p \in alive /\ p # target[a] /\ p \in Owners
        BY <1>3 DEF Typed, BackendTyped
      <3>2. PICK i \in Owners \cup Attempts :
              Pays(i, p) /\ \A j \in Owners \cup Attempts : Pays(j, p) => j = i
        BY <3>1 DEF Charges, OnePayer
      <3>3. \A j \in Owners \cup Attempts : Pays(j, p)' <=> Pays(j, p)
        BY <1>1, <2>1, <3>1 DEF Pays
      <3> QED
        BY <3>2, <3>3 DEF OnePayer
    <2> QED
      BY <2>2, <2>3, <2>4 DEF Charges
  <1> QED
    BY <1>2, <1>3 DEF CreationFails

LEMMA ResetCharges ==
    ASSUME Typed, Typed', Seats, Charges, NEW a \in Attempts, ResetStops(a) \/ ResetParks(a)
    PROVE  Charges'
  <1>1. PICK o \in Owners : o = target[a] /\ In(o, {"resetting"}) /\ owner[a] \in {o, Nobody}
    BY DEF ResetStops, ResetParks, Seats, Placed, Serving, UserPositions, Charges, Paying
  <1>2. /\ pool' = pool /\ alive' = alive /\ target' = target /\ a \notin Owners /\ Nobody \notin Owners
        /\ \A b \in Attempts \ {a} : pc'[b] = pc[b]
        /\ \A b \in Attempts \ {a} : owner'[b] = owner[b]
    BY Disjoint, PoolAssumption
       DEF ResetStops, ResetParks, Goes, Typed, ThreadsTyped, BackendTyped, Threads, Owners
  <1>3. \A b \in Attempts \ {a} : pc[b] \in Serving => target[b] # o /\ target[b] \in Owners
    BY <1>1 DEF ResetStops, ResetParks, Seats, Apart, Placed, Serving, UserPositions
  <1>4. /\ \A i \in (Owners \cup Attempts) \ {a, o} :
              /\ i \in DOMAIN reserved' <=> i \in DOMAIN reserved
              /\ i \in DOMAIN reserved => reserved'[i] = reserved[i]
        /\ o \in DOMAIN reserved'
    BY <1>1, <1>2 DEF ResetStops, ResetParks, With, Without
  <1>5. ASSUME NEW b \in Attempts PROVE Paying(b)'
    <2>1. CASE b = a
      <3>1. CASE ResetStops(a)
        <4>1. pc'[a] = "wiping" /\ owner' = owner /\ reserved'[o] = 1
          BY <1>1, <3>1 DEF ResetStops, Goes, With, Typed, ThreadsTyped, Threads
        <4> QED
          BY <1>1, <1>2, <1>4, <2>1, <4>1 DEF Paying
      <3>2. CASE ResetParks(a)
        <4>1. pc'[a] = "parking"
          BY <3>2 DEF ResetParks, Goes, Typed, ThreadsTyped, Threads
        <4> QED
          BY <1>1, <1>2, <1>4, <2>1, <4>1 DEF Paying
      <3> QED
        BY <3>1, <3>2
    <2>2. CASE b # a
      <3>1. Paying(b) /\ b \notin Owners /\ b \in Owners \cup Attempts
        BY Disjoint DEF Charges
      <3> QED
        BY <1>1, <1>2, <1>3, <1>4, <2>2, <3>1 DEF Paying, Serving, UserPositions
    <2> QED
      BY <2>1, <2>2
  <1>6. ASSUME NEW p \in Owners PROVE Paid(p)'
    <2>1. Paid(p) /\ p # a
      BY <1>2 DEF Charges
    <2> QED
      BY <1>1, <1>2, <1>4, <2>1 DEF Paid, In
  <1>7. ASSUME NEW p \in alive' PROVE OnePayer(p)'
    <2>0. p \in Owners
      BY <1>2 DEF Typed, BackendTyped
    <2>1. PICK i \in Owners \cup Attempts :
            Pays(i, p) /\ \A j \in Owners \cup Attempts : Pays(j, p) => j = i
      BY <1>2 DEF Charges, OnePayer
    <2>2. CASE p = o
      <3>1. CASE ResetStops(a)
        <4>1. i = a
          BY <1>1, <2>1, <2>2, <3>1 DEF ResetStops, Charges, Paying, Pays
        <4>2. a \notin DOMAIN reserved'
          BY <1>1, <1>2, <3>1 DEF ResetStops, With, Without
        <4>3. \A j \in Owners \cup Attempts : Pays(j, o)' => j = o
          BY <1>2, <1>4, <2>1, <2>2, <4>1, <4>2 DEF Pays
        <4> QED
          BY <1>4, <2>2, <4>3 DEF OnePayer, Pays
      <3>2. CASE ResetParks(a)
        <4>1. i = o
          BY <1>1, <2>1, <2>2, <3>2 DEF ResetParks, Charges, Paying, Pays
        <4>2. owner'[a] = Nobody
          BY <3>2 DEF ResetParks, Typed, BackendTyped
        <4>3. \A j \in Owners \cup Attempts : Pays(j, o)' => j = o
          BY <1>2, <1>4, <2>1, <2>2, <4>1, <4>2 DEF Pays
        <4> QED
          BY <1>4, <2>2, <4>3 DEF OnePayer, Pays
      <3> QED
        BY <3>1, <3>2
    <2>3. CASE p # o
      <3>1. owner'[a] \in {o, Nobody}
        BY <1>1 DEF ResetStops, ResetParks, Typed, BackendTyped
      <3>2. \A j \in Owners \cup Attempts : Pays(j, p)' <=> Pays(j, p)
        BY <1>1, <1>2, <1>4, <2>0, <2>3, <3>1, Disjoint DEF Pays
      <3> QED
        BY <2>1, <3>2 DEF OnePayer
    <2> QED
      BY <2>2, <2>3
  <1> QED
    BY <1>5, <1>6, <1>7 DEF Charges

LEMMA DestroyCharges ==
    ASSUME Typed, Typed', Seats, Charges, NEW a \in Attempts, Destroyed(a)
    PROVE  Charges'
  <1>1. PICK o \in Owners : o = target[a] /\ Out(o, {"retiring", "blocked"}) /\ owner[a] \in {o, Nobody}
    BY DEF Destroyed, Seats, Placed, Serving, UserPositions, Charges, Paying
  <1>2. /\ pool' = pool /\ alive' = alive \ {o} /\ a \notin Owners /\ Nobody \notin Owners
        /\ reserved' = Without(Without(reserved, o), a)
        /\ pc'[a] = "ended" /\ owner'[a] = Nobody
        /\ \A b \in Attempts \ {a} : Stands(b) /\ owner'[b] = owner[b]
    BY <1>1, Disjoint, PoolAssumption
       DEF Destroyed, Rests, Stands, Typed, ThreadsTyped, BackendTyped, Threads, Owners
  <1>3. \A b \in Attempts \ {a} : pc[b] \in Serving => target[b] # o /\ target[b] \in Owners
    BY <1>1 DEF Destroyed, Seats, Apart, Placed, Serving, UserPositions
  <1>4. /\ DOMAIN reserved' = DOMAIN reserved \ {o, a}
        /\ \A i \in DOMAIN reserved \ {o, a} : reserved'[i] = reserved[i]
    BY <1>2 DEF Without
  <1>5. ASSUME NEW b \in Attempts PROVE Paying(b)'
    <2>1. CASE b = a
      BY <1>2, <2>1 DEF Paying
    <2>2. CASE b # a
      <3>1. Paying(b) /\ b \notin Owners /\ Stands(b)
        BY <1>2, <2>2, Disjoint DEF Charges
      <3> QED
        BY <1>2, <1>3, <1>4, <2>2, <3>1 DEF Paying, Stands, Serving, UserPositions
    <2> QED
      BY <2>1, <2>2
  <1>6. \A p \in Owners : Paid(p)'
    BY <1>1, <1>2, <1>4 DEF Charges, Paid, In, Out
  <1>7. ASSUME NEW p \in alive' PROVE OnePayer(p)'
    <2>1. p \in alive /\ p # o /\ p \in Owners
      BY <1>2 DEF Typed, BackendTyped
    <2>2. PICK i \in Owners \cup Attempts :
            Pays(i, p) /\ \A j \in Owners \cup Attempts : Pays(j, p) => j = i
      BY <2>1 DEF Charges, OnePayer
    <2>3. \A j \in Owners \cup Attempts : Pays(j, p)' <=> Pays(j, p)
      BY <1>1, <1>2, <1>4, <2>1, Disjoint DEF Pays
    <2> QED
      BY <2>2, <2>3 DEF OnePayer
  <1> QED
    BY <1>5, <1>6, <1>7 DEF Charges

LEMMA RemoveCharges ==
    ASSUME Typed, Typed', Seats, Charges, NEW a \in Attempts, Removed(a)
    PROVE  Charges'
  <1>1. /\ pool' = pool /\ alive' = alive \ {owner[a]} /\ a \notin Owners /\ Nobody \notin Owners
        /\ reserved' = Without(reserved, a)
        /\ pc'[a] \in {"aborted", "blocked"} /\ owner'[a] = Nobody
        /\ \A b \in Attempts \ {a} : Stands(b) /\ owner'[b] = owner[b]
    BY Disjoint, PoolAssumption
       DEF Removed, Stands, Typed, ThreadsTyped, BackendTyped, Threads, Owners
  <1>2. /\ DOMAIN reserved' = DOMAIN reserved \ {a}
        /\ \A i \in DOMAIN reserved \ {a} : reserved'[i] = reserved[i]
    BY <1>1 DEF Without
  <1>3. ASSUME NEW b \in Attempts PROVE Paying(b)'
    <2>1. CASE b = a
      BY <1>1, <2>1 DEF Paying
    <2>2. CASE b # a
      <3>1. Paying(b) /\ Stands(b) /\ (pc[b] \in Serving => target[b] \in Owners)
        BY <1>1, <2>2 DEF Charges, Seats, Placed
      <3> QED
        BY <1>1, <1>2, <2>2, <3>1 DEF Paying, Stands, Serving, UserPositions
    <2> QED
      BY <2>1, <2>2
  <1>4. \A p \in Owners : Paid(p)'
    BY <1>1, <1>2 DEF Charges, Paid, In
  <1>5. ASSUME NEW p \in alive' PROVE OnePayer(p)'
    <2>1. p \in alive /\ p # owner[a] /\ p \in Owners
      BY <1>1 DEF Typed, BackendTyped
    <2>2. PICK i \in Owners \cup Attempts :
            Pays(i, p) /\ \A j \in Owners \cup Attempts : Pays(j, p) => j = i
      BY <2>1 DEF Charges, OnePayer
    <2>3. \A j \in Owners \cup Attempts : Pays(j, p)' <=> Pays(j, p)
      BY <1>1, <1>2, <2>1 DEF Pays
    <2> QED
      BY <2>2, <2>3 DEF OnePayer
  <1> QED
    BY <1>3, <1>4, <1>5 DEF Charges

\* Nobody uses a Worker that is being retired, except to wait for it.
LEMMA RetirementIsUnused ==
    ASSUME Typed, Seats, NEW o \in Owners, In(o, {"retiring"}), pc' = Notified(pc), NEW b \in Attempts
    PROVE  /\ pc'[b] \in UserPositions => pc'[b] = pc[b] /\ target[b] \in Owners
           /\ pc'[b] \in UserPositions \ {"destroying"} => target[b] # o
           /\ pc'[b] \in Admitting => pc[b] \in Admitting
  <1>1. b \in Threads
    BY DEF Threads
  <1>2. /\ pc'[b] \in UserPositions => pc'[b] = pc[b]
        /\ pc'[b] \in Admitting => pc[b] \in Admitting
    BY <1>1, NotifiedTyped DEF Typed, ThreadsTyped, UserPositions, Admitting, Sleeping, Places,
       Notified, Roused
  <1>3. Placed(b)
    BY DEF Seats
  <1> QED
    BY <1>2, <1>3 DEF Placed, In, Out, Serving, UserPositions

LEMMA RetireCharges ==
    ASSUME Typed, Typed', Seats, Charges, NEW o \in Owners, Retires(o)
    PROVE  Charges'
  <1>1. PICK t \in Janitors : Retired(t, o) \/ CleanupBlocked(t, o)
    BY DEF Retires
  <1>2. /\ In(o, {"retiring"}) /\ pc' = Notified(pc) /\ target' = target
        /\ Nobody \notin Owners /\ o # Nobody
    BY <1>1, PoolAssumption DEF Retired, CleanupBlocked, Seats, Cleaning, In, Owners
  <1>3. /\ Charge(o) = o \/ (Charge(o) \in Attempts /\ owner[Charge(o)] = o)
        /\ Charge(o) # o => o \notin DOMAIN reserved
        /\ Charge(o) = o => o \in DOMAIN reserved \/ \A b \in Attempts : owner[b] # o
    <2>1. LeasedTo(o) = {b \in Attempts : owner[b] = o}
      BY DEF LeasedTo
    <2>2. CASE o \in DOMAIN reserved \/ LeasedTo(o) = {}
      BY <2>1, <2>2 DEF Charge
    <2>3. CASE ~(o \in DOMAIN reserved \/ LeasedTo(o) = {})
      <3>1. Charge(o) = CHOOSE a \in LeasedTo(o) : TRUE
        BY <2>3 DEF Charge
      <3>2. Charge(o) \in LeasedTo(o)
        BY <2>3, <3>1
      <3> QED
        BY <2>1, <2>3, <3>2, Disjoint
    <2> QED
      BY <2>2, <2>3
  <1> DEFINE c == Charge(o)
  <1>4. /\ \A i \in (Owners \cup Attempts) \ {c, o} :
              /\ i \in DOMAIN reserved' <=> i \in DOMAIN reserved
              /\ i \in DOMAIN reserved => reserved'[i] = reserved[i]
        /\ \A b \in Attempts : owner'[b] = owner[b] \/ (owner[b] = o /\ owner'[b] = Nobody)
    <2>1. \A b \in Attempts : Unmapped(o)[b] = IF owner[b] = o THEN Nobody ELSE owner[b]
      BY DEF Unmapped
    <2>2. CASE Retired(t, o)
      BY <2>1, <2>2 DEF Retired, Without
    <2>3. CASE CleanupBlocked(t, o)
      <3>1. reserved' = reserved \/ reserved' = With(Without(reserved, c), o, reserved[c])
        BY <2>3 DEF CleanupBlocked
      <3>2. owner' = owner \/ owner' = Unmapped(o)
        BY <2>3 DEF CleanupBlocked
      <3> QED
        BY <2>1, <3>1, <3>2 DEF With, Without
    <2> QED
      BY <1>1, <2>2, <2>3
  <1>5. ASSUME NEW b \in Attempts PROVE Paying(b)'
    <2>1. Paying(b) /\ b \notin Owners /\ b # o
      BY Disjoint DEF Charges
    <2>2. /\ pc'[b] \in UserPositions => pc'[b] = pc[b] /\ target[b] \in Owners
          /\ pc'[b] \in UserPositions \ {"destroying"} => target[b] # o
          /\ pc'[b] \in Admitting => pc[b] \in Admitting
      BY <1>2, RetirementIsUnused
    <2>3. CASE pc'[b] \in {"bound", "creating", "leased", "resetting"}
      <3>1. owner[b] = target[b] /\ target[b] # o /\ pc'[b] = pc[b] /\ b \in DOMAIN reserved /\ reserved[b] = 1
        BY <2>1, <2>2, <2>3 DEF Paying, UserPositions
      <3>2. b # c
        BY <1>3, <2>1, <3>1
      <3> QED
        BY <1>2, <1>4, <2>1, <2>3, <3>1, <3>2 DEF Paying
    <2>4. CASE pc'[b] \in {"wiping", "binding", "parking"}
      <3>1. target[b] # o /\ target[b] \in Owners /\ pc'[b] = pc[b] /\ target[b] \in DOMAIN reserved
        BY <2>1, <2>2, <2>4 DEF Paying, UserPositions
      <3>2. target[b] # c
        BY <1>3, <3>1, Disjoint
      <3> QED
        BY <1>2, <1>4, <2>1, <2>4, <3>1, <3>2 DEF Paying
    <2>5. CASE pc'[b] = "destroying"
      BY <1>2, <1>4, <2>1, <2>2, <2>5 DEF Paying, UserPositions
    <2>6. CASE pc'[b] \in Admitting
      <3>1. b \notin DOMAIN reserved
        BY <2>1, <2>2, <2>6 DEF Paying, Admitting
      <3>2. b \notin DOMAIN reserved'
        <4>1. CASE b # c
          BY <1>4, <2>1, <3>1, <4>1
        <4>2. CASE b = c
          <5>1. CASE Retired(t, o)
            BY <3>1, <4>2, <5>1 DEF Retired, Without
          <5>2. CASE CleanupBlocked(t, o)
            BY <3>1, <4>2, <5>2 DEF CleanupBlocked, ChargeMoves
          <5> QED
            BY <1>1, <5>1, <5>2
        <4> QED
          BY <4>1, <4>2
      <3> QED
        BY <2>6, <3>2 DEF Paying, Admitting
    <2>7. CASE pc'[b] \notin UserPositions \cup Admitting
      BY <2>7 DEF Paying, UserPositions, Admitting
    <2> QED
      BY <2>3, <2>4, <2>5, <2>6, <2>7 DEF UserPositions
  <1>6. ASSUME NEW p \in Owners PROVE Paid(p)'
    <2>1. Paid(p)
      BY DEF Charges
    <2>2. CASE p = o
      BY <1>1, <2>2 DEF Retired, CleanupBlocked, Without, Paid, In, Typed, PoolTyped, Entry
    <2>3. CASE p # o
      <3>1. In(p, {"preparing"})' <=> In(p, {"preparing"})
        BY <1>1, <2>3 DEF Retired, CleanupBlocked, Without, In
      <3>2. In(p, {"ready", "validated"})' <=> In(p, {"ready", "validated"})
        BY <1>1, <2>3 DEF Retired, CleanupBlocked, Without, In
      <3>3. p # c
        BY <1>3, <2>3, Disjoint
      <3> QED
        BY <1>4, <2>1, <2>3, <3>1, <3>2, <3>3 DEF Paid
    <2> QED
      BY <2>2, <2>3
  <1>7. ASSUME NEW p \in alive' PROVE OnePayer(p)'
    <2>1. p \in alive /\ p \in Owners
      BY <1>1 DEF Retired, CleanupBlocked, Typed, BackendTyped
    <2>2. PICK i \in Owners \cup Attempts :
            Pays(i, p) /\ \A j \in Owners \cup Attempts : Pays(j, p) => j = i
      BY <2>1 DEF Charges, OnePayer
    <2>3. CASE p # o
      <3>1. \A j \in Owners \cup Attempts : Pays(j, p)' <=> Pays(j, p)
        <4> SUFFICES ASSUME NEW j \in Owners \cup Attempts PROVE Pays(j, p)' <=> Pays(j, p)
          OBVIOUS
        <4>1. CASE j = p
          <5>1. p # c
            BY <1>3, <2>1, <2>3, Disjoint
          <5> QED
            BY <1>4, <2>1, <2>3, <4>1, <5>1 DEF Pays
        <4>2. CASE j # p /\ j \in Attempts
          <5>1. owner'[j] = p <=> owner[j] = p
            BY <1>2, <1>4, <2>1, <2>3, <4>2
          <5>2. owner[j] = p => j # c /\ j # o
            BY <1>3, <2>3, <4>2, Disjoint
          <5> QED
            BY <1>4, <4>2, <5>1, <5>2 DEF Pays
        <4>3. CASE j # p /\ j \notin Attempts
          BY <4>3 DEF Pays
        <4> QED
          BY <4>1, <4>2, <4>3
      <3> QED
        BY <2>2, <3>1 DEF OnePayer
    <2>4. CASE p = o
      <3>1. CleanupBlocked(t, o)
        BY <1>1, <2>4 DEF Retired
      <3>2. CASE ChargeMoves(o)
        <4>1. /\ reserved' = With(Without(reserved, c), o, reserved[c]) /\ owner' = Unmapped(o)
              /\ o \in DOMAIN reserved'
          BY <3>1, <3>2 DEF CleanupBlocked, With
        <4>2. \A b \in Attempts : owner'[b] # o
          BY <1>2, <4>1 DEF Unmapped
        <4> QED
          BY <2>1, <2>4, <4>1, <4>2 DEF OnePayer, Pays
      <3>3. CASE ~ChargeMoves(o)
        <4>1. /\ reserved' = reserved
              /\ owner' = IF c = o THEN Unmapped(o) ELSE owner
          BY <3>1, <3>3 DEF CleanupBlocked
        <4>2. CASE c = o
          <5>1. o \in DOMAIN reserved
            BY <1>3, <2>2, <2>4, <4>2 DEF Pays
          <5>2. \A b \in Attempts : owner'[b] # o
            BY <1>2, <4>1, <4>2 DEF Unmapped
          <5> QED
            BY <2>1, <2>4, <4>1, <5>1, <5>2 DEF OnePayer, Pays
        <4>3. CASE c # o
          BY <2>2, <2>4, <4>1, <4>3 DEF OnePayer, Pays
        <4> QED
          BY <4>2, <4>3
      <3> QED
        BY <3>2, <3>3
    <2> QED
      BY <2>3, <2>4
  <1> QED
    BY <1>5, <1>6, <1>7 DEF Charges

LEMMA InitCharges == Init => Charges
  <1> SUFFICES ASSUME Init PROVE Charges
    OBVIOUS
  <1>1. PICK idle \in Inherited :
          /\ pool = [o \in 1..Len(idle) |-> Idle(idle[o])]
          /\ reserved = [o \in 1..Len(idle) |-> 0]
          /\ alive = 1..Len(idle)
    BY DEF Init
  <1>2. /\ \A a \in Attempts : pc[a] = "fresh" /\ owner[a] = Nobody
        /\ Nobody \notin Owners /\ alive \subseteq Owners
    BY <1>1, PoolAssumption DEF Init, Threads, Owners
  <1>3. \A a \in Attempts : Paying(a)
    BY <1>2 DEF Paying
  <1>4. \A o \in Owners : Paid(o)
    BY <1>1 DEF Paid, In, Idle
  <1>5. \A o \in alive : OnePayer(o)
    BY <1>1, <1>2 DEF OnePayer, Pays
  <1> QED
    BY <1>3, <1>4, <1>5 DEF Charges

LEMMA StepCharges ==
    ASSUME Typed, Typed', Seats, Charges, [Next]_vars
    PROVE  Charges'
  <1>1. CASE UNCHANGED vars
    <2>1. \A a \in Attempts : Settles(a)
      BY <1>1 DEF vars, threadVars, Settles, Stands
    <2> QED
      BY <1>1, <2>1, PoolRests, ChargesKept DEF vars, shared, backendVars
  <1>2. ASSUME NEW a \in Attempts, Requests(a) \/ Works(a) \/ Fails(a) PROVE Charges'
    <2>1. CASE Preflight(a) \/ Offers(a)
      BY <2>1, OfferCharges, StartCharges DEF Offers
    <2>2. CASE Takes(a) \/ BindFails(a)
      BY <2>2, TakeCharges, BindCharges
    <2>3. CASE Cold(a) \/ CreationFails(a)
      BY <2>3, ColdCharges, CreateCharges, FailCharges DEF Cold
    <2>4. CASE \/ ReturnSkipped(a) \/ ReturnStarts(a) \/ Returns(a) \/ ResetFails(a)
               \/ NotDestroyed(a) \/ NotRecorded(a)
      BY <2>4, ReturnCharges, ResetCharges, DestroyCharges
    <2>5. CASE CancelPending(a) \/ Aborts(a) \/ NotRemoved(a)
      BY <2>5, AbortCharges, RemoveCharges DEF Aborts
    <2> QED
      BY <1>2, <2>1, <2>2, <2>3, <2>4, <2>5 DEF Requests, Works, Fails
  <1>3. ASSUME NEW o \in Owners, Prepares(o) \/ Retires(o) \/ Expire(o) PROVE Charges'
    BY <1>3, PreparedCharges, RetireCharges DEF Prepares
  <1> QED
    BY <1>1, <1>2, <1>3, CloseCharges DEF Next

\* AliveIsCharged: what Docker holds is paid for by exactly one reservation, in full
\* while it may run, through claims, returns, failed cleanups and interruptions.
THEOREM ChargedOnce == Spec => []AliveIsCharged
  <1>1. Init => TypeOK /\ Seats /\ Charges
    BY InitTyped, InitSeats, InitCharges
  <1>2. TypeOK /\ Seats /\ Charges /\ TypeOK' /\ [Next]_vars => Charges'
    <2> SUFFICES ASSUME TypeOK, TypeOK', Seats, Charges, [Next]_vars PROVE Charges'
      OBVIOUS
    <2>1. Typed
      BY TypeSplit DEF Typed
    <2>2. Typed'
      BY StepTyped, <2>1
    <2> QED
      BY <2>1, <2>2, StepCharges
  <1>3. TypeOK /\ Seats /\ Charges => AliveIsCharged
    BY ChargesGiveCharged
  <1> QED
    BY <1>1, <1>2, <1>3, SeatsHold, PTL DEF Spec

-----------------------------------------------------------------------------
(* What an abort takes back stays back: only an attempt itself adds to what it has. *)
Withdrawing == {"withdrawing", "withdrawsleep", "removing", "reporting", "aborted"}

Withdrawn(b) ==
    /\ pc[b] \in Withdrawing => \A o \in DOMAIN pool : b \notin pool[o].interests
    /\ pc[b] = "aborted" => b \notin DOMAIN reserved /\ owner[b] = Nobody

Withdrawals == \A b \in Attempts : Withdrawn(b)

\* Attempt b gains no interest, no reservation and no Worker, and is at most notified.
Fades(b) ==
    \A o \in DOMAIN pool' : b \in pool'[o].interests => o \in DOMAIN pool /\ b \in pool[o].interests

Waits(b) ==
    /\ pc'[b] \in {pc[b], Notified(pc)[b]}
    /\ b \in DOMAIN reserved' => b \in DOMAIN reserved
    /\ owner'[b] \in {owner[b], Nobody}

LEMMA WaitsStays ==
    ASSUME Typed, NEW b \in Attempts, Withdrawn(b), Fades(b), Waits(b)
    PROVE  Withdrawn(b)'
  <1>1. b \in Threads
    BY DEF Threads
  <1>2. /\ pc'[b] \in Withdrawing => pc[b] \in Withdrawing
        /\ pc'[b] = "aborted" => pc[b] = "aborted"
    BY <1>1, NotifiedTyped DEF Typed, ThreadsTyped, Waits, Withdrawing, Sleeping
  <1>3. pc'[b] \in Withdrawing => \A o \in DOMAIN pool' : b \notin pool'[o].interests
    BY <1>2 DEF Withdrawn, Fades
  <1>4. pc'[b] = "aborted" => b \notin DOMAIN reserved' /\ owner'[b] = Nobody
    BY <1>2 DEF Withdrawn, Waits
  <1> QED
    BY <1>3, <1>4 DEF Withdrawn

\* The ways in which an entry changes.
LEMMA RetiringFades ==
    ASSUME Typed, NEW t \in Janitors, NEW o \in DOMAIN pool, Retiring(o, t), NEW b
    PROVE  Fades(b)
  <1>1. /\ DOMAIN pool' = DOMAIN pool
        /\ \A p \in DOMAIN pool \ {o} : pool'[p] = pool[p]
        /\ pool'[o].interests = pool[o].interests
    BY RetiringTyped DEF Typed
  <1> QED
    BY <1>1 DEF Fades

LEMMA EvictFades ==
    ASSUME Typed, NEW t, NEW pressure, NEW place, EvictIdle(t, pressure, place), NEW b
    PROVE  Fades(b)
  <1>1. DOMAIN pool' = DOMAIN pool
    BY DEF EvictIdle
  <1>2. ASSUME NEW o \in DOMAIN pool PROVE pool'[o].interests = pool[o].interests
    <2>1. pool[o] \in Entry
      BY DEF Typed, PoolTyped
    <2>2. \/ pool'[o] = pool[o]
          \/ pool'[o] = [pool[o] EXCEPT !.reason = "other", !.state = "retiring"]
          \/ pool'[o] = [pool[o] EXCEPT !.reason = "other", !.state = @]
      BY DEF EvictIdle
    <2> QED
      BY <2>1, <2>2 DEF Entry
  <1> QED
    BY <1>1, <1>2 DEF Fades

LEMMA FieldFades ==
    ASSUME Typed, NEW o \in DOMAIN pool, NEW e, pool' = [pool EXCEPT ![o] = e],
           NEW b, b \in e.interests => b \in pool[o].interests
    PROVE  Fades(b)
  <1>1. /\ DOMAIN pool' = DOMAIN pool /\ pool'[o] = e
        /\ \A p \in DOMAIN pool \ {o} : pool'[p] = pool[p]
    OBVIOUS
  <1> QED
    BY <1>1 DEF Fades

LEMMA PoolFades == ASSUME pool' = pool, NEW b PROVE Fades(b)
  BY DEF Fades

LEMMA LeavesFades ==
    ASSUME Typed, NEW a \in Attempts, NEW place, Leaves(a, place), NEW b
    PROVE  Fades(b)
  <1>1. CASE pool' = pool
    BY <1>1, PoolFades
  <1>2. CASE target[a] \in DOMAIN pool /\ pool' = [pool EXCEPT ![target[a]].waiting = Nobody]
    <2>1. pool[target[a]] \in Entry
      BY <1>2 DEF Typed, PoolTyped
    <2>2. /\ pool' = [pool EXCEPT ![target[a]] = [pool[target[a]] EXCEPT !.waiting = Nobody]]
          /\ [pool[target[a]] EXCEPT !.waiting = Nobody].interests = pool[target[a]].interests
      BY <1>2, <2>1 DEF Entry
    <2> QED
      BY <1>2, <2>2, FieldFades
  <1> QED
    BY <1>1, <1>2 DEF Leaves, Unmarked

\* The other attempts, while one of them acts.
LEMMA OthersWait ==
    ASSUME Typed, Seats, NEW a \in Attempts, Requests(a) \/ Works(a) \/ Fails(a),
           NEW b \in Attempts \ {a}
    PROVE  Waits(b)
  <1>0. /\ a \in Threads /\ b \in Threads /\ b \notin Owners
        /\ pc \in [Threads -> Places] /\ Notified(pc) \in [Threads -> Places]
        /\ owner \in [Attempts -> Owners \cup {Nobody}]
    BY Disjoint, NotifiedTyped DEF Threads, Typed, ThreadsTyped, BackendTyped
  <1>1. CASE Requests(a) \/ Offers(a)
    BY <1>0, <1>1 DEF Requests, Preflight, ReturnSkipped, ReturnStarts, CancelPending, Offers, OfferSkipped,
         OfferMerged, OfferReplaces, OfferAgain, OfferStarts, Moves, Goes, Waits, With, shared, backendVars
  <1>2. CASE Takes(a)
    <2>1. ASSUME NEW place, Leaves(a, place) PROVE Waits(b)
      BY <1>0, <2>1 DEF Leaves, Waits, backendVars
    <2>2. CASE TakeRefused(a) \/ TakeAwaitsRetirement(a) \/ TakeFallsBack(a) \/ TakeMisses(a)
      BY <1>0, <2>1, <2>2 DEF TakeRefused, TakeAwaitsRetirement, TakeFallsBack, TakeMisses, Goes, Rests,
           shared, backendVars, Waits
    <2>3. CASE TakeQueues(a) \/ TakeClaims(a) \/ TakeDeadline(a)
      BY <1>0, <2>3 DEF TakeQueues, TakeClaims, TakeDeadline, Moves, Goes, shared, backendVars, Waits
    <2>4. CASE Bind(a)
      BY <1>0, <2>4 DEF Bind, Goes, Waits, With, Without
    <2>5. CASE BindRefused(a) \/ Claimed(a) \/ ClaimRetired(a) \/ ClaimEnds(a)
      BY <1>0, <2>5 DEF BindRefused, Claimed, ClaimRetired, ClaimEnds, Rejects, Waits, backendVars
    <2> QED
      BY <1>2, <2>2, <2>3, <2>4, <2>5 DEF Takes
  <1>3. CASE Cold(a)
    <2>1. ASSUME Creates(a) PROVE Waits(b)
      BY <1>0, <2>1 DEF Creates, Waits, With
    <2>2. CASE ColdDrains(a)
      BY <1>0, <2>2 DEF ColdDrains, EvictIdle, Waits, backendVars
    <2>3. CASE ColdRefused(a) \/ DrainSleeps(a) \/ DrainEnds(a) \/ ColdNotAdmitted(a) \/ Created(a)
      BY <1>0, <2>3 DEF ColdRefused, DrainSleeps, DrainEnds, ColdNotAdmitted, Created, Sleeps, Waited,
           Moves, Goes, shared, backendVars, Waits
    <2> QED
      BY <1>3, <2>1, <2>2, <2>3 DEF Cold, ColdAtOnce, ColdAdmitted
  <1>4. CASE Returns(a)
    <2>1. CASE ResetStops(a) \/ ResetParks(a)
      <3>1. target[a] \in Owners
        BY <2>1 DEF ResetStops, ResetParks, Seats, Placed, Serving, UserPositions
      <3> QED
        BY <1>0, <2>1, <3>1 DEF ResetStops, ResetParks, Goes, Waits, With, Without
    <2>2. CASE ResetVerified(a) \/ ResetInterrupted(a) \/ Destroyed(a)
      BY <1>0, <2>2 DEF ResetVerified, ResetInterrupted, Destroyed, Rejects, Rests, Waits, Without, backendVars
    <2>3. CASE Publish(a) \/ NothingToPublish(a) \/ Published(a)
      BY <1>0, <2>3 DEF Publish, NothingToPublish, Published, Rests, Moves, Goes, Waits, shared, backendVars
    <2> QED
      BY <1>4, <2>1, <2>2, <2>3 DEF Returns
  <1>5. CASE Aborts(a)
    BY <1>0, <1>5 DEF Aborts, Withdraw, WithdrawSleeps, WithdrawEnds, Removed, Sleeps, Waited, Goes,
         Waits, Without, shared, backendVars
  <1>6. CASE Fails(a)
    <2>1. CASE BindFails(a) \/ ResetFails(a) \/ NotDestroyed(a)
      BY <1>0, <2>1 DEF BindFails, ResetFails, NotDestroyed, Rejects, Rests, Waits, backendVars
    <2>2. CASE CreationFails(a) \/ NotRecorded(a) \/ NotRemoved(a)
      BY <1>0, <2>2 DEF CreationFails, NotRecorded, NotRemoved, Rests, Goes, Waits, Without, backendVars
    <2> QED
      BY <1>6, <2>1, <2>2 DEF Fails
  <1> QED
    BY <1>1, <1>2, <1>3, <1>4, <1>5, <1>6 DEF Works

LEMMA OthersFade ==
    ASSUME Typed, Seats, NEW a \in Attempts, Requests(a) \/ Works(a) \/ Fails(a),
           NEW b \in Attempts \ {a}
    PROVE  Fades(b)
  <1>0. a \in Threads /\ a \in Janitors /\ \A o \in DOMAIN pool : pool[o] \in Entry /\ o \in Owners
    BY DEF Threads, Janitors, Typed, PoolTyped
  <1>1. CASE Requests(a) \/ Offers(a)
    <2>1. CASE OfferMerged(a)
      <3>1. PICK o \in Joinable(a) :
              pool' = [pool EXCEPT ![o].interests = IF Cardinality(@) < Capacity THEN @ \cup {a} ELSE @]
        BY <2>1 DEF OfferMerged
      <3>2. o \in DOMAIN pool /\ pool[o] \in Entry
        BY <1>0 DEF Joinable, EntriesIn
      <3>3. PICK s : /\ pool' = [pool EXCEPT ![o] = [pool[o] EXCEPT !.interests = s]]
                     /\ s = IF Cardinality(pool[o].interests) < Capacity
                            THEN pool[o].interests \cup {a} ELSE pool[o].interests
        BY <3>1, <3>2
      <3>4. b \in [pool[o] EXCEPT !.interests = s].interests => b \in pool[o].interests
        BY <3>2, <3>3 DEF Entry
      <3> QED
        BY <3>2, <3>3, <3>4, FieldFades
    <2>2. CASE OfferReplaces(a)
      BY <1>0, <2>2, RetiringFades DEF OfferReplaces, Replaceable, EntriesIn
    <2>3. CASE OfferStarts(a) \/ ReturnStarts(a)
      <3>1. PICK o, e : pool' = With(pool, o, e) /\ e.interests = {a}
        BY <2>3 DEF OfferStarts, ReturnStarts
      <3> QED
        BY <3>1 DEF Fades, With
    <2>4. CASE CancelPending(a)
      BY <2>4, CancelKeepsEntries DEF CancelPending, Typed, Fades
    <2>5. CASE Preflight(a) \/ OfferSkipped(a) \/ OfferAgain(a) \/ ReturnSkipped(a)
      BY <2>5, PoolFades DEF Preflight, OfferSkipped, OfferAgain, ReturnSkipped, Moves, shared
    <2> QED
      BY <1>1, <2>1, <2>2, <2>3, <2>4, <2>5 DEF Requests, Offers
  <1>2. ASSUME NEW place, Rejects(a, place), target[a] \in DOMAIN pool PROVE Fades(b)
    BY <1>0, <1>2, RetiringFades DEF Rejects
  <1>3. pc[a] \in {"binding", "bound", "resetting", "wiping", "parking"} => target[a] \in DOMAIN pool
    BY DEF Seats, Placed, In
  <1>4. CASE Takes(a) \/ BindFails(a)
    <2>1. CASE TakeRefused(a) \/ TakeAwaitsRetirement(a) \/ TakeFallsBack(a) \/ TakeMisses(a)
      BY <2>1, LeavesFades, PoolFades
         DEF TakeRefused, TakeAwaitsRetirement, TakeFallsBack, TakeMisses, shared
    <2>2. CASE TakeQueues(a) \/ TakeClaims(a)
      <3>1. PICK o \in Claimable(a) : \E w :
              \/ pool' = [pool EXCEPT ![o].waiting = w]
              \/ pool' = [pool EXCEPT ![o].state = "claiming", ![o].waiting = w]
        BY <2>2 DEF TakeQueues, TakeClaims
      <3>2. o \in DOMAIN pool /\ pool[o] \in Entry
        BY <1>0 DEF Claimable
      <3>3. PICK w :
              \/ pool' = [pool EXCEPT ![o].waiting = w]
              \/ pool' = [pool EXCEPT ![o].state = "claiming", ![o].waiting = w]
        BY <3>1
      <3>4. PICK e : pool' = [pool EXCEPT ![o] = e] /\ e.interests = pool[o].interests
        BY <3>2, <3>3 DEF Entry
      <3> QED
        BY <3>2, <3>4, FieldFades
    <2>3. CASE Claimed(a)
      BY <2>3 DEF Claimed, Fades, Without
    <2>4. CASE BindRefused(a) \/ ClaimRetired(a) \/ BindFails(a)
      BY <1>2, <1>3, <2>4 DEF BindRefused, ClaimRetired, BindFails
    <2>5. CASE TakeDeadline(a) \/ Bind(a) \/ ClaimEnds(a)
      BY <2>5, PoolFades DEF TakeDeadline, Bind, ClaimEnds, Moves, shared
    <2> QED
      BY <1>4, <2>1, <2>2, <2>3, <2>4, <2>5 DEF Takes
  <1>5. CASE Cold(a) \/ CreationFails(a)
    <2>1. CASE ColdDrains(a)
      BY <2>1, EvictFades DEF ColdDrains
    <2>2. CASE Creates(a) \/ CreationFails(a)
      BY <2>2, PoolFades DEF Creates, CreationFails
    <2>3. CASE ColdRefused(a) \/ DrainSleeps(a) \/ DrainEnds(a) \/ ColdNotAdmitted(a) \/ Created(a)
      BY <2>3, PoolFades DEF ColdRefused, DrainSleeps, DrainEnds, ColdNotAdmitted, Created, Sleeps, Waited,
           Moves, shared
    <2> QED
      BY <1>5, <2>1, <2>2, <2>3 DEF Cold, ColdAtOnce, ColdAdmitted
  <1>6. CASE Returns(a) \/ ResetFails(a) \/ NotDestroyed(a) \/ NotRecorded(a)
    <2>1. CASE ResetVerified(a)
      <3>1. target[a] \in DOMAIN pool /\ pool[target[a]] \in Entry
        BY <1>0, <1>3, <2>1 DEF ResetVerified
      <3>2. pool' = [pool EXCEPT ![target[a]] =
                      [pool[target[a]] EXCEPT !.state = "validated", !.parked = TRUE]]
        BY <2>1, <3>1 DEF ResetVerified
      <3>3. [pool[target[a]] EXCEPT !.state = "validated", !.parked = TRUE].interests = pool[target[a]].interests
        BY <3>1 DEF Entry
      <3> QED
        BY <3>1, <3>2, <3>3, FieldFades
    <2>2. CASE Publish(a)
      <3>1. target[a] \in DOMAIN pool /\ pool[target[a]] \in Entry
        BY <1>0, <2>2 DEF Publish, EntriesIn
      <3>2. PICK s : pool' = [pool EXCEPT ![target[a]] =
                                [pool[target[a]] EXCEPT !.state = s, !.interests = {}]]
        BY <2>2, <3>1 DEF Publish
      <3>3. [pool[target[a]] EXCEPT !.state = s, !.interests = {}].interests = {}
        BY <3>1 DEF Entry
      <3> QED
        BY <3>1, <3>2, <3>3, FieldFades
    <2>3. CASE ResetInterrupted(a) \/ ResetFails(a)
      BY <1>2, <1>3, <2>3 DEF ResetInterrupted, ResetFails
    <2>4. CASE \/ ResetStops(a) \/ ResetParks(a) \/ Destroyed(a) \/ NothingToPublish(a) \/ Published(a)
               \/ NotDestroyed(a) \/ NotRecorded(a)
      BY <2>4, PoolFades DEF ResetStops, ResetParks, Destroyed, NothingToPublish, Published, NotDestroyed,
           NotRecorded, Moves, shared
    <2> QED
      BY <1>6, <2>1, <2>2, <2>3, <2>4 DEF Returns
  <1>7. CASE Aborts(a) \/ NotRemoved(a)
    <2>1. CASE Withdraw(a)
      <3>1. Abandoned(a) \cap EntriesIn(AtRest) \in SUBSET Owners
        BY <1>0 DEF Abandoned
      <3> QED
        BY <2>1, <3>1, CancelKeepsEntries DEF Withdraw, Typed, Fades
    <2>2. CASE WithdrawSleeps(a) \/ WithdrawEnds(a) \/ Removed(a) \/ NotRemoved(a)
      BY <2>2, PoolFades DEF WithdrawSleeps, WithdrawEnds, Removed, NotRemoved, Sleeps, Waited, shared
    <2> QED
      BY <1>7, <2>1, <2>2 DEF Aborts
  <1> QED
    BY <1>1, <1>4, <1>5, <1>6, <1>7 DEF Requests, Works, Fails

\* The attempt that acts: it withdraws for good, or goes where it may add again.
LEMMA WithdrawsAlone ==
    ASSUME Typed, Seats, NEW a \in Attempts, Withdrawn(a), CancelPending(a) \/ Aborts(a) \/ NotRemoved(a)
    PROVE  Withdrawn(a)'
  <1>0. /\ a \in Threads /\ pc \in [Threads -> Places] /\ Notified(pc) \in [Threads -> Places]
        /\ owner \in [Attempts -> Owners \cup {Nobody}]
    BY NotifiedTyped DEF Threads, Typed, ThreadsTyped, BackendTyped
  <1>1. CASE CancelPending(a)
    <2>1. Fades(a)
      BY <1>1, CancelKeepsEntries DEF CancelPending, Typed, Fades
    <2>2. Waits(a)
      BY <1>1 DEF CancelPending, Waits
    <2> QED
      BY <2>1, <2>2, WaitsStays
  <1>2. CASE Withdraw(a)
    <2>1. Abandoned(a) \cap EntriesIn(AtRest) \in SUBSET Owners
      BY DEF Abandoned, Typed, PoolTyped
    <2>2. \A o \in DOMAIN pool' : a \notin pool'[o].interests
      BY <1>2, <2>1, CancelKeepsEntries DEF Withdraw, Typed
    <2>3. pc'[a] = "withdrawing"
      BY <1>0, <1>2 DEF Withdraw
    <2> QED
      BY <2>2, <2>3 DEF Withdrawn
  <1>3. CASE WithdrawSleeps(a) \/ WithdrawEnds(a) \/ Removed(a) \/ NotRemoved(a)
    <2>1. pool' = pool /\ pc[a] \in Withdrawing
      BY <1>3 DEF WithdrawSleeps, WithdrawEnds, Removed, NotRemoved, Sleeps, Waited, shared, Withdrawing
    <2>2. pc'[a] = "aborted" => Removed(a)
      BY <1>0, <1>3 DEF WithdrawSleeps, WithdrawEnds, NotRemoved, Sleeps, Waited, Goes
    <2>3. Removed(a) => a \notin DOMAIN reserved' /\ owner'[a] = Nobody
      BY <1>0 DEF Removed, Without
    <2> QED
      BY <2>1, <2>2, <2>3 DEF Withdrawn
  <1> QED
    BY <1>1, <1>2, <1>3 DEF Aborts

LEMMA ActsElsewhere ==
    ASSUME Typed, NEW a \in Attempts, Requests(a) \/ Works(a) \/ Fails(a),
           ~(CancelPending(a) \/ Aborts(a) \/ NotRemoved(a))
    PROVE  pc'[a] \notin Withdrawing
  <1>0. /\ a \in Threads /\ pc \in [Threads -> Places] /\ Notified(pc) \in [Threads -> Places]
    BY NotifiedTyped DEF Threads, Typed, ThreadsTyped
  <1>1. CASE Requests(a) \/ Offers(a)
    BY <1>0, <1>1 DEF Requests, Preflight, ReturnSkipped, ReturnStarts, Offers, OfferSkipped,
         OfferMerged, OfferReplaces, OfferAgain, OfferStarts, Moves, Goes, Withdrawing
  <1>2. CASE Takes(a)
    <2>1. CASE TakeRefused(a) \/ TakeAwaitsRetirement(a) \/ TakeFallsBack(a) \/ TakeMisses(a)
      BY <1>0, <2>1 DEF TakeRefused, TakeAwaitsRetirement, TakeFallsBack, TakeMisses, Leaves, Goes, Rests,
           Withdrawing
    <2>2. CASE TakeQueues(a) \/ TakeClaims(a) \/ TakeDeadline(a) \/ Bind(a)
      BY <1>0, <2>2 DEF TakeQueues, TakeClaims, TakeDeadline, Bind, Moves, Goes, Withdrawing
    <2>3. CASE BindRefused(a) \/ Claimed(a) \/ ClaimRetired(a) \/ ClaimEnds(a)
      BY <1>0, <2>3 DEF BindRefused, Claimed, ClaimRetired, ClaimEnds, Rejects, Withdrawing
    <2> QED
      BY <1>2, <2>1, <2>2, <2>3 DEF Takes
  <1>3. CASE Cold(a)
    BY <1>0, <1>3 DEF Cold, ColdAtOnce, ColdDrains, ColdRefused, DrainSleeps, DrainEnds, ColdAdmitted,
         ColdNotAdmitted, Created, Creates, EvictIdle, Sleeps, Waited, Moves, Goes, Withdrawing
  <1>4. CASE Returns(a)
    BY <1>0, <1>4 DEF Returns, ResetStops, ResetParks, ResetVerified, ResetInterrupted, Destroyed, Publish,
         NothingToPublish, Published, Rejects, Rests, Moves, Goes, Withdrawing
  <1>5. CASE BindFails(a) \/ CreationFails(a) \/ ResetFails(a) \/ NotDestroyed(a) \/ NotRecorded(a)
    BY <1>0, <1>5 DEF BindFails, CreationFails, ResetFails, NotDestroyed, NotRecorded, Rejects, Rests,
         Withdrawing
  <1> QED
    BY <1>1, <1>2, <1>3, <1>4, <1>5 DEF Requests, Works, Fails

LEMMA OutsidersWait ==
    ASSUME Typed, Seats, NEW b \in Attempts,
           (\E o \in Owners : Prepares(o) \/ Retires(o) \/ Expire(o)) \/ Closes
    PROVE  Fades(b) /\ Waits(b)
  <1>0. /\ b \in Threads /\ b \notin Owners /\ Background \in Janitors
        /\ Closer \in Threads /\ Closer \notin Attempts
        /\ pc \in [Threads -> Places] /\ Notified(pc) \in [Threads -> Places]
        /\ owner \in [Attempts -> Owners \cup {Nobody}]
    BY Disjoint, NotifiedTyped, PoolAssumption DEF Threads, Janitors, Typed, ThreadsTyped, BackendTyped
  <1>1. ASSUME NEW o \in Owners, Prepares(o) \/ Expire(o) PROVE Fades(b) /\ Waits(b)
    <2>1. Waits(b)
      BY <1>0, <1>1 DEF Prepares, Prepared, PrepareFails, Expire, Waits, backendVars
    <2>2. o \in DOMAIN pool /\ pool[o] \in Entry
      BY <1>1 DEF Prepares, Prepared, PrepareFails, Expire, EntriesIn, Typed, PoolTyped
    <2>3. CASE Prepared(o)
      <3>1. PICK s : pool' = [pool EXCEPT ![o] = [pool[o] EXCEPT !.state = s]]
        BY <2>2, <2>3 DEF Prepared
      <3>2. [pool[o] EXCEPT !.state = s].interests = pool[o].interests
        BY <2>2 DEF Entry
      <3> QED
        BY <2>1, <2>2, <3>1, <3>2, FieldFades
    <2>4. CASE PrepareFails(o) \/ Expire(o)
      BY <1>0, <2>1, <2>2, <2>4, RetiringFades DEF PrepareFails, Expire
    <2> QED
      BY <1>1, <2>3, <2>4 DEF Prepares
  <1>2. ASSUME NEW o \in Owners, NEW t \in Janitors, Retired(t, o) PROVE Fades(b) /\ Waits(b)
    BY <1>0, <1>2 DEF Retired, Fades, Waits, Without, Unmapped
  <1>3. ASSUME NEW o \in Owners, NEW t \in Janitors, CleanupBlocked(t, o) PROVE Fades(b) /\ Waits(b)
    <2>1. o \in DOMAIN pool /\ pool[o] \in Entry
      BY <1>3 DEF CleanupBlocked, Seats, Cleaning, In, Typed, PoolTyped
    <2>2. /\ pool' = [pool EXCEPT ![o] = [pool[o] EXCEPT !.state = "blocked"]]
          /\ [pool[o] EXCEPT !.state = "blocked"].interests = pool[o].interests
      BY <1>3, <2>1 DEF CleanupBlocked, Entry
    <2>3. Fades(b)
      BY <2>1, <2>2, FieldFades
    <2>4. Waits(b)
      BY <1>0, <1>3 DEF CleanupBlocked, Waits, With, Without, Unmapped
    <2> QED
      BY <2>3, <2>4
  <1>4. CASE Closes
    <2>1. Waits(b)
      BY <1>0, <1>4 DEF Closes, Close, CloseEvicts, CloseSleeps, CloseEnds, EvictIdle, Sleeps, Waited, Goes,
           Waits, shared, backendVars
    <2>2. Fades(b)
      BY <1>4, EvictFades, PoolFades DEF Closes, Close, CloseEvicts, CloseSleeps, CloseEnds, Sleeps, Waited,
           shared
    <2> QED
      BY <2>1, <2>2
  <1> QED
    BY <1>1, <1>2, <1>3, <1>4 DEF Retires

LEMMA StepWithdrawals ==
    ASSUME Typed, Seats, Withdrawals, [Next]_vars
    PROVE  Withdrawals'
  <1> SUFFICES ASSUME NEW b \in Attempts PROVE Withdrawn(b)'
    BY DEF Withdrawals
  <1>0. Withdrawn(b)
    BY DEF Withdrawals
  <1>1. CASE UNCHANGED vars
    BY <1>0, <1>1 DEF vars, shared, backendVars, threadVars, Withdrawn
  <1>2. ASSUME NEW a \in Attempts, Requests(a) \/ Works(a) \/ Fails(a) PROVE Withdrawn(b)'
    <2>1. CASE a # b
      BY <1>0, <1>2, <2>1, OthersFade, OthersWait, WaitsStays
    <2>2. CASE a = b /\ (CancelPending(a) \/ Aborts(a) \/ NotRemoved(a))
      BY <1>0, <2>2, WithdrawsAlone
    <2>3. CASE a = b /\ ~(CancelPending(a) \/ Aborts(a) \/ NotRemoved(a))
      <3>1. pc'[b] \notin Withdrawing
        BY <1>2, <2>3, ActsElsewhere
      <3> QED
        BY <3>1 DEF Withdrawn, Withdrawing
    <2> QED
      BY <2>1, <2>2, <2>3
  <1>3. CASE (\E o \in Owners : Prepares(o) \/ Retires(o) \/ Expire(o)) \/ Closes
    BY <1>0, <1>3, OutsidersWait, WaitsStays
  <1> QED
    BY <1>1, <1>2, <1>3 DEF Next

\* AbortedHoldsNothing: once its abort has ended, an attempt has no reservation, no Worker
\* and no interest in the pool, whatever the others, Docker and the closing pool do then.
THEOREM AbortedStaysEmpty == Spec => []AbortedHoldsNothing
  <1>1. Init => Withdrawals
    <2> SUFFICES ASSUME Init, NEW a \in Attempts PROVE Withdrawn(a)
      BY DEF Withdrawals
    <2>1. pc[a] \notin Withdrawing
      BY PoolAssumption DEF Init, Threads, Withdrawing
    <2> QED
      BY <2>1 DEF Withdrawn, Withdrawing
  <1>2. TypeOK /\ Seats /\ Withdrawals /\ [Next]_vars => Withdrawals'
    BY StepWithdrawals, TypeSplit DEF Typed
  <1>3. Withdrawals => AbortedHoldsNothing
    BY DEF Withdrawals, Withdrawn, Withdrawing, AbortedHoldsNothing
  <1> QED
    BY <1>1, <1>2, <1>3, SeatsHold, PTL DEF Spec

-----------------------------------------------------------------------------
(* Who waits for entries is woken: each of them has somebody at it, who changes its *)
(* state, or retires it, and notifies.                                         *)
Tidying == {"replacing", "refused", "rejected", "draining", "destroying", "publishing", "withdrawing",
            "evicting"}
Watching == {"draining", "withdrawing", "evicting"} \cup Sleeping

\* Places that an attempt reaches without an offer.
Latent == {"fresh", "withdrawing", "withdrawsleep", "removing", "reporting", "aborted", "blocked"}

Returning == {"resetting", "wiping", "parking"}
Holding == Returning \cup {"validated"}
Lent == {"creating", "leased"}

\* Retirements and waits belong to the places that a thread is in for them.
Quiet(t) ==
    /\ todo[t] # {} => pc[t] \in Tidying
    /\ waits[t] # {} => pc[t] \in Watching

Offered(a) == pc[a] \in Latent \/ a \in offered

Orderly ==
    /\ \A t \in Threads : Quiet(t)
    /\ \A a \in Attempts : Offered(a)
    /\ pc[Closer] = "open" \/ stopped

\* Why an entry was marked.
Marks ==
    \A o \in DOMAIN pool :
        /\ pool[o].reason = "other" => stopped \/ pool[o].state \in {"preparing", "retiring", "blocked"}
        /\ pool[o].reason = "cancelled" => pool[o].interests = {}

Handled ==
    \A o \in DOMAIN pool :
        /\ pool[o].state = "retiring" => \E t \in Janitors : o \in todo[t]
        /\ pool[o].state = "resetting" => \E a \in Attempts : target[a] = o /\ pc[a] \in Returning

\* The entry of a Worker that is being returned is its attempt's.
Own(a) ==
    pc[a] \in Holding /\ target[a] \in DOMAIN pool =>
        /\ pool[target[a]].key = Environment[a]
        /\ a \in pool[target[a]].interests \cup cancelled

\* A validated entry that somebody will publish, or else withdraw.
Kept(o) ==
    \E a \in Attempts :
        \/ target[a] = o /\ pc[a] = "validated"
        \/ a \in cancelled /\ pc[a] = "ended" /\ pool[o].key = Environment[a]

\* What is waited for was marked, and is never given out again.
Watched(o) ==
    /\ \A a \in Attempts : target[a] = o => pc[a] \notin Lent
    /\ o \in DOMAIN pool =>
          /\ pool[o].reason # "none" /\ pool[o].state # "ready"
          /\ pool[o].state = "validated" => stopped \/ Kept(o)

Asleep(t) == pc[t] \in Sleeping => Unretired(t) # {}

Watch ==
    /\ Orderly /\ Marks /\ Handled
    /\ \A a \in Attempts : Own(a)
    /\ \A t \in Threads : Asleep(t) /\ \A o \in waits[t] : Watched(o)

LEMMA WatchGivesAwaited == ASSUME TypeOK, Seats, Watch PROVE SleepersAreAwaited
  <1> SUFFICES ASSUME NEW t \in Threads, pc[t] \in Sleeping
               PROVE  \E o \in Unretired(t) : Attended(o) \/ Stranded(o)
    BY DEF SleepersAreAwaited
  <1>1. PICK o \in Unretired(t) : TRUE
    BY DEF Watch, Asleep
  <1>2. /\ o \in waits[t] /\ o \in DOMAIN pool /\ pool[o].state \in States \ {"blocked"}
        /\ Watched(o)
    BY <1>1 DEF Unretired, TypeOK, Entry, Watch
  <1>3. CASE pool[o].state = "preparing"
    BY <1>3 DEF Attended
  <1>4. CASE pool[o].state = "retiring"
    BY <1>2, <1>4 DEF Attended, Watch, Handled
  <1>5. CASE pool[o].state = "resetting"
    BY <1>2, <1>5 DEF Attended, Watch, Handled, Returning, UserPositions
  <1>6. CASE pool[o].state = "claiming"
    BY <1>2, <1>6 DEF Attended, Seats, Claiming, UserPositions
  <1>7. CASE pool[o].state = "validated"
    <2>1. CASE stopped
      BY <1>7, <2>1 DEF Stranded
    <2>2. CASE ~stopped
      <3>1. PICK a \in Attempts :
              \/ target[a] = o /\ pc[a] = "validated"
              \/ a \in cancelled /\ pc[a] = "ended" /\ pool[o].key = Environment[a]
        BY <1>2, <1>7, <2>2 DEF Watched, Kept
      <3>2. CASE target[a] = o /\ pc[a] = "validated"
        BY <3>2 DEF Attended
      <3>3. CASE a \in cancelled /\ pc[a] = "ended" /\ pool[o].key = Environment[a]
        <4>1. a \in offered
          BY <3>3 DEF Watch, Orderly, Offered, Latent
        <4>2. pool[o].reason = "cancelled"
          BY <1>2, <1>7, <2>2 DEF Watched, Watch, Marks, TypeOK, Entry
        <4>3. CancelledBefore(a, o)
          BY <1>2, <3>3, <4>1, <4>2 DEF CancelledBefore, Watch, Marks
        <4> QED
          BY <3>3, <4>3 DEF Attended
      <3> QED
        BY <3>1, <3>2, <3>3
    <2> QED
      BY <2>1, <2>2
  <1> QED
    BY <1>1, <1>2, <1>3, <1>4, <1>5, <1>6, <1>7 DEF Watched, States

\* What a step does to the entries and to the threads, as far as a wait depends on it.
Left(o, state) == o \in DOMAIN pool' => pool'[o].state # state

Awake == \A t \in Threads : pc'[t] \notin Sleeping

\* An entry that is new to the pool was nobody's to return or to wait for.
Enters(o) ==
    /\ o \notin DOMAIN pool /\ o \in DOMAIN pool'
    /\ pool'[o].reason = "none" /\ pool'[o].state \in {"preparing", "resetting"}
    /\ \A t \in Threads : o \notin waits[t]
    /\ \A a \in Attempts : pc[a] \in Holding => target[a] # o
    /\ pool'[o].state = "resetting" => \E a \in Attempts : target'[a] = o /\ pc'[a] \in Returning

\* An attempt loses its interest when it is cancelled, or when it has returned the Worker.
Loses(o) ==
    \A a \in Attempts :
        a \in pool[o].interests \ pool'[o].interests =>
            a \in cancelled' \/ ~(pc'[a] \in Holding /\ target'[a] = o)

SameMark(o) == pool'[o].reason = pool[o].reason /\ (pool[o].reason = "cancelled" => pool'[o].interests = {})

Stays(o) ==
    /\ o \in DOMAIN pool /\ o \in DOMAIN pool'
    /\ pool'[o].key = pool[o].key
    /\ Loses(o)
    /\ \/ pool'[o].state = pool[o].state /\ SameMark(o)
       \/ pool'[o].state = pool[o].state /\ pool'[o].reason = "cancelled" /\ pool'[o].interests = {}
       \/ /\ pool'[o].state = pool[o].state /\ pool'[o].reason = "other"
          /\ pool[o].state \in {"preparing", "retiring"} \/ (stopped /\ pool[o].state \notin AtRest)
       \/ /\ pool'[o].state = "retiring" /\ pool'[o].reason # "none"
          /\ pool'[o].reason = "cancelled" => pool'[o].interests = {}
          /\ \E t \in Janitors : o \in todo'[t]
       \/ pool[o].state = "retiring" /\ pool'[o].state = "blocked" /\ SameMark(o) /\ Awake
       \/ pool'[o].state \in {"ready", "claiming"} /\ pool[o].reason = "none" /\ pool'[o].reason = "none"
       \/ /\ pool[o].state = "resetting" /\ pool'[o].state = "validated" /\ SameMark(o)
          /\ \E a \in Attempts : target'[a] = o /\ pc'[a] = "validated"

Turns(o) ==
    \/ o \notin DOMAIN pool /\ o \notin DOMAIN pool'
    \/ Enters(o)
    \/ o \notin DOMAIN pool' /\ Awake
    \/ Stays(o)

Carries(a) ==
    /\ pc[a] \in Returning => \/ pc'[a] \in Returning /\ target'[a] = target[a]
                              \/ Left(target[a], "resetting")
    /\ pc[a] = "validated" => \/ pc'[a] = "validated" /\ target'[a] = target[a]
                              \/ pc'[a] = "ended"
                              \/ Left(target[a], "validated")
    /\ pc[a] = "ended" => \/ pc'[a] = "ended"
                          \/ \A o \in DOMAIN pool : CancelledBefore(a, o) => Left(o, "validated")
    /\ pc'[a] \in Holding => \/ pc[a] \in Holding /\ target'[a] = target[a]
                             \/ /\ target'[a] \in DOMAIN pool'
                                /\ pool'[target'[a]].key = Environment[a]
                                /\ a \in pool'[target'[a]].interests
    /\ pc'[a] \in Lent => \/ pc[a] \in Lent /\ target'[a] = target[a]
                          \/ \A t \in Threads : target'[a] \notin waits[t]

\* A thread waits for what it did, or for entries that it has just marked.
Grows(t) ==
    \A o \in waits'[t] :
        \/ o \in waits[t]
        \/ /\ o \in DOMAIN pool'
           /\ pool'[o].reason # "none" /\ pool'[o].state \notin {"ready", "validated"}

Dozes(t) ==
    pc'[t] \in Sleeping =>
        /\ waits'[t] = waits[t]
        /\ pc[t] \in Sleeping \/ (Unretired(t) # {} /\ pool' = pool)

Passes ==
    /\ \A o \in Owners : Turns(o)
    /\ \A t \in Janitors : \A o \in todo[t] : o \in todo'[t] \/ Left(o, "retiring")
    /\ \A a \in Attempts : Carries(a)
    /\ \A t \in Threads : Grows(t) /\ Dozes(t)
    /\ stopped => stopped'
    /\ cancelled \subseteq cancelled'

LEMMA MarksKept ==
    ASSUME Typed, Typed', Marks, Passes
    PROVE  Marks'
  <1> SUFFICES ASSUME NEW o \in DOMAIN pool'
               PROVE  /\ pool'[o].reason = "other" =>
                            stopped' \/ pool'[o].state \in {"preparing", "retiring", "blocked"}
                      /\ pool'[o].reason = "cancelled" => pool'[o].interests = {}
    BY DEF Marks
  <1>1. Enters(o) \/ Stays(o)
    BY DEF Passes, Turns, Typed, PoolTyped
  <1> QED
    BY <1>1 DEF Enters, Stays, SameMark, Marks, Passes

LEMMA HandledKept ==
    ASSUME Typed, Typed', Handled, Passes
    PROVE  Handled'
  <1> SUFFICES ASSUME NEW o \in DOMAIN pool'
               PROVE  /\ pool'[o].state = "retiring" => \E t \in Janitors : o \in todo'[t]
                      /\ pool'[o].state = "resetting" =>
                            \E a \in Attempts : target'[a] = o /\ pc'[a] \in Returning
    BY DEF Handled
  <1>1. Enters(o) \/ Stays(o)
    BY DEF Passes, Turns, Typed, PoolTyped
  <1>2. ASSUME pool'[o].state = "retiring" PROVE \E t \in Janitors : o \in todo'[t]
    <2>1. (\E t \in Janitors : o \in todo'[t]) \/ (o \in DOMAIN pool /\ pool[o].state = "retiring")
      BY <1>1, <1>2 DEF Enters, Stays
    <2> QED
      BY <1>2, <2>1 DEF Handled, Passes, Left
  <1>3. ASSUME pool'[o].state = "resetting" PROVE \E a \in Attempts : target'[a] = o /\ pc'[a] \in Returning
    <2>1. CASE Enters(o)
      BY <1>3, <2>1 DEF Enters
    <2>2. CASE o \in DOMAIN pool /\ pool[o].state = "resetting"
      <3>1. PICK a \in Attempts : target[a] = o /\ pc[a] \in Returning
        BY <2>2 DEF Handled
      <3>2. Carries(a)
        BY DEF Passes
      <3> QED
        BY <1>3, <3>1, <3>2 DEF Carries, Left
    <2> QED
      BY <1>1, <1>3, <2>1, <2>2 DEF Stays
  <1> QED
    BY <1>2, <1>3

LEMMA OwnKept ==
    ASSUME Typed, Typed', NEW a \in Attempts, Own(a), Passes
    PROVE  Own(a)'
  <1> SUFFICES ASSUME pc'[a] \in Holding, target'[a] \in DOMAIN pool'
               PROVE  /\ pool'[target'[a]].key = Environment[a]
                      /\ a \in pool'[target'[a]].interests \cup cancelled'
    BY DEF Own
  <1>1. target'[a] \in Owners /\ Carries(a)
    BY DEF Passes, Typed, PoolTyped
  <1>2. CASE pc[a] \in Holding /\ target'[a] = target[a]
    <2>1. Stays(target[a])
      BY <1>1, <1>2 DEF Passes, Turns, Enters
    <2> QED
      BY <1>2, <2>1 DEF Stays, Loses, Own, Passes
  <1> QED
    BY <1>1, <1>2 DEF Carries

LEMMA WatchedKept ==
    ASSUME Typed, Typed', Seats, Seats', Orderly, Marks, \A a \in Attempts : Own(a), Passes,
           NEW t \in Threads, NEW o \in waits'[t], \A p \in waits[t] : Watched(p)
    PROVE  Watched(o)'
  <1>1. CASE o \notin waits[t]
    <2>1. /\ o \in DOMAIN pool' /\ pool'[o].reason # "none" /\ pool'[o].state \notin {"ready", "validated"}
      BY <1>1 DEF Passes, Grows
    <2>2. \A a \in Attempts : target'[a] = o => pc'[a] \notin Lent
      BY <2>1 DEF Seats, Placed, Lent
    <2> QED
      BY <2>1, <2>2 DEF Watched
  <1>2. CASE o \in waits[t]
    <2>1. \A a \in Attempts : target'[a] = o => pc'[a] \notin Lent
      <3> SUFFICES ASSUME NEW a \in Attempts, target'[a] = o, pc'[a] \in Lent PROVE FALSE
        OBVIOUS
      <3>1. Carries(a) /\ Watched(o)
        BY <1>2 DEF Passes
      <3> QED
        BY <1>2, <3>1 DEF Carries, Watched
    <2>2. ASSUME o \in DOMAIN pool'
          PROVE  /\ pool'[o].reason # "none" /\ pool'[o].state # "ready"
                 /\ pool'[o].state = "validated" => stopped' \/ Kept(o)'
      <3>1. Stays(o)
        BY <1>2, <2>2 DEF Passes, Turns, Enters, Typed, PoolTyped
      <3>2. /\ o \in DOMAIN pool /\ pool[o] \in Entry
            /\ pool[o].reason # "none" /\ pool[o].state # "ready"
            /\ pool[o].state = "validated" => stopped \/ Kept(o)
        BY <1>2, <3>1 DEF Stays, Watched, Typed, PoolTyped
      <3>3. pool'[o].reason # "none" /\ pool'[o].state # "ready"
        BY <3>1, <3>2 DEF Stays, SameMark
      <3>4. ASSUME pool'[o].state = "validated", ~stopped' PROVE Kept(o)'
        <4>1. ~stopped
          BY <3>4 DEF Passes
        <4>2. CASE \E a \in Attempts : target'[a] = o /\ pc'[a] = "validated"
          BY <4>2 DEF Kept
        <4>3. CASE pool[o].state = "validated"
          <5>1. pool[o].reason = "cancelled" /\ pool[o].interests = {}
            BY <3>2, <4>1, <4>3 DEF Marks, Entry
          <5>2. pool'[o].key = pool[o].key
            BY <3>1 DEF Stays
          <5>3. PICK a \in Attempts :
                  \/ target[a] = o /\ pc[a] = "validated"
                  \/ a \in cancelled /\ pc[a] = "ended" /\ pool[o].key = Environment[a]
            BY <3>2, <4>1, <4>3 DEF Kept
          <5>4. Carries(a) /\ Own(a) /\ (a \in cancelled => a \in cancelled')
            BY DEF Passes
          <5>5. CASE target[a] = o /\ pc[a] = "validated"
            <6>1. a \in cancelled /\ pool[o].key = Environment[a]
              BY <3>2, <5>1, <5>4, <5>5 DEF Own, Holding
            <6>2. \/ pc'[a] = "validated" /\ target'[a] = o
                  \/ pc'[a] = "ended"
              BY <2>2, <3>4, <5>4, <5>5 DEF Carries, Left
            <6> QED
              BY <5>2, <5>4, <6>1, <6>2 DEF Kept
          <5>6. CASE a \in cancelled /\ pc[a] = "ended" /\ pool[o].key = Environment[a]
            <6>1. a \in offered
              BY <5>6 DEF Orderly, Offered, Latent
            <6>2. CancelledBefore(a, o)
              BY <5>1, <5>6, <6>1 DEF CancelledBefore
            <6>3. pc'[a] = "ended"
              BY <2>2, <3>2, <3>4, <5>4, <5>6, <6>2 DEF Carries, Left
            <6> QED
              BY <5>2, <5>4, <5>6, <6>3 DEF Kept
          <5> QED
            BY <5>3, <5>5, <5>6
        <4> QED
          BY <3>1, <3>4, <4>2, <4>3 DEF Stays
      <3> QED
        BY <3>3, <3>4
    <2> QED
      BY <2>1, <2>2 DEF Watched
  <1> QED
    BY <1>1, <1>2

LEMMA AsleepKept ==
    ASSUME Typed, Typed', NEW t \in Threads, Asleep(t), Passes
    PROVE  Asleep(t)'
  <1> SUFFICES ASSUME pc'[t] \in Sleeping PROVE Unretired(t)' # {}
    BY DEF Asleep
  <1>1. waits'[t] = waits[t] /\ (pc[t] \in Sleeping \/ (Unretired(t) # {} /\ pool' = pool))
    BY DEF Passes, Dozes
  <1>2. PICK o \in waits[t] : o \in DOMAIN pool /\ pool[o].state # "blocked"
    BY <1>1 DEF Asleep, Unretired
  <1>3. ~Awake /\ o \in Owners
    BY <1>2 DEF Awake, Typed, PoolTyped
  <1>4. Stays(o)
    BY <1>2, <1>3 DEF Passes, Turns, Enters
  <1>5. pool'[o].state # "blocked" /\ o \in DOMAIN pool'
    BY <1>2, <1>3, <1>4 DEF Stays
  <1> QED
    BY <1>1, <1>2, <1>5 DEF Unretired

LEMMA PassesKeeps ==
    ASSUME Typed, Typed', Seats, Seats', Watch, Orderly', Passes
    PROVE  Watch'
  <1>1. Marks' /\ Handled' /\ \A a \in Attempts : Own(a)'
    BY MarksKept, HandledKept, OwnKept DEF Watch
  <1>2. \A t \in Threads : Asleep(t)' /\ \A o \in waits'[t] : Watched(o)'
    BY AsleepKept, WatchedKept DEF Watch
  <1> QED
    BY <1>1, <1>2 DEF Watch

\* What a step does to the thread that takes it, and what it leaves to the others.
Tidies == \A t \in Janitors : \A o \in todo[t] : o \in todo'[t] \/ Left(o, "retiring")

Acts(t) ==
    /\ Quiet(t)' /\ Grows(t) /\ Dozes(t)
    /\ t \in Attempts => Carries(t) /\ Offered(t)'

Onlooks(t) ==
    /\ pc'[t] \in {pc[t], Notified(pc)[t]}
    /\ todo'[t] \subseteq todo[t] /\ waits'[t] = waits[t]
    /\ t \in Attempts => target'[t] = target[t]

LEMMA OnlookerActs ==
    ASSUME Typed, NEW t \in Threads, Quiet(t), t \in Attempts => Offered(t), Onlooks(t),
           offered \subseteq offered'
    PROVE  Acts(t)
  <1>1. /\ pc[t] \notin {"asleep"} \cup Sleeping => pc'[t] = pc[t]
        /\ pc[t] = "asleep" => pc'[t] \in {"asleep", "taking"}
        /\ pc[t] = "drainsleep" => pc'[t] \in {"drainsleep", "draining"}
        /\ pc[t] = "withdrawsleep" => pc'[t] \in {"withdrawsleep", "withdrawing"}
        /\ pc[t] = "evictsleep" => pc'[t] \in {"evictsleep", "evicting"}
    BY NotifiedTyped DEF Onlooks, Typed, ThreadsTyped
  <1>2. Quiet(t)'
    BY <1>1 DEF Quiet, Onlooks, Tidying, Watching, Sleeping
  <1>3. Grows(t) /\ Dozes(t)
    BY <1>1 DEF Grows, Dozes, Onlooks, Sleeping
  <1>4. ASSUME t \in Attempts PROVE Carries(t) /\ Offered(t)'
    <2>1. pc'[t] \in Holding \cup Lent \cup {"ended"} => pc'[t] = pc[t]
      BY <1>1 DEF Holding, Returning, Lent, Sleeping
    <2>2. pc[t] \in Holding \cup Lent \cup {"ended"} => pc'[t] = pc[t]
      BY <1>1 DEF Holding, Returning, Lent, Sleeping
    <2>3. Carries(t)
      BY <1>4, <2>1, <2>2 DEF Onlooks, Carries, Holding, Lent
    <2>4. Offered(t)'
      BY <1>1, <1>4 DEF Offered, Latent, Sleeping
    <2> QED
      BY <2>3, <2>4
  <1> QED
    BY <1>2, <1>3, <1>4 DEF Acts

\* An attempt that neither returns nor is lent a Worker, before or after.
LEMMA ElsewhereCarries ==
    ASSUME NEW a, pc[a] \notin Holding \cup {"ended"}, pc'[a] \notin Holding \cup Lent
    PROVE  Carries(a)
  BY DEF Carries, Holding

\* It was not tidying or watching, and does not begin to.
LEMMA PlainActs ==
    ASSUME NEW a \in Attempts, Quiet(a), Offered(a), offered \subseteq offered',
           pc[a] \notin Holding \cup {"ended"} \cup Tidying \cup Watching \cup Latent,
           pc'[a] \notin Holding \cup Lent \cup Sleeping,
           todo'[a] = todo[a], waits'[a] = waits[a]
    PROVE  Acts(a)
  <1>1. Quiet(a)' /\ Grows(a) /\ Dozes(a) /\ Offered(a)'
    BY DEF Quiet, Grows, Dozes, Offered
  <1> QED
    BY <1>1, ElsewhereCarries DEF Acts

\* How entries change.
LEMMA PoolTurns ==
    ASSUME Typed, Marks, pool' = pool
    PROVE  \A o \in Owners : Turns(o)
  BY DEF Turns, Stays, Loses, SameMark, Marks

LEMMA EntryTurns ==
    ASSUME Typed, Marks, NEW o \in DOMAIN pool, DOMAIN pool' = DOMAIN pool,
           \A p \in DOMAIN pool \ {o} : pool'[p] = pool[p], Stays(o)
    PROVE  \A p \in Owners : Turns(p)
  <1> SUFFICES ASSUME NEW p \in Owners, p # o, p \in DOMAIN pool PROVE Stays(p)
    BY DEF Turns
  <1> QED
    BY DEF Stays, Loses, SameMark, Marks

LEMMA WaitingTurns ==
    ASSUME Typed, Marks, NEW o \in DOMAIN pool, NEW w, pool' = [pool EXCEPT ![o].waiting = w]
    PROVE  \A p \in Owners : Turns(p)
  <1>1. /\ DOMAIN pool' = DOMAIN pool /\ \A p \in DOMAIN pool \ {o} : pool'[p] = pool[p]
        /\ pool[o] \in Entry /\ pool'[o] = [pool[o] EXCEPT !.waiting = w]
    BY DEF Typed, PoolTyped
  <1>2. /\ pool'[o].key = pool[o].key /\ pool'[o].interests = pool[o].interests
        /\ pool'[o].state = pool[o].state /\ pool'[o].reason = pool[o].reason
    BY <1>1 DEF Entry
  <1>3. Stays(o)
    BY <1>1, <1>2 DEF Stays, Loses, SameMark, Marks
  <1> QED
    BY <1>1, <1>3, EntryTurns

LEMMA RetiringTurns ==
    ASSUME Typed, Marks, NEW t \in Janitors, NEW o \in DOMAIN pool, Retiring(o, t)
    PROVE  /\ \A p \in Owners : Turns(p)
           /\ \A u \in Janitors : todo[u] \subseteq todo'[u]
           /\ \A u \in Janitors \ {t} : todo'[u] = todo[u]
           /\ o \in DOMAIN pool' /\ pool'[o].state = "retiring"
  <1>1. /\ DOMAIN pool' = DOMAIN pool /\ \A p \in DOMAIN pool \ {o} : pool'[p] = pool[p]
        /\ pool'[o].state = "retiring" /\ pool'[o].interests = pool[o].interests
        /\ pool'[o].key = pool[o].key
    BY RetiringTyped DEF Typed
  <1>2. pool'[o].reason = "other"
    <2>1. pool[o] \in Entry /\ pool'[o] = [pool[o] EXCEPT !.state = "retiring", !.reason = "other"]
      BY DEF Retiring, Typed, PoolTyped
    <2> QED
      BY <2>1 DEF Entry
  <1>3. todo' = [todo EXCEPT ![t] = @ \cup {o}] /\ todo \in [Janitors -> SUBSET Owners]
    BY DEF Retiring, Typed, ThreadsTyped
  <1>4. Stays(o)
    BY <1>1, <1>2, <1>3 DEF Stays, Loses
  <1> QED
    BY <1>1, <1>3, <1>4, EntryTurns

LEMMA EnterTurns ==
    ASSUME Typed, Marks, NEW o \in Owners, NEW e, pool' = With(pool, o, e), Enters(o)
    PROVE  \A p \in Owners : Turns(p)
  <1> SUFFICES ASSUME NEW p \in Owners, p # o PROVE Turns(p)
    BY DEF Turns
  <1>1. /\ p \in DOMAIN pool' <=> p \in DOMAIN pool
        /\ p \in DOMAIN pool => pool'[p] = pool[p]
    BY DEF With
  <1> QED
    BY <1>1 DEF Turns, Stays, Loses, SameMark, Marks

LEMMA LeaveTurns ==
    ASSUME Typed, Marks, NEW o \in Owners, pool' = Without(pool, o), Awake
    PROVE  \A p \in Owners : Turns(p)
  <1> SUFFICES ASSUME NEW p \in Owners PROVE Turns(p)
    OBVIOUS
  <1>1. /\ DOMAIN pool' = DOMAIN pool \ {o}
        /\ p \in DOMAIN pool /\ p # o => pool'[p] = pool[p]
    BY DEF Without
  <1> QED
    BY <1>1 DEF Turns, Stays, Loses, SameMark, Marks

LEMMA NotifiedAwake ==
    ASSUME Typed, NEW t \in Threads, NEW place, place \notin Sleeping,
           pc' = Notified(pc) \/ pc' = [Notified(pc) EXCEPT ![t] = place]
    PROVE  Awake
  <1>1. \A u \in Threads : Notified(pc)[u] \notin Sleeping
    BY NotifiedTyped DEF Typed, ThreadsTyped, Sleeping
  <1>2. Notified(pc) \in [Threads -> Places]
    BY NotifiedTyped DEF Typed, ThreadsTyped
  <1> QED
    BY <1>1, <1>2 DEF Awake

LEMMA EvictTurns ==
    ASSUME Typed, Marks, NEW t \in Threads, NEW pressure \in BOOLEAN, pressure \/ stopped,
           NEW place \in Places, EvictIdle(t, pressure, place), todo[t] = {}
    PROVE  /\ \A o \in Owners : Turns(o)
           /\ Tidies
           /\ Grows(t)
           /\ pc'[t] = place
  <1>0. t \in Janitors /\ todo \in [Janitors -> SUBSET Owners] /\ waits \in [Threads -> SUBSET Owners]
    BY DEF Janitors, Typed, ThreadsTyped
  <1> DEFINE idle == Evictable(pressure) \cap EntriesIn(AtRest)
  <1>1. /\ DOMAIN pool' = DOMAIN pool
        /\ todo' = [todo EXCEPT ![t] = idle]
        /\ waits' = [waits EXCEPT ![t] = Evictable(pressure)]
    BY DEF EvictIdle
  <1>2. ASSUME NEW o \in DOMAIN pool
        PROVE  /\ o \notin Evictable(pressure) => pool'[o] = pool[o]
               /\ o \in Evictable(pressure) =>
                    /\ pool'[o].reason = "other"
                    /\ pool'[o].state = IF o \in idle THEN "retiring" ELSE pool[o].state
               /\ pool'[o].key = pool[o].key /\ pool'[o].interests = pool[o].interests
    <2>1. pool[o] \in Entry
      BY DEF Typed, PoolTyped
    <2>2. \/ o \notin Evictable(pressure) /\ pool'[o] = pool[o]
          \/ o \in idle /\ pool'[o] = [pool[o] EXCEPT !.reason = "other", !.state = "retiring"]
          \/ /\ o \in Evictable(pressure) \ idle
             /\ pool'[o] = [pool[o] EXCEPT !.reason = "other", !.state = @]
      BY DEF EvictIdle
    <2> QED
      BY <2>1, <2>2 DEF Entry
  <1>3. \A o \in DOMAIN pool : o \in idle <=> o \in Evictable(pressure) /\ pool[o].state \in AtRest
    BY DEF EntriesIn
  <1>4. Evictable(pressure) \subseteq DOMAIN pool /\ idle \subseteq Evictable(pressure)
    BY DEF Evictable
  <1>5. ASSUME NEW o \in DOMAIN pool, pool[o].state \notin AtRest, o \in Evictable(pressure)
        PROVE  pool[o].state \in {"preparing", "retiring"} \/ stopped
    <2>1. pool[o].state \in States
      BY DEF Typed, PoolTyped, Entry
    <2> QED
      BY <1>5, <2>1 DEF Evictable, States, AtRest
  <1> HIDE DEF idle
  <1>6. ASSUME NEW o \in DOMAIN pool PROVE Stays(o)
    <2>1. CASE o \notin Evictable(pressure)
      BY <1>1, <1>2, <2>1 DEF Stays, Loses, SameMark, Marks
    <2>2. CASE o \in idle
      BY <1>0, <1>1, <1>2, <1>4, <2>2 DEF Stays, Loses
    <2>3. CASE o \in Evictable(pressure) /\ o \notin idle
      BY <1>1, <1>2, <1>3, <1>5, <2>3 DEF Stays, Loses
    <2> QED
      BY <2>1, <2>2, <2>3
  <1>7. \A o \in Owners : Turns(o)
    BY <1>1, <1>6 DEF Turns
  <1>8. Tidies
    BY <1>0, <1>1 DEF Tidies
  <1>9. Grows(t)
    <2>1. waits'[t] = Evictable(pressure)
      BY <1>0, <1>1
    <2> QED
      BY <1>1, <1>2, <1>3, <1>4, <2>1 DEF Grows, AtRest
  <1>10. pc'[t] = place
    <2>1. Notified(pc) \in [Threads -> Places]
      BY NotifiedTyped DEF Typed, ThreadsTyped
    <2> QED
      BY <2>1 DEF EvictIdle
  <1> QED
    BY <1>7, <1>8, <1>9, <1>10

LEMMA CancelTurns ==
    ASSUME Typed, Marks, NEW a \in Attempts, NEW retired \in SUBSET Owners, CancelInterest(a, retired),
           retired \subseteq Abandoned(a), a \in Janitors,
           \A o \in retired : o \in todo'[a]
    PROVE  /\ \A o \in Owners : Turns(o)
           /\ DOMAIN pool' = DOMAIN pool
           /\ \A o \in Abandoned(a) : o \in DOMAIN pool' /\ pool'[o].reason = "cancelled"
           /\ \A o \in DOMAIN pool : pool'[o].state = IF o \in retired THEN "retiring" ELSE pool[o].state
  <1>1. /\ DOMAIN pool' = DOMAIN pool
        /\ \A o \in DOMAIN pool :
              /\ pool'[o].interests = pool[o].interests \ {a}
              /\ pool'[o].state = IF o \in retired THEN "retiring" ELSE pool[o].state
    BY CancelKeepsEntries DEF Typed
  <1>2. Abandoned(a) \subseteq DOMAIN pool /\ cancelled' = cancelled \cup {a}
    BY DEF Abandoned, CancelInterest
  <1>3. ASSUME NEW o \in DOMAIN pool
        PROVE  /\ pool'[o].key = pool[o].key
               /\ pool'[o].reason = IF o \in Abandoned(a) THEN "cancelled" ELSE pool[o].reason
    <2>1. pool[o] \in Entry
      BY DEF Typed, PoolTyped
    <2>2. pool'[o] = [pool[o] EXCEPT !.interests = @ \ {a},
                                     !.reason = IF o \in Abandoned(a) THEN "cancelled" ELSE @,
                                     !.state = IF o \in retired THEN "retiring" ELSE @]
      BY DEF CancelInterest
    <2> QED
      BY <2>1, <2>2 DEF Entry
  <1>4. \A o \in Abandoned(a) : pool[o].interests \ {a} = {}
    BY DEF Abandoned, CancelledBefore
  <1>5. ASSUME NEW o \in DOMAIN pool PROVE Stays(o)
    <2>1. Loses(o)
      BY <1>1, <1>2 DEF Loses
    <2>2. CASE o \in retired
      BY <1>1, <1>3, <1>4, <2>1, <2>2 DEF Stays
    <2>3. CASE o \in Abandoned(a) /\ o \notin retired
      BY <1>1, <1>3, <1>4, <2>1, <2>3 DEF Stays
    <2>4. CASE o \notin Abandoned(a) /\ o \notin retired
      BY <1>1, <1>3, <2>1, <2>4 DEF Stays, SameMark, Marks
    <2> QED
      BY <2>2, <2>3, <2>4
  <1>6. \A o \in Owners : Turns(o)
    BY <1>1, <1>5 DEF Turns
  <1> QED
    BY <1>1, <1>2, <1>3, <1>6

\* Offers and cancellations stay, and so does the end of the service.
Books == offered \subseteq offered' /\ cancelled \subseteq cancelled' /\ (stopped => stopped')

LEMMA BooksGrow == ASSUME [Next]_vars PROVE Books
  <1>0. UNCHANGED bookVars => Books
    BY DEF bookVars, Books
  <1>1. CASE UNCHANGED vars
    BY <1>0, <1>1 DEF vars, shared
  <1>2. ASSUME NEW a \in Attempts, Requests(a) \/ Offers(a) PROVE Books
    <2>1. CASE Preflight(a) \/ CancelPending(a)
      <3>1. /\ offered' \in {offered, offered \cup {a}} /\ cancelled' \in {cancelled, cancelled \cup {a}}
            /\ stopped' = stopped
        BY <2>1 DEF Preflight, CancelPending, CancelInterest
      <3> QED
        BY <3>1 DEF Books
    <2>2. CASE ReturnSkipped(a) \/ ReturnStarts(a) \/ Offers(a)
      BY <1>0, <2>2 DEF ReturnSkipped, ReturnStarts, Offers, OfferSkipped, OfferMerged, OfferReplaces,
           OfferAgain, OfferStarts, Moves, shared
    <2> QED
      BY <1>2, <2>1, <2>2 DEF Requests
  <1>3. ASSUME NEW a \in Attempts, Takes(a) \/ BindFails(a) PROVE Books
    <2>1. CASE TakeRefused(a) \/ TakeAwaitsRetirement(a) \/ TakeFallsBack(a) \/ TakeMisses(a)
      BY <2>1 DEF TakeRefused, TakeAwaitsRetirement, TakeFallsBack, TakeMisses, Leaves, shared, bookVars, Books
    <2>2. CASE TakeQueues(a) \/ TakeClaims(a) \/ TakeDeadline(a) \/ Bind(a)
      BY <2>2 DEF TakeQueues, TakeClaims, TakeDeadline, Bind, Moves, shared, bookVars, Books
    <2>3. CASE BindRefused(a) \/ Claimed(a) \/ ClaimRetired(a) \/ ClaimEnds(a) \/ BindFails(a)
      BY <2>3 DEF BindRefused, Claimed, ClaimRetired, ClaimEnds, BindFails, Rejects, bookVars, Books
    <2> QED
      BY <1>3, <2>1, <2>2, <2>3 DEF Takes
  <1>4. ASSUME NEW a \in Attempts, Cold(a) \/ CreationFails(a) PROVE Books
    BY <1>0, <1>4 DEF Cold, ColdAtOnce, ColdDrains, ColdRefused, DrainSleeps, DrainEnds, ColdAdmitted,
         ColdNotAdmitted, Created, Creates, CreationFails, Sleeps, Waited, Moves, shared
  <1>5. ASSUME NEW a \in Attempts, Returns(a) \/ ResetFails(a) \/ NotDestroyed(a) \/ NotRecorded(a) PROVE Books
    BY <1>5 DEF Returns, ResetStops, ResetParks, ResetVerified, ResetInterrupted, Destroyed, Publish,
         NothingToPublish, Published, ResetFails, NotDestroyed, NotRecorded, Rejects, Moves, shared,
         bookVars, Books
  <1>6. ASSUME NEW a \in Attempts, Aborts(a) \/ NotRemoved(a) PROVE Books
    <2>1. CASE Withdraw(a)
      BY <2>1 DEF Withdraw, CancelInterest, Books
    <2>2. CASE WithdrawSleeps(a) \/ WithdrawEnds(a) \/ Removed(a) \/ NotRemoved(a)
      BY <1>0, <2>2 DEF WithdrawSleeps, WithdrawEnds, Removed, NotRemoved, Sleeps, Waited, shared
    <2> QED
      BY <1>6, <2>1, <2>2 DEF Aborts
  <1>7. ASSUME NEW o \in Owners, Prepares(o) \/ Retires(o) \/ Expire(o) PROVE Books
    BY <1>7 DEF Prepares, Prepared, PrepareFails, Retires, Retired, CleanupBlocked, Expire, bookVars, Books
  <1>8. CASE Closes
    <2>1. CASE Close
      BY <2>1 DEF Close, Books
    <2>2. CASE CloseEvicts \/ CloseSleeps \/ CloseEnds
      BY <1>0, <2>2 DEF CloseEvicts, CloseSleeps, CloseEnds, Sleeps, Waited, shared
    <2> QED
      BY <1>8, <2>1, <2>2 DEF Closes
  <1> QED
    BY <1>1, <1>2, <1>3, <1>4, <1>5, <1>6, <1>7, <1>8 DEF Next, Works, Fails

\* A step of an attempt: what it does to the entries and to the attempt itself.
Proceeds(a) == Acts(a) /\ Tidies /\ \A o \in Owners : Turns(o)

LEMMA PoolProceeds ==
    ASSUME Typed, Marks, NEW a, Acts(a), pool' = pool, todo' = todo
    PROVE  Proceeds(a)
  BY PoolTurns DEF Proceeds, Tidies

LEMMA FreshIsNew ==
    ASSUME NEW o, IsFresh(o)
    PROVE  /\ o \notin DOMAIN pool
           /\ \A t \in Threads : o \notin waits[t]
           /\ \A b \in Attempts : target[b] # o
  <1>1. o \notin Known
    BY DEF IsFresh
  <1>2. o \notin DOMAIN pool /\ \A b \in Attempts : target[b] # o
    BY <1>1 DEF Known
  <1>3. ASSUME NEW t \in Threads, o \in waits[t] PROVE FALSE
    <2>1. o \in UNION {waits[u] : u \in Threads}
      BY <1>3
    <2> QED
      BY <1>1, <2>1, Zenon DEF Known
  <1> QED
    BY <1>2, <1>3

LEMMA OfferProceeds ==
    ASSUME Typed, Watch, Books, NEW a \in Attempts, Preflight(a) \/ Offers(a)
    PROVE  Proceeds(a)
  <1>0. /\ a \in Threads /\ a \in Janitors /\ pc \in [Threads -> Places]
        /\ Quiet(a) /\ Offered(a) /\ Marks /\ offered \subseteq offered'
        /\ DOMAIN pool \subseteq Owners
    BY DEF Threads, Janitors, Typed, ThreadsTyped, PoolTyped, Watch, Orderly, Books
  <1>1. pc'[a] = "idle" /\ pc[a] = "offering" /\ todo' = todo /\ waits' = waits => Acts(a)
    BY <1>0, PlainActs DEF Holding, Returning, Lent, Tidying, Watching, Latent, Sleeping
  <1>2. CASE Preflight(a)
    <2>1. /\ pc[a] = "fresh" /\ pc'[a] = "offering" /\ todo' = todo /\ waits' = waits /\ pool' = pool
          /\ a \in offered'
      BY <1>0, <1>2 DEF Preflight, Goes
    <2>2. Quiet(a)' /\ Grows(a) /\ Dozes(a) /\ Offered(a)'
      BY <1>0, <2>1 DEF Quiet, Grows, Dozes, Offered, Tidying, Watching, Sleeping
    <2>3. Carries(a)
      BY <2>1, ElsewhereCarries DEF Holding, Returning, Lent
    <2> QED
      BY <1>0, <2>1, <2>2, <2>3, PoolProceeds DEF Acts
  <1>3. CASE OfferSkipped(a)
    BY <1>0, <1>1, <1>3, PoolProceeds DEF OfferSkipped, Goes, shared
  <1>4. CASE OfferMerged(a)
    <2>1. PICK o \in Joinable(a) :
            pool' = [pool EXCEPT ![o].interests = IF Cardinality(@) < Capacity THEN @ \cup {a} ELSE @]
      BY <1>4 DEF OfferMerged
    <2>2. o \in DOMAIN pool /\ pool[o] \in Entry /\ pool[o].reason = "none"
      BY DEF Joinable, EntriesIn, Typed, PoolTyped
    <2>3. PICK s : /\ pool' = [pool EXCEPT ![o] = [pool[o] EXCEPT !.interests = s]]
                   /\ pool[o].interests \subseteq s
      BY <2>1, <2>2
    <2>4. /\ pool'[o].key = pool[o].key /\ pool'[o].interests = s
          /\ pool'[o].state = pool[o].state /\ pool'[o].reason = pool[o].reason
      BY <2>2, <2>3 DEF Entry
    <2>5. Stays(o)
      BY <2>2, <2>3, <2>4 DEF Stays, Loses, SameMark
    <2>6. \A p \in Owners : Turns(p)
      BY <1>0, <2>2, <2>3, <2>5, EntryTurns
    <2>7. pc[a] = "offering" /\ pc'[a] = "idle" /\ todo' = todo /\ waits' = waits
      BY <1>0, <1>4 DEF OfferMerged, Goes
    <2> QED
      BY <1>1, <2>6, <2>7 DEF Proceeds, Tidies
  <1>5. CASE OfferReplaces(a)
    <2>1. PICK o \in Replaceable(a) : Retiring(o, a)
      BY <1>5 DEF OfferReplaces
    <2>2. (\A p \in Owners : Turns(p)) /\ Tidies
      BY <1>0, <2>1, RetiringTurns DEF Replaceable, EntriesIn, Tidies
    <2>3. pc[a] = "offering" /\ pc'[a] = "replacing" /\ waits' = waits
      BY <1>0, <1>5 DEF OfferReplaces
    <2>4. Quiet(a)' /\ Grows(a) /\ Dozes(a) /\ Offered(a)'
      BY <1>0, <2>3 DEF Quiet, Grows, Dozes, Offered, Tidying, Watching, Sleeping, Latent
    <2>5. Carries(a)
      BY <2>3, ElsewhereCarries DEF Holding, Returning, Lent
    <2> QED
      BY <2>2, <2>4, <2>5 DEF Proceeds, Acts
  <1>6. CASE OfferAgain(a)
    <2>1. /\ pc[a] = "replacing" /\ pc'[a] = "offering" /\ todo' = todo /\ waits' = waits /\ pool' = pool
          /\ todo[a] = {}
      BY <1>0, <1>6 DEF OfferAgain, Moves, Goes, shared
    <2>2. Quiet(a)' /\ Grows(a) /\ Dozes(a) /\ Offered(a)'
      BY <1>0, <2>1 DEF Quiet, Grows, Dozes, Offered, Tidying, Watching, Sleeping, Latent
    <2>3. Carries(a)
      BY <2>1, ElsewhereCarries DEF Holding, Returning, Lent
    <2> QED
      BY <1>0, <2>1, <2>2, <2>3, PoolProceeds DEF Acts
  <1>7. CASE OfferStarts(a)
    <2>0. PICK e : \E o \in Owners :
            /\ IsFresh(o) /\ pool' = With(pool, o, e)
            /\ e.reason = "none" /\ e.state = "preparing"
      BY <1>7 DEF OfferStarts
    <2>1. PICK o \in Owners :
            /\ IsFresh(o) /\ pool' = With(pool, o, e)
            /\ e.reason = "none" /\ e.state = "preparing"
      BY <2>0
    <2>2. o \in DOMAIN pool' /\ pool'[o] = e
      BY <2>1 DEF With
    <2>3. o \notin DOMAIN pool /\ (\A t \in Threads : o \notin waits[t]) /\ \A b \in Attempts : target[b] # o
      BY <2>1, FreshIsNew
    <2>4. \A p \in Owners : Turns(p)
      BY <1>0, <2>1, <2>2, <2>3, EnterTurns DEF Enters
    <2>5. pc[a] = "offering" /\ pc'[a] = "idle" /\ todo' = todo /\ waits' = waits
      BY <1>0, <1>7 DEF OfferStarts, Goes
    <2> QED
      BY <1>1, <2>4, <2>5 DEF Proceeds, Tidies
  <1> QED
    BY <1>2, <1>3, <1>4, <1>5, <1>6, <1>7 DEF Offers

\* The entry of an attempt's seat is retired, and the attempt moves on with the retirement.
LEMMA RejectsProceeds ==
    ASSUME Typed, Seats, Watch, Books, NEW a \in Attempts,
           pc[a] \in {"binding", "bound", "resetting", "wiping"},
           NEW place \in {"refused", "rejected", "destroying"}, Rejects(a, place)
    PROVE  Proceeds(a)
  <1>0. /\ a \in Threads /\ a \in Janitors /\ pc \in [Threads -> Places]
        /\ Quiet(a) /\ Offered(a) /\ Marks /\ offered \subseteq offered'
        /\ target[a] \in DOMAIN pool
    BY DEF Threads, Janitors, Typed, ThreadsTyped, Watch, Orderly, Books, Seats, Placed, In
  <1>1. /\ (\A p \in Owners : Turns(p)) /\ Tidies
        /\ pool'[target[a]].state = "retiring"
    BY <1>0, RetiringTurns DEF Rejects, Tidies
  <1>2. pc'[a] = place /\ waits' = waits /\ target' = target
    BY <1>0 DEF Rejects
  <1>3. Quiet(a)' /\ Grows(a) /\ Dozes(a) /\ Offered(a)'
    BY <1>0, <1>2 DEF Quiet, Grows, Dozes, Offered, Tidying, Watching, Sleeping, Latent
  <1>4. Carries(a)
    BY <1>1, <1>2 DEF Carries, Left, Holding, Returning, Lent
  <1> QED
    BY <1>1, <1>3, <1>4 DEF Proceeds, Acts

LEMMA TakeProceeds ==
    ASSUME Typed, Seats, Watch, Books, NEW a \in Attempts, Takes(a) \/ BindFails(a)
    PROVE  Proceeds(a)
  <1>0. /\ a \in Threads /\ a \in Janitors /\ pc \in [Threads -> Places]
        /\ Notified(pc) \in [Threads -> Places]
        /\ Quiet(a) /\ Offered(a) /\ Marks /\ offered \subseteq offered'
        /\ DOMAIN pool \subseteq Owners /\ \A o \in DOMAIN pool : pool[o] \in Entry
    BY NotifiedTyped DEF Threads, Janitors, Typed, ThreadsTyped, PoolTyped, Watch, Orderly, Books
  <1>1. ASSUME pc[a] \in {"idle", "taking", "late", "asleep", "binding"},
               pc'[a] \in {"idle", "taking", "late", "asleep", "binding", "bound", "blocked", "cold"},
               todo' = todo, waits' = waits
        PROVE  Acts(a)
    BY <1>0, <1>1, PlainActs DEF Holding, Returning, Lent, Tidying, Watching, Latent, Sleeping
  <1>2. ASSUME NEW place \in {"idle", "blocked", "cold"}, Leaves(a, place), Looks(a) PROVE Proceeds(a)
    <2>1. pc'[a] = place /\ todo' = todo /\ waits' = waits
      BY <1>0, <1>2 DEF Leaves
    <2>2. Acts(a)
      BY <1>1, <1>2, <2>1 DEF Looks
    <2>3. pool' = pool \/ \E o \in DOMAIN pool : pool' = [pool EXCEPT ![o].waiting = Nobody]
      BY <1>2 DEF Leaves, Unmarked
    <2>4. \A o \in Owners : Turns(o)
      BY <1>0, <2>3, PoolTurns, WaitingTurns
    <2> QED
      BY <2>1, <2>2, <2>4 DEF Proceeds, Tidies
  <1>3. CASE TakeRefused(a) \/ TakeFallsBack(a)
    BY <1>2, <1>3 DEF TakeRefused, TakeFallsBack, MayTake
  <1>4. CASE TakeAwaitsRetirement(a)
    <2>1. CASE Leaves(a, "blocked")
      BY <1>2, <1>4, <2>1 DEF TakeAwaitsRetirement, MayTake
    <2>2. CASE Goes(a, "asleep") /\ UNCHANGED shared
      <3>1. Acts(a)
        BY <1>0, <1>1, <1>4, <2>2 DEF TakeAwaitsRetirement, MayTake, Looks, Goes
      <3> QED
        BY <1>0, <2>2, <3>1, PoolProceeds DEF Goes, shared
    <2> QED
      BY <1>4, <2>1, <2>2 DEF TakeAwaitsRetirement
  <1>5. CASE TakeMisses(a)
    <2>1. Acts(a)
      BY <1>0, <1>1, <1>5 DEF TakeMisses, MayTake, Looks, Rests
    <2> QED
      BY <1>0, <1>5, <2>1, PoolProceeds DEF TakeMisses, Rests, shared
  <1>6. CASE TakeQueues(a)
    <2>0. PICK w : \E o \in Claimable(a) : pool' = [pool EXCEPT ![o].waiting = w]
      BY <1>6 DEF TakeQueues
    <2>1. PICK o \in Claimable(a) : pool' = [pool EXCEPT ![o].waiting = w]
      BY <2>0
    <2>2. \A p \in Owners : Turns(p)
      BY <1>0, <2>1, WaitingTurns DEF Claimable
    <2>3. pc'[a] \in {"asleep", "blocked"} /\ todo' = todo /\ waits' = waits
      BY <1>0, <1>6 DEF TakeQueues
    <2>4. Acts(a)
      BY <1>1, <1>6, <2>3 DEF TakeQueues, MayTake, Looks
    <2> QED
      BY <2>2, <2>3, <2>4 DEF Proceeds, Tidies
  <1>7. CASE TakeClaims(a)
    <2>1. PICK o \in Claimable(a) :
            pool' = [pool EXCEPT ![o].state = "claiming", ![o].waiting = Nobody]
      BY <1>7 DEF TakeClaims
    <2>2. o \in DOMAIN pool /\ pool[o] \in Entry /\ pool[o].reason = "none"
      BY <1>0 DEF Claimable
    <2>3. pool'[o] = [pool[o] EXCEPT !.state = "claiming", !.waiting = Nobody]
      BY <2>1, <2>2
    <2>4. /\ pool'[o].key = pool[o].key /\ pool'[o].interests = pool[o].interests
          /\ pool'[o].state = "claiming" /\ pool'[o].reason = pool[o].reason
      BY <2>2, <2>3 DEF Entry
    <2>5. Stays(o)
      BY <2>1, <2>2, <2>4 DEF Stays, Loses
    <2>6. \A p \in Owners : Turns(p)
      BY <1>0, <2>1, <2>2, <2>5, EntryTurns
    <2>7. pc'[a] = "binding" /\ todo' = todo /\ waits' = waits
      BY <1>0, <1>7 DEF TakeClaims
    <2>8. Acts(a)
      BY <1>1, <1>7, <2>7 DEF TakeClaims, MayTake, Looks
    <2> QED
      BY <2>6, <2>7, <2>8 DEF Proceeds, Tidies
  <1>8. CASE TakeDeadline(a) \/ Bind(a)
    <2>1. Acts(a)
      BY <1>0, <1>1, <1>8 DEF TakeDeadline, Bind, Moves, Goes
    <2> QED
      BY <1>0, <1>8, <2>1, PoolProceeds DEF TakeDeadline, Bind, Moves, Goes, shared
  <1>9. CASE BindRefused(a) \/ ClaimRetired(a) \/ BindFails(a)
    BY <1>9, RejectsProceeds DEF BindRefused, ClaimRetired, BindFails
  <1>10. CASE Claimed(a)
    <2>1. /\ pc[a] = "bound" /\ pc'[a] = "leased" /\ target' = target /\ todo' = todo /\ waits' = waits
          /\ pool' = Without(pool, target[a]) /\ pool[target[a]].reason = "none"
      BY <1>0, <1>10 DEF Claimed
    <2>2. target[a] \in DOMAIN pool
      BY <2>1 DEF Seats, Placed, In
    <2>3. \A t \in Threads : target[a] \notin waits[t]
      BY <2>1, <2>2 DEF Watch, Watched
    <2>4. Carries(a)
      BY <2>1, <2>3 DEF Carries, Holding, Returning
    <2>5. Quiet(a)' /\ Grows(a) /\ Dozes(a) /\ Offered(a)'
      BY <1>0, <2>1 DEF Quiet, Grows, Dozes, Offered, Tidying, Watching, Sleeping, Latent
    <2>6. Awake
      <3>1. pc' = [Notified(pc) EXCEPT ![a] = "leased"] /\ "leased" \notin Sleeping
        BY <1>10 DEF Claimed, Sleeping
      <3> QED
        BY <1>0, <3>1, NotifiedAwake
    <2>7. \A o \in Owners : Turns(o)
      BY <1>0, <2>1, <2>2, <2>6, LeaveTurns
    <2> QED
      BY <2>1, <2>4, <2>5, <2>7 DEF Proceeds, Tidies, Acts
  <1>11. CASE ClaimEnds(a)
    <2>1. /\ pc[a] \in {"refused", "rejected"} /\ pc'[a] \in {"cold", "idle", "blocked"} /\ todo[a] = {}
          /\ pool' = pool /\ todo' = todo /\ waits' = waits
      BY <1>0, <1>11 DEF ClaimEnds
    <2>2. Quiet(a)' /\ Grows(a) /\ Dozes(a) /\ Offered(a)'
      BY <1>0, <2>1 DEF Quiet, Grows, Dozes, Offered, Tidying, Watching, Sleeping, Latent
    <2>3. Carries(a)
      BY <2>1, ElsewhereCarries DEF Holding, Returning, Lent
    <2> QED
      BY <1>0, <2>1, <2>2, <2>3, PoolProceeds DEF Acts
  <1> QED
    BY <1>3, <1>4, <1>5, <1>6, <1>7, <1>8, <1>9, <1>10, <1>11 DEF Takes

LEMMA ColdProceeds ==
    ASSUME Typed, Watch, Books, NEW a \in Attempts, Cold(a) \/ CreationFails(a)
    PROVE  Proceeds(a)
  <1>0. /\ a \in Threads /\ a \in Janitors /\ pc \in [Threads -> Places]
        /\ waits \in [Threads -> SUBSET Owners] /\ target \in [Attempts -> Owners \cup {Nobody}]
        /\ Quiet(a) /\ Offered(a) /\ Marks /\ offered \subseteq offered'
    BY DEF Threads, Janitors, Typed, ThreadsTyped, Watch, Orderly, Books
  <1>1. CASE ColdRefused(a) \/ ColdNotAdmitted(a) \/ CreationFails(a)
    <2>1. /\ pc[a] \in {"cold", "acquiring", "creating"} /\ pc'[a] \in {"idle", "blocked"}
          /\ todo' = todo /\ waits' = waits /\ pool' = pool
      BY <1>0, <1>1 DEF ColdRefused, ColdNotAdmitted, CreationFails, Moves, Goes, Rests, shared
    <2>2. Acts(a)
      BY <1>0, <2>1, PlainActs DEF Holding, Returning, Lent, Tidying, Watching, Latent, Sleeping
    <2> QED
      BY <1>0, <2>1, <2>2, PoolProceeds
  <1>2. CASE Creates(a) /\ pc[a] \in {"cold", "acquiring"}
    <2>1. PICK o \in Owners : IsFresh(o) /\ target' = [target EXCEPT ![a] = o]
      BY <1>2 DEF Creates
    <2>2. /\ pc'[a] = "creating" /\ target'[a] = o
          /\ todo' = todo /\ waits' = waits /\ pool' = pool
      BY <1>0, <1>2, <2>1 DEF Creates
    <2>3. \A t \in Threads : o \notin waits[t]
      BY <2>1, FreshIsNew
    <2>4. Carries(a)
      BY <1>2, <2>2, <2>3 DEF Carries, Holding, Returning
    <2>5. Quiet(a)' /\ Grows(a) /\ Dozes(a) /\ Offered(a)'
      BY <1>0, <1>2, <2>2 DEF Quiet, Grows, Dozes, Offered, Tidying, Watching, Sleeping, Latent
    <2> QED
      BY <1>0, <2>2, <2>4, <2>5, PoolProceeds DEF Acts
  <1>3. CASE ColdDrains(a)
    <2>1. EvictIdle(a, TRUE, "draining") /\ pc[a] = "cold" /\ "draining" \in Places
      BY <1>3 DEF ColdDrains, Places, Busy
    <2>2. todo[a] = {}
      BY <1>0, <2>1 DEF Quiet, Tidying
    <2>3. (\A o \in Owners : Turns(o)) /\ Tidies /\ Grows(a) /\ pc'[a] = "draining"
      BY <1>0, <2>1, <2>2, EvictTurns
    <2>4. Quiet(a)' /\ Dozes(a) /\ Offered(a)'
      BY <1>0, <2>1, <2>3 DEF Quiet, Dozes, Offered, Tidying, Watching, Sleeping, Latent
    <2>5. Carries(a)
      BY <2>1, <2>3, ElsewhereCarries DEF Holding, Returning, Lent
    <2> QED
      BY <2>3, <2>4, <2>5 DEF Proceeds, Acts
  <1>4. CASE DrainSleeps(a) \/ DrainEnds(a)
    <2>1. /\ pc[a] = "draining" /\ todo[a] = {} /\ todo' = todo /\ pool' = pool
          /\ \/ pc'[a] = "drainsleep" /\ waits' = waits /\ Unretired(a) # {}
             \/ pc'[a] \in {"idle", "acquiring"} /\ waits'[a] = {}
      BY <1>0, <1>4 DEF DrainSleeps, DrainEnds, Sleeps, Waited, Goes, shared
    <2>2. Quiet(a)' /\ Grows(a) /\ Dozes(a) /\ Offered(a)'
      BY <1>0, <2>1 DEF Quiet, Grows, Dozes, Offered, Tidying, Watching, Sleeping, Latent
    <2>3. Carries(a)
      BY <2>1, ElsewhereCarries DEF Holding, Returning, Lent
    <2> QED
      BY <1>0, <2>1, <2>2, <2>3, PoolProceeds DEF Acts
  <1>5. CASE Created(a)
    <2>1. /\ pc[a] = "creating" /\ pc'[a] = "leased" /\ target' = target
          /\ todo' = todo /\ waits' = waits /\ pool' = pool
      BY <1>0, <1>5 DEF Created, Moves, Goes, shared
    <2>2. Carries(a)
      BY <2>1 DEF Carries, Holding, Returning, Lent
    <2>3. Quiet(a)' /\ Grows(a) /\ Dozes(a) /\ Offered(a)'
      BY <1>0, <2>1 DEF Quiet, Grows, Dozes, Offered, Tidying, Watching, Sleeping, Latent
    <2> QED
      BY <1>0, <2>1, <2>2, <2>3, PoolProceeds DEF Acts
  <1> QED
    BY <1>1, <1>2, <1>3, <1>4, <1>5 DEF Cold, ColdAtOnce, ColdAdmitted

LEMMA ReturnProceeds ==
    ASSUME Typed, Seats, Watch, Books, NEW a \in Attempts,
           \/ ReturnSkipped(a) \/ ReturnStarts(a) \/ Returns(a)
           \/ ResetFails(a) \/ NotDestroyed(a) \/ NotRecorded(a)
    PROVE  Proceeds(a)
  <1>0. /\ a \in Threads /\ a \in Janitors /\ pc \in [Threads -> Places]
        /\ Notified(pc) \in [Threads -> Places] /\ target \in [Attempts -> Owners \cup {Nobody}]
        /\ todo \in [Janitors -> SUBSET Owners]
        /\ Quiet(a) /\ Offered(a) /\ Marks /\ offered \subseteq offered'
        /\ \A o \in DOMAIN pool : pool[o] \in Entry
    BY NotifiedTyped DEF Threads, Janitors, Typed, ThreadsTyped, PoolTyped, Watch, Orderly, Books
  <1>1. CASE ReturnSkipped(a)
    <2>1. /\ pc[a] = "leased" /\ pc'[a] = "destroying"
          /\ todo' = todo /\ waits' = waits /\ pool' = pool
      BY <1>0, <1>1 DEF ReturnSkipped, Moves, Goes, shared
    <2>2. Acts(a)
      BY <1>0, <2>1, PlainActs DEF Holding, Returning, Lent, Tidying, Watching, Latent, Sleeping
    <2> QED
      BY <1>0, <2>1, <2>2, PoolProceeds
  <1>2. CASE ReturnStarts(a)
    <2>1. /\ pc[a] = "leased" /\ pc'[a] = "resetting" /\ target' = target
          /\ todo' = todo /\ waits' = waits
          /\ pool' = With(pool, target[a],
                          [state |-> "resetting", key |-> Environment[a], interests |-> {a},
                           reason |-> "none", waiting |-> Nobody, parked |-> FALSE])
      BY <1>0, <1>2 DEF ReturnStarts, Goes
    <2>2. target[a] \notin DOMAIN pool /\ target[a] \in Owners
      BY <2>1 DEF Seats, Placed, Serving, UserPositions
    <2>3. /\ target[a] \in DOMAIN pool' /\ pool'[target[a]].state = "resetting"
          /\ pool'[target[a]].key = Environment[a] /\ pool'[target[a]].interests = {a}
          /\ pool'[target[a]].reason = "none"
      BY <2>1 DEF With
    <2>4. \A t \in Threads : target[a] \notin waits[t]
      BY <2>1 DEF Watch, Watched, Lent
    <2>5. \A b \in Attempts : pc[b] \in Holding => target[b] # target[a]
      BY <2>1 DEF Seats, Apart, Holding, Returning, Serving, UserPositions
    <2>6. \A o \in Owners : Turns(o)
      <3>1. Enters(target[a])
        BY <2>1, <2>2, <2>3, <2>4, <2>5 DEF Enters, Returning
      <3> QED
        BY <1>0, <2>1, <2>2, <3>1, EnterTurns
    <2>7. Carries(a)
      BY <2>1, <2>3 DEF Carries, Holding, Returning, Lent
    <2>8. Quiet(a)' /\ Grows(a) /\ Dozes(a) /\ Offered(a)'
      BY <1>0, <2>1 DEF Quiet, Grows, Dozes, Offered, Tidying, Watching, Sleeping, Latent
    <2> QED
      BY <2>1, <2>6, <2>7, <2>8 DEF Proceeds, Tidies, Acts
  <1>3. CASE ResetStops(a) \/ ResetParks(a)
    <2>1. /\ pc[a] \in {"resetting", "wiping"} /\ pc'[a] \in {"wiping", "parking"} /\ target' = target
          /\ todo' = todo /\ waits' = waits /\ pool' = pool
      BY <1>0, <1>3 DEF ResetStops, ResetParks, Goes
    <2>2. Carries(a)
      BY <2>1 DEF Carries, Holding, Returning, Lent
    <2>3. Quiet(a)' /\ Grows(a) /\ Dozes(a) /\ Offered(a)'
      BY <1>0, <2>1 DEF Quiet, Grows, Dozes, Offered, Tidying, Watching, Sleeping, Latent
    <2> QED
      BY <1>0, <2>1, <2>2, <2>3, PoolProceeds DEF Acts
  <1>4. CASE ResetVerified(a)
    <2>1. /\ pc[a] = "parking" /\ pc'[a] = "validated" /\ target' = target
          /\ todo' = todo /\ waits' = waits
      BY <1>0, <1>4 DEF ResetVerified
    <2>2. target[a] \in DOMAIN pool /\ pool[target[a]] \in Entry /\ pool[target[a]].state = "resetting"
      BY <1>0, <2>1 DEF Seats, Placed, In
    <2>3. /\ DOMAIN pool' = DOMAIN pool
          /\ \A p \in DOMAIN pool \ {target[a]} : pool'[p] = pool[p]
          /\ pool'[target[a]] = [pool[target[a]] EXCEPT !.state = "validated", !.parked = TRUE]
      BY <1>4, <2>2 DEF ResetVerified
    <2>4. /\ pool'[target[a]].key = pool[target[a]].key
          /\ pool'[target[a]].interests = pool[target[a]].interests
          /\ pool'[target[a]].reason = pool[target[a]].reason
          /\ pool'[target[a]].state = "validated"
      BY <2>2, <2>3 DEF Entry
    <2>5. Stays(target[a])
      BY <1>0, <2>1, <2>2, <2>3, <2>4 DEF Stays, Loses, SameMark, Marks
    <2>6. \A o \in Owners : Turns(o)
      BY <1>0, <2>2, <2>3, <2>5, EntryTurns
    <2>7. Carries(a)
      BY <2>1, <2>4 DEF Carries, Left, Holding, Returning, Lent
    <2>8. Quiet(a)' /\ Grows(a) /\ Dozes(a) /\ Offered(a)'
      BY <1>0, <2>1 DEF Quiet, Grows, Dozes, Offered, Tidying, Watching, Sleeping, Latent
    <2> QED
      BY <2>1, <2>6, <2>7, <2>8 DEF Proceeds, Tidies, Acts
  <1>5. CASE ResetFails(a) \/ ResetInterrupted(a)
    BY <1>5, RejectsProceeds DEF ResetFails, ResetInterrupted
  <1>6. CASE Destroyed(a) \/ NotDestroyed(a) \/ Published(a)
    <2>1. /\ pc[a] \in {"destroying", "publishing"} /\ pc'[a] \in {"ended", "blocked"} /\ todo[a] = {}
          /\ todo' = todo /\ waits' = waits /\ pool' = pool
      BY <1>0, <1>6 DEF Destroyed, NotDestroyed, Published, Rests, Moves, Goes, shared
    <2>2. Quiet(a)' /\ Grows(a) /\ Dozes(a) /\ Offered(a)'
      BY <1>0, <2>1 DEF Quiet, Grows, Dozes, Offered, Tidying, Watching, Sleeping, Latent
    <2>3. Carries(a)
      BY <2>1, ElsewhereCarries DEF Holding, Returning, Lent
    <2> QED
      BY <1>0, <2>1, <2>2, <2>3, PoolProceeds DEF Acts
  <1>7. CASE NothingToPublish(a) \/ NotRecorded(a)
    <2>1. /\ pc[a] = "validated" /\ pc'[a] = "ended"
          /\ todo' = todo /\ waits' = waits /\ pool' = pool
      BY <1>0, <1>7 DEF NothingToPublish, NotRecorded, Rests, shared
    <2>2. Quiet(a)' /\ Grows(a) /\ Dozes(a) /\ Offered(a)'
      BY <1>0, <2>1 DEF Quiet, Grows, Dozes, Offered, Tidying, Watching, Sleeping, Latent
    <2>3. Carries(a)
      BY <2>1 DEF Carries, Holding, Returning, Lent
    <2> QED
      BY <1>0, <2>1, <2>2, <2>3, PoolProceeds DEF Acts
  <1>8. CASE Publish(a)
    <2> DEFINE o == target[a]
               s == IF pool[o].reason = "none" THEN "ready" ELSE "retiring"
    <2>1.   /\ s \in {"ready", "retiring"} /\ o = target[a] /\ o \in DOMAIN pool /\ pool[o].state = "validated"
            /\ s = "ready" <=> pool[o].reason = "none"
            /\ pool' = [pool EXCEPT ![o].state = s, ![o].interests = {}]
            /\ todo' = [todo EXCEPT ![a] = IF s = "ready" THEN {} ELSE {o}]
            /\ pc[a] = "validated"
            /\ pc' = [Notified(pc) EXCEPT ![a] = IF s = "ready" THEN "ended" ELSE "publishing"]
            /\ target' = [target EXCEPT ![a] = Nobody] /\ waits' = waits
      BY <1>8 DEF Publish, EntriesIn
    <2> HIDE DEF o, s
    <2>2. /\ DOMAIN pool' = DOMAIN pool
          /\ \A p \in DOMAIN pool \ {o} : pool'[p] = pool[p]
          /\ pool[o] \in Entry
          /\ pool'[o] = [pool[o] EXCEPT !.state = s, !.interests = {}]
      BY <1>0, <2>1
    <2>3. /\ pool'[o].key = pool[o].key /\ pool'[o].interests = {}
          /\ pool'[o].reason = pool[o].reason /\ pool'[o].state = s
      BY <2>2 DEF Entry
    <2>4. ASSUME NEW b \in Attempts, pc'[b] \in Holding, target'[b] = o PROVE FALSE
      <3>1. b # a
        BY <1>0, <2>1, <2>4 DEF Holding, Returning
      <3>2. b \in Threads /\ pc'[b] = Notified(pc)[b] /\ target[b] = o
        BY <1>0, <2>1, <2>4, <3>1 DEF Threads
      <3>3. pc[b] \in Holding
        BY <2>4, <3>2, NotifiedTyped DEF Typed, ThreadsTyped, Holding, Returning
      <3> QED
        BY <2>1, <3>1, <3>2, <3>3 DEF Seats, Apart, Holding, Returning, Serving, UserPositions
    <2>5. Loses(o)
      BY <2>4 DEF Loses
    <2>6. o \in todo'[a] \/ s = "ready"
      BY <1>0, <2>1
    <2>7. Stays(o)
      BY <1>0, <2>1, <2>2, <2>3, <2>5, <2>6 DEF Stays
    <2>8. \A p \in Owners : Turns(p)
      BY <1>0, <2>1, <2>2, <2>7, EntryTurns
    <2>9. todo[a] = {}
      BY <1>0, <2>1 DEF Quiet, Tidying
    <2>10. Tidies
      BY <1>0, <2>1, <2>9 DEF Tidies
    <2>11. pc'[a] = IF s = "ready" THEN "ended" ELSE "publishing"
      BY <1>0, <2>1
    <2>12. Carries(a)
      BY <2>1, <2>3, <2>11 DEF Carries, Left, Holding, Returning, Lent
    <2>13. Quiet(a)' /\ Grows(a) /\ Dozes(a) /\ Offered(a)'
      <3>1. waits'[a] = {} /\ (todo'[a] # {} => pc'[a] = "publishing")
        BY <1>0, <2>1, <2>11 DEF Quiet, Watching, Sleeping
      <3> QED
        BY <1>0, <2>1, <2>11, <3>1 DEF Quiet, Grows, Dozes, Offered, Tidying, Sleeping, Latent
    <2> QED
      BY <2>8, <2>10, <2>12, <2>13 DEF Proceeds, Acts
  <1> QED
    BY <1>1, <1>2, <1>3, <1>4, <1>5, <1>6, <1>7, <1>8 DEF Returns

LEMMA AbortProceeds ==
    ASSUME Typed, Seats, Watch, Books, NEW a \in Attempts, CancelPending(a) \/ Aborts(a) \/ NotRemoved(a)
    PROVE  Proceeds(a)
  <1>0. /\ a \in Threads /\ a \in Janitors /\ pc \in [Threads -> Places]
        /\ Notified(pc) \in [Threads -> Places] /\ waits \in [Threads -> SUBSET Owners]
        /\ todo \in [Janitors -> SUBSET Owners]
        /\ Quiet(a) /\ Offered(a) /\ Marks /\ offered \subseteq offered'
    BY NotifiedTyped DEF Threads, Janitors, Typed, ThreadsTyped, Watch, Orderly, Books
  <1>1. CASE CancelPending(a)
    <2>1. CancelInterest(a, {}) /\ pc' = Notified(pc) /\ target' = target /\ todo' = todo /\ waits' = waits
      BY <1>1 DEF CancelPending
    <2>2. \A o \in Owners : Turns(o)
      BY <1>0, <2>1, CancelTurns
    <2>3. Acts(a)
      BY <1>0, <2>1, OnlookerActs DEF Onlooks
    <2> QED
      BY <2>1, <2>2, <2>3 DEF Proceeds, Tidies
  <1>2. CASE Withdraw(a)
    <2>0. PICK idle : idle = Abandoned(a) \cap EntriesIn(AtRest)
      OBVIOUS
    <2>1. /\ idle \in SUBSET Owners /\ CancelInterest(a, idle) /\ idle \subseteq Abandoned(a)
          /\ todo' = [todo EXCEPT ![a] = idle] /\ waits' = [waits EXCEPT ![a] = Abandoned(a)]
          /\ pc[a] \in Resting \ {"aborted"}
          /\ pc' = [Notified(pc) EXCEPT ![a] = "withdrawing"]
      BY <1>2, <2>0, AbandonedTyped DEF Withdraw, Typed
    <2>2. /\ todo'[a] = idle /\ waits'[a] = Abandoned(a) /\ pc'[a] = "withdrawing"
          /\ todo[a] = {}
      BY <1>0, <2>1 DEF Quiet, Tidying, Resting
    <2>3. /\ \A o \in Owners : Turns(o)
          /\ DOMAIN pool' = DOMAIN pool
          /\ \A o \in Abandoned(a) : o \in DOMAIN pool' /\ pool'[o].reason = "cancelled"
          /\ \A o \in DOMAIN pool : pool'[o].state = IF o \in idle THEN "retiring" ELSE pool[o].state
      <3>1. \A o \in idle : o \in todo'[a]
        BY <2>2
      <3> QED
        BY <1>0, <2>1, <3>1, CancelTurns
    <2>4. \A o \in Abandoned(a) : pool'[o].state \notin {"ready", "validated"}
      BY <2>0, <2>3 DEF EntriesIn, AtRest
    <2>5. Tidies
      BY <1>0, <2>1, <2>2 DEF Tidies
    <2>6. Grows(a)
      BY <2>2, <2>3, <2>4 DEF Grows
    <2>7. Carries(a)
      <3>1. \A o \in DOMAIN pool : CancelledBefore(a, o) => o \in Abandoned(a)
        BY DEF Abandoned
      <3>2. pc[a] \notin Holding
        BY <2>1 DEF Resting, Holding, Returning
      <3> QED
        BY <2>2, <2>4, <3>1, <3>2 DEF Carries, Left, Holding, Returning, Lent
    <2>8. Quiet(a)' /\ Dozes(a) /\ Offered(a)'
      BY <2>2 DEF Quiet, Dozes, Offered, Tidying, Watching, Sleeping, Latent
    <2> QED
      BY <2>3, <2>5, <2>6, <2>7, <2>8 DEF Proceeds, Acts
  <1>3. CASE WithdrawSleeps(a) \/ WithdrawEnds(a)
    <2>1. /\ pc[a] = "withdrawing" /\ todo[a] = {} /\ todo' = todo /\ pool' = pool
          /\ \/ pc'[a] = "withdrawsleep" /\ waits' = waits /\ Unretired(a) # {}
             \/ pc'[a] \in {"removing", "reporting"} /\ waits'[a] = {}
      BY <1>0, <1>3 DEF WithdrawSleeps, WithdrawEnds, Sleeps, Waited, Goes, shared
    <2>2. Quiet(a)' /\ Grows(a) /\ Dozes(a) /\ Offered(a)'
      BY <1>0, <2>1 DEF Quiet, Grows, Dozes, Offered, Tidying, Watching, Sleeping, Latent
    <2>3. Carries(a)
      BY <2>1, ElsewhereCarries DEF Holding, Returning, Lent
    <2> QED
      BY <1>0, <2>1, <2>2, <2>3, PoolProceeds DEF Acts
  <1>4. CASE Removed(a) \/ NotRemoved(a)
    <2>1. /\ pc[a] \in {"removing", "reporting"} /\ pc'[a] \in {"aborted", "blocked"}
          /\ todo' = todo /\ waits' = waits /\ pool' = pool
      BY <1>0, <1>4 DEF Removed, NotRemoved, Goes
    <2>2. Quiet(a)' /\ Grows(a) /\ Dozes(a) /\ Offered(a)'
      BY <1>0, <2>1 DEF Quiet, Grows, Dozes, Offered, Tidying, Watching, Sleeping, Latent
    <2>3. Carries(a)
      BY <2>1, ElsewhereCarries DEF Holding, Returning, Lent
    <2> QED
      BY <1>0, <2>1, <2>2, <2>3, PoolProceeds DEF Acts
  <1> QED
    BY <1>1, <1>2, <1>3, <1>4 DEF Aborts

\* The threads that a step of an attempt is not of.
LEMMA OthersOnlook ==
    ASSUME Typed, NEW a \in Attempts, Requests(a) \/ Works(a) \/ Fails(a), NEW t \in Threads \ {a}
    PROVE  Onlooks(t)
  <1>0. /\ a \in Threads /\ a \in Janitors /\ t \in Janitors
        /\ pc \in [Threads -> Places] /\ Notified(pc) \in [Threads -> Places]
        /\ todo \in [Janitors -> SUBSET Owners] /\ waits \in [Threads -> SUBSET Owners]
        /\ target \in [Attempts -> Owners \cup {Nobody}]
    BY NotifiedTyped DEF Threads, Janitors, Typed, ThreadsTyped
  <1>1. CASE Requests(a) \/ Offers(a)
    BY <1>0, <1>1 DEF Requests, Preflight, ReturnSkipped, ReturnStarts, CancelPending, Offers, OfferSkipped,
         OfferMerged, OfferReplaces, OfferAgain, OfferStarts, Retiring, Moves, Goes, Onlooks
  <1>2. ASSUME NEW place, Rejects(a, place) PROVE Onlooks(t)
    BY <1>0, <1>2 DEF Rejects, Retiring, Onlooks
  <1>3. CASE Takes(a) \/ BindFails(a)
    <2>1. CASE TakeRefused(a) \/ TakeAwaitsRetirement(a) \/ TakeFallsBack(a) \/ TakeMisses(a)
      BY <1>0, <2>1 DEF TakeRefused, TakeAwaitsRetirement, TakeFallsBack, TakeMisses, Leaves, Goes, Rests, Onlooks
    <2>2. CASE TakeQueues(a)
      BY <1>0, <2>2 DEF TakeQueues, Onlooks
    <2>3. CASE TakeClaims(a) \/ TakeDeadline(a) \/ Bind(a) \/ Claimed(a) \/ ClaimEnds(a)
      BY <1>0, <2>3 DEF TakeClaims, TakeDeadline, Bind, Claimed, ClaimEnds, Moves, Goes, Onlooks
    <2>4. CASE BindRefused(a) \/ ClaimRetired(a) \/ BindFails(a)
      BY <1>2, <2>4 DEF BindRefused, ClaimRetired, BindFails
    <2> QED
      BY <1>3, <2>1, <2>2, <2>3, <2>4 DEF Takes
  <1>4. CASE Cold(a) \/ CreationFails(a)
    <2>1. CASE ColdDrains(a)
      BY <1>0, <2>1 DEF ColdDrains, EvictIdle, Onlooks
    <2>2. CASE Creates(a) \/ CreationFails(a)
      BY <1>0, <2>2 DEF Creates, CreationFails, Rests, Onlooks
    <2>3. CASE ColdRefused(a) \/ DrainSleeps(a) \/ DrainEnds(a) \/ ColdNotAdmitted(a) \/ Created(a)
      BY <1>0, <2>3 DEF ColdRefused, DrainSleeps, DrainEnds, ColdNotAdmitted, Created, Sleeps, Waited, Moves,
           Goes, Onlooks
    <2> QED
      BY <1>4, <2>1, <2>2, <2>3 DEF Cold, ColdAtOnce, ColdAdmitted
  <1>5. CASE Returns(a) \/ ResetFails(a) \/ NotDestroyed(a) \/ NotRecorded(a)
    <2>1. CASE ResetInterrupted(a) \/ ResetFails(a)
      BY <1>2, <2>1 DEF ResetInterrupted, ResetFails
    <2>2. CASE ResetStops(a) \/ ResetParks(a) \/ ResetVerified(a) \/ Publish(a)
      BY <1>0, <2>2 DEF ResetStops, ResetParks, ResetVerified, Publish, Goes, Onlooks
    <2>3. CASE \/ Destroyed(a) \/ NothingToPublish(a) \/ Published(a)
               \/ NotDestroyed(a) \/ NotRecorded(a)
      BY <1>0, <2>3 DEF Destroyed, NothingToPublish, Published, NotDestroyed, NotRecorded, Rests, Moves, Goes,
           Onlooks
    <2> QED
      BY <1>5, <2>1, <2>2, <2>3 DEF Returns
  <1>6. CASE Aborts(a) \/ NotRemoved(a)
    <2>1. CASE Withdraw(a)
      BY <1>0, <2>1 DEF Withdraw, Onlooks
    <2>2. CASE WithdrawSleeps(a) \/ WithdrawEnds(a) \/ Removed(a) \/ NotRemoved(a)
      BY <1>0, <2>2 DEF WithdrawSleeps, WithdrawEnds, Removed, NotRemoved, Sleeps, Waited, Goes, Onlooks
    <2> QED
      BY <1>6, <2>1, <2>2 DEF Aborts
  <1> QED
    BY <1>1, <1>3, <1>4, <1>5, <1>6 DEF Works, Fails

LEMMA OthersAct ==
    ASSUME Typed, Orderly, Books, NEW t \in Threads, Onlooks(t)
    PROVE  Acts(t)
  <1>1. Quiet(t) /\ (t \in Attempts => Offered(t)) /\ offered \subseteq offered'
    BY DEF Orderly, Books
  <1> QED
    BY <1>1, OnlookerActs

\* If each thread acts in this way, the entries and the threads pass the step.
LEMMA ActsPass ==
    ASSUME Orderly, Books, pc'[Closer] = "open" \/ stopped',
           Tidies, \A o \in Owners : Turns(o), \A t \in Threads : Acts(t)
    PROVE  Orderly' /\ Passes
  <1>1. \A a \in Attempts : a \in Threads
    BY DEF Threads
  <1> QED
    BY <1>1 DEF Acts, Orderly, Passes, Tidies, Books

LEMMA AttemptPasses ==
    ASSUME Typed, Seats, Watch, Books, NEW a \in Attempts, Requests(a) \/ Works(a) \/ Fails(a)
    PROVE  Orderly' /\ Passes
  <1>1. Proceeds(a)
    BY OfferProceeds, TakeProceeds, ColdProceeds, ReturnProceeds, AbortProceeds DEF Requests, Works, Fails
  <1>2. \A t \in Threads \ {a} : Onlooks(t)
    BY OthersOnlook
  <1>3. \A t \in Threads : Acts(t)
    BY <1>1, <1>2, OthersAct DEF Proceeds, Watch
  <1>4. pc[Closer] = "open" => pc'[Closer] = "open"
    <2>1. Closer \in Threads /\ Closer # a
      BY PoolAssumption DEF Threads
    <2>2. pc[Closer] = "open" => Notified(pc)[Closer] = "open"
      BY <2>1, NotifiedTyped DEF Typed, ThreadsTyped, Sleeping
    <2> QED
      BY <1>2, <2>1, <2>2 DEF Onlooks
  <1> QED
    BY <1>1, <1>3, <1>4, ActsPass DEF Proceeds, Watch, Orderly, Books

LEMMA BackgroundApart == Background \notin Threads
  <1>1. Background # Closer
    <2> SUFFICES ASSUME Background = Closer PROVE FALSE
      OBVIOUS
    <2>1. {Nobody, Closer, Background} = {Nobody} \cup {Closer}
      OBVIOUS
    <2>2. Cardinality({Nobody} \cup {Closer}) <= 2
      <3>1. IsFiniteSet({Nobody}) /\ Cardinality({Nobody}) = 1
        BY FS_Singleton
      <3>2. Cardinality({Nobody} \cup {Closer}) = IF Closer \in {Nobody} THEN 1 ELSE 1 + 1
        BY <3>1, FS_AddElement
      <3> QED
        BY <3>2
    <2>3. Cardinality({Nobody} \cup {Closer}) = 3
      BY <2>1, PoolAssumption, Zenon
    <2> QED
      BY <2>2, <2>3
  <1> QED
    BY <1>1, PoolAssumption DEF Threads

LEMMA EntryPasses ==
    ASSUME Typed, Seats, Watch, Books, NEW o \in Owners, Prepares(o) \/ Retires(o) \/ Expire(o)
    PROVE  Orderly' /\ Passes
  <1>0. /\ Background \in Janitors /\ Background \notin Threads /\ Closer \in Threads /\ Threads \subseteq Janitors
        /\ todo \in [Janitors -> SUBSET Owners] /\ Marks /\ Orderly
        /\ \A p \in DOMAIN pool : pool[p] \in Entry
    BY BackgroundApart DEF Threads, Janitors, Typed, ThreadsTyped, PoolTyped, Watch
  <1>1. Tidies /\ (\A p \in Owners : Turns(p)) /\ \A t \in Threads : Onlooks(t)
    <2>1. CASE PrepareFails(o) \/ Expire(o)
      <3>1. o \in DOMAIN pool /\ Retiring(o, Background) /\ pc' = pc /\ waits' = waits /\ target' = target
        BY <2>1 DEF PrepareFails, Expire, EntriesIn
      <3>2. /\ \A p \in Owners : Turns(p)
            /\ \A u \in Janitors : todo[u] \subseteq todo'[u]
            /\ \A u \in Janitors \ {Background} : todo'[u] = todo[u]
        BY <1>0, <3>1, RetiringTurns
      <3> QED
        BY <1>0, <3>1, <3>2 DEF Tidies, Onlooks
    <2>2. CASE Prepared(o)
      <3> DEFINE s == IF pool[o].reason = "none" THEN "ready" ELSE "retiring"
      <3>1. /\ o \in DOMAIN pool /\ pool[o] \in Entry
            /\ pool' = [pool EXCEPT ![o].state = s]
            /\ todo' = [todo EXCEPT ![Background] = IF s = "ready" THEN @ ELSE @ \cup {o}]
            /\ pc' \in {pc, Notified(pc)} /\ waits' = waits /\ target' = target
            /\ s \in {"ready", "retiring"} /\ (s = "ready" <=> pool[o].reason = "none")
        BY <1>0, <2>2 DEF Prepared, EntriesIn
      <3> HIDE DEF s
      <3>2. /\ DOMAIN pool' = DOMAIN pool
            /\ \A p \in DOMAIN pool \ {o} : pool'[p] = pool[p]
            /\ pool'[o] = [pool[o] EXCEPT !.state = s]
        BY <3>1
      <3>3. /\ pool'[o].key = pool[o].key /\ pool'[o].interests = pool[o].interests
            /\ pool'[o].reason = pool[o].reason /\ pool'[o].state = s
        BY <3>1, <3>2 DEF Entry
      <3>4. /\ \A u \in Janitors : todo[u] \subseteq todo'[u]
            /\ \A u \in Janitors \ {Background} : todo'[u] = todo[u]
            /\ s = "retiring" => o \in todo'[Background]
        BY <1>0, <3>1
      <3>5. Stays(o)
        BY <1>0, <3>1, <3>2, <3>3, <3>4 DEF Stays, Loses, Marks
      <3>6. \A p \in Owners : Turns(p)
        BY <1>0, <3>1, <3>2, <3>5, EntryTurns
      <3> QED
        BY <1>0, <3>1, <3>4, <3>6 DEF Tidies, Onlooks
    <2>3. CASE Retires(o)
      <3>1. PICK t \in Janitors : Retired(t, o) \/ CleanupBlocked(t, o)
        BY <2>3 DEF Retires
      <3>2. /\ o \in todo[t] /\ todo' = [todo EXCEPT ![t] = @ \ {o}] /\ pc' = Notified(pc)
            /\ waits' = waits /\ target' = target
        BY <3>1 DEF Retired, CleanupBlocked
      <3>3. o \in DOMAIN pool /\ pool[o] \in Entry /\ pool[o].state = "retiring"
        BY <1>0, <3>2 DEF Seats, Cleaning, In
      <3>4. Awake
        <4>1. "open" \notin Sleeping
          BY DEF Sleeping
        <4> QED
          BY <1>0, <3>2, <4>1, NotifiedAwake
      <3>5. (\A p \in Owners : Turns(p)) /\ Left(o, "retiring")
        <4>1. CASE Retired(t, o)
          <5>1. pool' = Without(pool, o)
            BY <4>1 DEF Retired
          <5> QED
            BY <1>0, <3>4, <5>1, LeaveTurns DEF Without, Left
        <4>2. CASE CleanupBlocked(t, o)
          <5>1. /\ DOMAIN pool' = DOMAIN pool
                /\ \A p \in DOMAIN pool \ {o} : pool'[p] = pool[p]
                /\ pool'[o] = [pool[o] EXCEPT !.state = "blocked"]
            BY <3>3, <4>2 DEF CleanupBlocked
          <5>2. /\ pool'[o].key = pool[o].key /\ pool'[o].interests = pool[o].interests
                /\ pool'[o].reason = pool[o].reason /\ pool'[o].state = "blocked"
            BY <3>3, <5>1 DEF Entry
          <5>3. Stays(o)
            BY <1>0, <3>3, <3>4, <5>1, <5>2 DEF Stays, Loses, SameMark, Marks
          <5> QED
            BY <1>0, <3>3, <5>1, <5>2, <5>3, EntryTurns DEF Left
        <4> QED
          BY <3>1, <4>1, <4>2
      <3>6. Tidies
        BY <1>0, <3>2, <3>5 DEF Tidies
      <3>7. \A u \in Threads : Onlooks(u)
        BY <1>0, <3>2 DEF Onlooks
      <3> QED
        BY <3>5, <3>6, <3>7
    <2> QED
      BY <2>1, <2>2, <2>3 DEF Prepares
  <1>2. \A t \in Threads : Acts(t)
    BY <1>0, <1>1, OthersAct
  <1>3. pc[Closer] = "open" => pc'[Closer] = "open"
    <2>1. pc[Closer] = "open" => Notified(pc)[Closer] = "open"
      BY <1>0, NotifiedTyped DEF Typed, ThreadsTyped, Sleeping
    <2> QED
      BY <1>0, <1>1, <2>1 DEF Onlooks
  <1> QED
    BY <1>0, <1>1, <1>2, <1>3, ActsPass DEF Orderly, Books

LEMMA ClosePasses ==
    ASSUME Typed, Seats, Watch, Books, Closes
    PROVE  Orderly' /\ Passes
  <1>0. /\ Closer \in Threads /\ Closer \notin Attempts /\ Threads \subseteq Janitors
        /\ pc \in [Threads -> Places] /\ Notified(pc) \in [Threads -> Places]
        /\ todo \in [Janitors -> SUBSET Owners] /\ waits \in [Threads -> SUBSET Owners]
        /\ Marks /\ Orderly /\ Quiet(Closer)
    BY PoolAssumption, NotifiedTyped DEF Threads, Janitors, Typed, ThreadsTyped, Watch, Orderly
  <1>1. \A t \in Threads \ {Closer} : Onlooks(t)
    BY <1>0 DEF Closes, Close, CloseEvicts, EvictIdle, CloseSleeps, CloseEnds, Sleeps, Waited, Goes, Onlooks
  <1>2. Tidies /\ (\A o \in Owners : Turns(o)) /\ Acts(Closer) /\ pc'[Closer] # "open"
    <2>1. CASE CloseEvicts
      <3>1. EvictIdle(Closer, FALSE, "evicting") /\ pc[Closer] = "closing" /\ "evicting" \in Places
        BY <2>1 DEF CloseEvicts, Places, ClosePositions
      <3>2. todo[Closer] = {} /\ stopped
        BY <1>0, <3>1 DEF Quiet, Tidying, Orderly
      <3>3. (\A o \in Owners : Turns(o)) /\ Tidies /\ Grows(Closer) /\ pc'[Closer] = "evicting"
        BY <1>0, <3>1, <3>2, EvictTurns
      <3>4. Quiet(Closer)' /\ Dozes(Closer)
        BY <3>3 DEF Quiet, Dozes, Tidying, Watching, Sleeping
      <3> QED
        BY <1>0, <3>3, <3>4 DEF Acts
    <2>2. CASE Close \/ CloseSleeps \/ CloseEnds
      <3>1. /\ todo' = todo /\ pool' = pool /\ (pc[Closer] = "open" \/ todo[Closer] = {})
            /\ \/ pc[Closer] = "open" /\ pc'[Closer] = "closing" /\ waits' = waits
               \/ pc[Closer] = "evicting" /\ pc'[Closer] = "evictsleep" /\ waits' = waits
                    /\ Unretired(Closer) # {}
               \/ pc[Closer] = "evicting" /\ pc'[Closer] = "closed" /\ waits'[Closer] = {}
        BY <1>0, <2>2 DEF Close, CloseSleeps, CloseEnds, Sleeps, Waited, Goes, shared
      <3>2. Quiet(Closer)' /\ Grows(Closer) /\ Dozes(Closer)
        BY <1>0, <3>1 DEF Quiet, Grows, Dozes, Tidying, Watching, Sleeping
      <3>3. \A o \in Owners : Turns(o)
        BY <1>0, <3>1, PoolTurns
      <3> QED
        BY <1>0, <3>1, <3>2, <3>3 DEF Acts, Tidies
    <2> QED
      BY <2>1, <2>2 DEF Closes
  <1>3. \A t \in Threads : Acts(t)
    BY <1>0, <1>1, <1>2, OthersAct
  <1>4. pc'[Closer] = "open" \/ stopped'
    <2>1. CASE Close
      BY <2>1 DEF Close
    <2>2. CASE CloseEvicts \/ CloseSleeps \/ CloseEnds
      BY <1>0, <2>2 DEF CloseEvicts, CloseSleeps, CloseEnds, Orderly, Books
    <2> QED
      BY <2>1, <2>2 DEF Closes
  <1> QED
    BY <1>0, <1>2, <1>3, <1>4, ActsPass

LEMMA StepWatch ==
    ASSUME Typed, Typed', Seats, Seats', Watch, [Next]_vars
    PROVE  Watch'
  <1>1. Books
    BY BooksGrow
  <1>2. Orderly' /\ Passes
    <2>1. CASE UNCHANGED vars
      <3>1. pool' = pool /\ todo' = todo /\ waits' = waits /\ pc' = pc /\ target' = target
        BY <2>1 DEF vars, shared, threadVars
      <3>2. \A t \in Threads : Acts(t)
        BY <1>1, <3>1, OthersAct DEF Onlooks, Watch
      <3>3. Tidies /\ \A o \in Owners : Turns(o)
        BY <3>1, PoolTurns DEF Tidies, Watch
      <3> QED
        BY <1>1, <3>1, <3>2, <3>3, ActsPass DEF Watch, Orderly, Books
    <2> QED
      BY <1>1, <2>1, AttemptPasses, EntryPasses, ClosePasses DEF Next
  <1> QED
    BY <1>2, PassesKeeps

LEMMA InitWatch == Init => Watch
  <1> SUFFICES ASSUME Init PROVE Watch
    OBVIOUS
  <1>1. /\ \A t \in Threads : pc[t] = IF t = Closer THEN "open" ELSE "fresh"
        /\ \A t \in Threads : waits[t] = {} /\ todo[t] = {}
        /\ Closer \in Threads /\ \A a \in Attempts : a \in Threads /\ a # Closer
    BY PoolAssumption DEF Init, Threads, Janitors
  <1>2. \A o \in DOMAIN pool : pool[o].state = "ready" /\ pool[o].reason = "none"
    BY DEF Init, Idle
  <1>3. Orderly
    BY <1>1 DEF Orderly, Quiet, Offered, Latent
  <1>4. Marks /\ Handled
    BY <1>2 DEF Marks, Handled
  <1>5. \A a \in Attempts : Own(a)
    BY <1>1 DEF Own, Holding, Returning
  <1>6. \A t \in Threads : Asleep(t) /\ \A o \in waits[t] : Watched(o)
    BY <1>1 DEF Asleep, Sleeping
  <1> QED
    BY <1>3, <1>4, <1>5, <1>6 DEF Watch

\* SleepersAreAwaited: whoever sleeps in _wait_retired waits for an entry that some thread
\* is at and will notify about, except the one whose publication failed when the pool closes.
THEOREM SleepersAreNotForgotten == Spec => []SleepersAreAwaited
  <1>1. Init => Watch
    BY InitWatch
  <1>2. TypeOK /\ TypeOK' /\ Seats /\ Seats' /\ Watch /\ [Next]_vars => Watch'
    <2> SUFFICES ASSUME TypeOK, TypeOK', Seats, Seats', Watch, [Next]_vars PROVE Watch'
      OBVIOUS
    <2>1. Typed
      BY TypeSplit DEF Typed
    <2>2. Typed'
      BY StepTyped, <2>1
    <2> QED
      BY <2>1, <2>2, StepWatch
  <1>3. TypeOK /\ Seats /\ Watch => SleepersAreAwaited
    BY WatchGivesAwaited
  <1> QED
    BY <1>1, <1>2, <1>3, SeatsHold, PTL DEF Spec

-----------------------------------------------------------------------------
(* What the machine has: the reservations in full never exceed its budget.     *)
InFull == {i \in DOMAIN reserved : reserved[i] = 1}

Budget == IsFiniteSet(InFull) /\ Cardinality(InFull) <= Limit

\* A step that reserves nothing more.
LEMMA BudgetShrinks ==
    ASSUME Budget, InFull' \subseteq InFull
    PROVE  Budget'
  <1>1. /\ IsFiniteSet(InFull')
        /\ Cardinality(InFull') <= Cardinality(InFull)
    BY FS_Subset DEF Budget
  <1>2. Cardinality(InFull) \in Nat /\ Cardinality(InFull') \in Nat
    BY <1>1, FS_CardinalityType DEF Budget
  <1> QED
    BY <1>1, <1>2, PoolAssumption DEF Budget

\* try_acquire: one more reservation, where it fits.
LEMMA BudgetGrows ==
    ASSUME Budget, Fits, NEW i, InFull' \subseteq InFull \cup {i}
    PROVE  Budget'
  <1>1. /\ IsFiniteSet(InFull \cup {i})
        /\ Cardinality(InFull \cup {i}) =
              IF i \in InFull THEN Cardinality(InFull) ELSE Cardinality(InFull) + 1
    BY FS_AddElement DEF Budget
  <1>2. /\ IsFiniteSet(InFull')
        /\ Cardinality(InFull') <= Cardinality(InFull \cup {i})
    BY <1>1, FS_Subset
  <1>3. /\ Cardinality(InFull) \in Nat /\ Cardinality(InFull') \in Nat
        /\ Cardinality(InFull \cup {i}) \in Nat
    BY <1>1, <1>2, FS_CardinalityType DEF Budget
  <1>4. Cardinality(InFull) < Limit
    BY DEF Fits, InFull
  <1> QED
    BY <1>1, <1>2, <1>3, <1>4, PoolAssumption DEF Budget

\* A reservation in full that changes hands.
LEMMA BudgetMoves ==
    ASSUME Budget, NEW i \in InFull, NEW j, InFull' \subseteq (InFull \ {i}) \cup {j}
    PROVE  Budget'
  <1> DEFINE Rest == InFull \ {i}
  <1>1. /\ IsFiniteSet(Rest)
        /\ Cardinality(Rest) = Cardinality(InFull) - 1
    BY FS_RemoveElement DEF Budget
  <1>2. /\ IsFiniteSet(Rest \cup {j})
        /\ Cardinality(Rest \cup {j}) =
              IF j \in Rest THEN Cardinality(Rest) ELSE Cardinality(Rest) + 1
    <2> HIDE DEF Rest
    <2> QED
      BY <1>1, FS_AddElement
  <1>3. /\ IsFiniteSet(InFull')
        /\ Cardinality(InFull') <= Cardinality(Rest \cup {j})
    BY <1>2, FS_Subset
  <1>4. /\ Cardinality(InFull) \in Nat /\ Cardinality(InFull') \in Nat
        /\ Cardinality(Rest) \in Nat /\ Cardinality(Rest \cup {j}) \in Nat
    BY <1>1, <1>2, <1>3, FS_CardinalityType DEF Budget
  <1> HIDE DEF Rest
  <1> QED
    BY <1>1, <1>2, <1>3, <1>4, PoolAssumption DEF Budget

LEMMA BudgetSame == ASSUME Budget, UNCHANGED reserved PROVE Budget'
  BY DEF Budget, InFull

\* Where a reservation appears or grows: at a start or a creation, at a binding, and
\* when a reset or a blocked cleanup gives it back to the owner.
LEMMA StartBudget ==
    ASSUME Budget, NEW a \in Attempts, OfferStarts(a) \/ ColdAtOnce(a) \/ ColdAdmitted(a)
    PROVE  Budget'
  <1>1. Fits /\ \E i : reserved' = With(reserved, i, 1)
    BY DEF OfferStarts, ColdAtOnce, ColdAdmitted, Creates
  <1>2. PICK i : reserved' = With(reserved, i, 1)
    BY <1>1
  <1>3. InFull' \subseteq InFull \cup {i}
    BY <1>2 DEF InFull, With
  <1> QED
    BY <1>1, <1>3, BudgetGrows

LEMMA BindBudget ==
    ASSUME Typed, Charges, Budget, NEW a \in Attempts, Bind(a)
    PROVE  Budget'
  <1> DEFINE o == target[a]
  <1>1. o \in DOMAIN reserved /\ reserved[o] \in 0..1
    BY DEF Bind, Charges, Paying, Typed, BackendTyped
  <1>2. InFull' \subseteq (InFull \ {o}) \cup {a}
    BY DEF Bind, InFull, With, Without
  <1>3. CASE reserved[o] = 0
    BY <1>2, <1>3, BudgetGrows DEF Bind
  <1>4. CASE reserved[o] = 1
    <2>1. o \in InFull
      BY <1>1, <1>4 DEF InFull
    <2> QED
      BY <1>2, <2>1, BudgetMoves
  <1> QED
    BY <1>1, <1>3, <1>4

LEMMA ReturnBudget ==
    ASSUME Charges, Budget, NEW a \in Attempts,
           ResetStops(a) \/ ResetParks(a) \/ Destroyed(a) \/ CreationFails(a) \/ Removed(a)
    PROVE  Budget'
  <1>1. CASE ResetStops(a)
    <2>1. a \in InFull
      BY <1>1 DEF ResetStops, Charges, Paying, InFull
    <2>2. InFull' \subseteq (InFull \ {a}) \cup {target[a]}
      BY <1>1 DEF ResetStops, InFull, With, Without
    <2> QED
      BY <2>1, <2>2, BudgetMoves
  <1>2. CASE ResetParks(a)
    <2>1. InFull' \subseteq InFull
      BY <1>2 DEF ResetParks, InFull, With
    <2> QED
      BY <2>1, BudgetShrinks
  <1>3. CASE Destroyed(a) \/ CreationFails(a) \/ Removed(a)
    <2>1. InFull' \subseteq InFull
      BY <1>3 DEF Destroyed, CreationFails, Removed, InFull, Without
    <2> QED
      BY <2>1, BudgetShrinks
  <1> QED
    BY <1>1, <1>2, <1>3

LEMMA RetireBudget ==
    ASSUME Typed, Budget, NEW o \in Owners, Retires(o)
    PROVE  Budget'
  <1> DEFINE c == Charge(o)
  <1>1. PICK t \in Janitors : Retired(t, o) \/ CleanupBlocked(t, o)
    BY DEF Retires
  <1>2. CASE reserved' = Without(reserved, c) \/ reserved' = reserved
    <2>1. InFull' \subseteq InFull
      BY <1>2 DEF InFull, Without
    <2> QED
      BY <2>1, BudgetShrinks
  <1>3. CASE ChargeMoves(o) /\ reserved' = With(Without(reserved, c), o, reserved[c])
    <2>1. c \in DOMAIN reserved /\ reserved[c] \in 0..1
      BY <1>3 DEF ChargeMoves, Typed, BackendTyped
    <2>2. CASE reserved[c] = 1
      <3>1. c \in InFull
        BY <2>1, <2>2 DEF InFull
      <3>2. InFull' \subseteq (InFull \ {c}) \cup {o}
        BY <1>3 DEF InFull, With, Without
      <3> QED
        BY <3>1, <3>2, BudgetMoves
    <2>3. CASE reserved[c] = 0
      <3>1. InFull' \subseteq InFull
        BY <1>3, <2>3 DEF InFull, With, Without
      <3> QED
        BY <3>1, BudgetShrinks
    <2> QED
      BY <2>1, <2>2, <2>3
  <1> QED
    BY <1>1, <1>2, <1>3 DEF Retired, CleanupBlocked

LEMMA StepBudget ==
    ASSUME Typed, Charges, Budget, [Next]_vars
    PROVE  Budget'
  <1>1. CASE UNCHANGED vars
    BY <1>1, BudgetSame DEF vars, shared, backendVars
  <1>2. ASSUME NEW a \in Attempts, Requests(a) PROVE Budget'
    BY <1>2, BudgetSame
       DEF Requests, Preflight, ReturnSkipped, ReturnStarts, CancelPending, Moves, shared, backendVars
  <1>3. ASSUME NEW a \in Attempts, Offers(a) PROVE Budget'
    <2>1. UNCHANGED reserved \/ OfferStarts(a)
      BY <1>3 DEF Offers, OfferSkipped, OfferMerged, OfferReplaces, OfferAgain, Moves, shared, backendVars
    <2> QED
      BY <2>1, BudgetSame, StartBudget
  <1>4. ASSUME NEW a \in Attempts, Takes(a) PROVE Budget'
    <2>1. UNCHANGED reserved \/ Bind(a)
      <3>1. CASE TakeRefused(a) \/ TakeAwaitsRetirement(a) \/ TakeFallsBack(a) \/ TakeMisses(a)
        BY <3>1 DEF TakeRefused, TakeAwaitsRetirement, TakeFallsBack, TakeMisses, Leaves,
                    shared, backendVars
      <3>2. CASE TakeQueues(a) \/ TakeClaims(a) \/ TakeDeadline(a)
        BY <3>2 DEF TakeQueues, TakeClaims, TakeDeadline, Moves, shared, backendVars
      <3>3. CASE BindRefused(a) \/ Claimed(a) \/ ClaimRetired(a) \/ ClaimEnds(a)
        BY <3>3 DEF BindRefused, Claimed, ClaimRetired, ClaimEnds, Rejects, backendVars
      <3> QED
        BY <1>4, <3>1, <3>2, <3>3 DEF Takes
    <2> QED
      BY <2>1, BudgetSame, BindBudget
  <1>5. ASSUME NEW a \in Attempts, Cold(a) PROVE Budget'
    <2>1. UNCHANGED reserved \/ ColdAtOnce(a) \/ ColdAdmitted(a)
      BY <1>5 DEF Cold, ColdDrains, ColdRefused, DrainSleeps, DrainEnds, ColdNotAdmitted, Created,
                  Sleeps, Waited, Moves, shared, backendVars
    <2> QED
      BY <2>1, BudgetSame, StartBudget
  <1>6. ASSUME NEW a \in Attempts, Returns(a) PROVE Budget'
    <2>1. UNCHANGED reserved \/ ResetStops(a) \/ ResetParks(a) \/ Destroyed(a)
      BY <1>6 DEF Returns, ResetVerified, ResetInterrupted, Rejects, Publish, NothingToPublish,
                  Published, Moves, shared, backendVars
    <2> QED
      BY <2>1, BudgetSame, ReturnBudget
  <1>7. ASSUME NEW a \in Attempts, Aborts(a) PROVE Budget'
    <2>1. UNCHANGED reserved \/ Removed(a)
      BY <1>7 DEF Aborts, Withdraw, WithdrawSleeps, WithdrawEnds, Sleeps, Waited, shared, backendVars
    <2> QED
      BY <2>1, BudgetSame, ReturnBudget
  <1>8. ASSUME NEW a \in Attempts, Fails(a) PROVE Budget'
    <2>1. UNCHANGED reserved \/ CreationFails(a)
      BY <1>8 DEF Fails, BindFails, ResetFails, NotDestroyed, NotRecorded, NotRemoved, Rejects, backendVars
    <2> QED
      BY <2>1, BudgetSame, ReturnBudget
  <1>9. ASSUME NEW o \in Owners, Prepares(o) \/ Expire(o) PROVE Budget'
    BY <1>9, BudgetSame DEF Prepares, Prepared, PrepareFails, Expire, backendVars
  <1>10. CASE Closes
    BY <1>10, BudgetSame DEF Closes, Close, CloseEvicts, CloseSleeps, CloseEnds, Sleeps, Waited,
                             shared, backendVars
  <1> QED
    BY <1>1, <1>2, <1>3, <1>4, <1>5, <1>6, <1>7, <1>8, <1>9, <1>10, RetireBudget DEF Next, Works

LEMMA InitBudget == Init => Budget
  <1> SUFFICES ASSUME Init PROVE Budget
    OBVIOUS
  <1>1. InFull = {}
    BY DEF Init, InFull
  <1>2. IsFiniteSet({}) /\ Cardinality({}) = 0
    BY FS_EmptySet
  <1> QED
    BY <1>1, <1>2, PoolAssumption DEF Budget

\* The Workers that may run: in use by an attempt, or being prepared.
Running ==
    {o \in alive :
        \/ \E a \in Users(o) : pc[a] \notin {"binding", "parking", "destroying"}
        \/ o \in EntriesIn({"preparing"})}

NotOvercommitted == IsFiniteSet(Running) /\ Cardinality(Running) <= Limit

\* One reservation in full pays for each of them, and for no other.
LEMMA RunningIsCharged ==
    ASSUME TypeOK, Seats, Charges, NEW o \in Running
    PROVE  \E i \in InFull : Pays(i, o)
  <1>1. /\ Cardinality(Payers(o)) = 1
        /\ \A i \in Payers(o) : reserved[i] = 1
    BY ChargesGiveCharged DEF AliveIsCharged, Running
  <1>2. PICK i \in Owners \cup Attempts : Pays(i, o)
    BY DEF Charges, OnePayer, Running
  <1>3. i \in Payers(o)
    BY <1>2 DEF Pays, Payers, LeasedTo
  <1> QED
    BY <1>1, <1>2, <1>3 DEF InFull, Pays

LEMMA BudgetIsKept == ASSUME TypeOK, Seats, Charges, Budget PROVE NotOvercommitted
  <1> DEFINE f == [o \in Running |-> CHOOSE i \in InFull : Pays(i, o)]
  <1>1. \A o \in Running : f[o] \in InFull /\ Pays(f[o], o)
    BY RunningIsCharged
  <1>2. Running \subseteq Owners
    BY DEF Running, TypeOK
  <1>3. \A o, p \in Running : f[o] = f[p] => o = p
    <2> HIDE DEF f
    <2> SUFFICES ASSUME NEW o \in Running, NEW p \in Running, f[o] = f[p] PROVE o = p
      OBVIOUS
    <2>1. Pays(f[o], o) /\ Pays(f[o], p)
      BY <1>1
    <2> QED
      BY <1>2, <2>1, Disjoint DEF Pays
  <1>4. f \in Injection(Running, InFull)
    <2>1. f \in [Running -> InFull]
      BY <1>1
    <2> HIDE DEF f
    <2> QED
      BY <1>3, <2>1 DEF Injection, IsInjective
  <1>5. IsFiniteSet(Running) /\ Cardinality(Running) <= Cardinality(InFull)
    <2> HIDE DEF f
    <2> QED
      BY <1>4, FS_Injection DEF Budget
  <1>6. Cardinality(Running) \in Nat /\ Cardinality(InFull) \in Nat
    BY <1>5, FS_CardinalityType DEF Budget
  <1> QED
    BY <1>5, <1>6, PoolAssumption DEF Budget, NotOvercommitted

\* The Workers that may run at a time never exceed what the machine has, whoever runs
\* them - attempts, preparations of the pool, returns in progress - and however their
\* reservations have moved between owners and attempts (resource_admission).
THEOREM MachineIsNotOvercommitted == Spec => []NotOvercommitted
  <1>1. Init => TypeOK /\ Seats /\ Charges /\ Budget
    BY InitTyped, InitSeats, InitCharges, InitBudget
  <1>2. TypeOK /\ Seats /\ Charges /\ TypeOK' /\ Budget /\ [Next]_vars => Charges' /\ Budget'
    <2> SUFFICES ASSUME TypeOK, TypeOK', Seats, Charges, Budget, [Next]_vars PROVE Charges' /\ Budget'
      OBVIOUS
    <2>1. Typed
      BY TypeSplit DEF Typed
    <2>2. Typed'
      BY StepTyped, <2>1
    <2> QED
      BY <2>1, <2>2, StepCharges, StepBudget
  <1>3. TypeOK /\ Seats /\ Charges /\ Budget => NotOvercommitted
    BY BudgetIsKept
  <1> QED
    BY <1>1, <1>2, <1>3, SeatsHold, PTL DEF Spec
=============================================================================
