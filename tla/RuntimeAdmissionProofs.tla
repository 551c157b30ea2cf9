----------------------- MODULE RuntimeAdmissionProofs -----------------------
(* Theorems about the admission queue, for every set of owners, every stage *)
(* table and every budget.                                                  *)
EXTENDS RuntimeAdmission, FiniteSetTheorems, SequenceTheorems, TLAPS

-----------------------------------------------------------------------------
(* The arithmetic of a book of reservations.                                *)

\* What a single entry of the book holds of a resource.
Amount(s, r) == IF s = NoReservation THEN 0 ELSE s[r]

Slice(o, n) == {o} \X (1..n)

\* The amounts in a book are naturals.
LEMMA HeldType ==
    ASSUME NEW book \in Book, NEW o \in Owners, NEW r \in Resources
    PROVE  /\ Held(book, o, r) \in Nat
           /\ Held(book, o, r) = Amount(book[o], r)
  BY ReservationsAssumption DEF Held, Book, Amount

\* One owner's units: as many as the amount it holds.
LEMMA SliceSize ==
    ASSUME NEW o, NEW n \in Nat
    PROVE  IsFiniteSet(Slice(o, n)) /\ Cardinality(Slice(o, n)) = n
  <1>1. IsFiniteSet({o}) /\ Cardinality({o}) = 1
    BY FS_Singleton
  <1>2. IsFiniteSet(1..n) /\ Cardinality(1..n) = n
    BY FS_Interval, SMT
  <1>3. /\ IsFiniteSet({o} \X (1..n))
        /\ Cardinality({o} \X (1..n)) = Cardinality({o}) * Cardinality(1..n)
    BY <1>1, <1>2, FS_Product, Zenon
  <1>4. Cardinality({o} \X (1..n)) = 1 * n
    BY <1>1, <1>2, <1>3, Zenon
  <1> QED
    BY <1>3, <1>4 DEF Slice

\* A book holds finitely many units, so its sum is a natural number.
LEMMA UsedType ==
    ASSUME NEW book \in Book, NEW r \in Resources
    PROVE  IsFiniteSet(Units(book, r)) /\ Used(book, r) \in Nat
  <1> DEFINE slices == {Slice(o, Held(book, o, r)) : o \in Owners}
             slice == [o \in Owners |-> Slice(o, Held(book, o, r))]
  <1>1. slice \in Surjection(Owners, slices)
    BY DEF Surjection
  <1>2. IsFiniteSet(slices)
    BY <1>1, FS_Surjection, ReservationsAssumption
  <1>3. \A T \in slices : IsFiniteSet(T)
    BY HeldType, SliceSize
  <1>4. Units(book, r) = UNION slices
    BY DEF Units, Slice
  <1>5. IsFiniteSet(Units(book, r))
    <2> HIDE DEF slices
    <2> QED BY <1>2, <1>3, <1>4, FS_UNION
  <1> QED
    BY <1>5, FS_CardinalityType DEF Used

\* Changing one entry of a book changes the sum by the difference of the entries.
LEMMA UsedUpdate ==
    ASSUME NEW book \in Book, NEW o \in Owners, NEW s \in Stages \cup {NoReservation},
           NEW r \in Resources
    PROVE  /\ [book EXCEPT ![o] = s] \in Book
           /\ Used([book EXCEPT ![o] = s], r) = Used(book, r) - Amount(book[o], r) + Amount(s, r)
  <1> DEFINE new == [book EXCEPT ![o] = s]
             old == Slice(o, Held(book, o, r))
             fresh == Slice(o, Held(new, o, r))
             rest == Units(book, r) \ old
  <1>1. new \in Book
    BY DEF Book
  <1>2. \A p \in Owners : p # o => Held(new, p, r) = Held(book, p, r)
    BY DEF Book, Held
  <1>3. old \subseteq Units(book, r)
    BY DEF Units, Slice
  <1>4. Units(new, r) = rest \cup fresh
    <2>1. \A u : u \in Units(book, r) <=> \E p \in Owners : u \in Slice(p, Held(book, p, r))
      BY DEF Units, Slice
    <2>2. \A u : u \in Units(new, r) <=> \E p \in Owners : u \in Slice(p, Held(new, p, r))
      BY DEF Units, Slice
    <2>3. \A u, p, q, m, n : u \in Slice(p, m) /\ u \in Slice(q, n) => p = q
      BY DEF Slice
    <2> HIDE DEF new
    <2> QED BY <1>2, <2>1, <2>2, <2>3
  <1>5. rest \cap fresh = {}
    <2>1. \A u \in Units(book, r) : \A n : u \in Slice(o, n) => u \in old
      <3>1. \A u \in Units(book, r) : \E p \in Owners : u \in Slice(p, Held(book, p, r))
        BY DEF Units, Slice
      <3>2. \A u, p, q, m, n : u \in Slice(p, m) /\ u \in Slice(q, n) => p = q
        BY DEF Slice
      <3> QED BY <3>1, <3>2
    <2> QED BY <2>1
  <1>6. /\ IsFiniteSet(Units(book, r))
        /\ IsFiniteSet(old) /\ Cardinality(old) = Held(book, o, r)
        /\ IsFiniteSet(fresh) /\ Cardinality(fresh) = Held(new, o, r)
        /\ Held(book, o, r) = Amount(book[o], r) /\ Held(new, o, r) = Amount(s, r)
        /\ Amount(book[o], r) \in Nat /\ Amount(s, r) \in Nat
    <2>1. new[o] = s
      BY DEF Book
    <2> HIDE DEF new
    <2> QED BY <1>1, <2>1, HeldType, SliceSize, UsedType
  <1>7. IsFiniteSet(rest) /\ Cardinality(rest) = Used(book, r) - Amount(book[o], r)
    <2>1. Units(book, r) \cap old = old
      BY <1>3
    <2>2. /\ IsFiniteSet(rest)
          /\ Cardinality(rest) = Cardinality(Units(book, r)) - Cardinality(Units(book, r) \cap old)
      <3> HIDE DEF old
      <3> QED BY <1>6, FS_Difference
    <2> QED BY <1>6, <2>1, <2>2 DEF Used
  <1>8. Cardinality(rest \cup fresh) = Cardinality(rest) + Cardinality(fresh)
    <2>1. Cardinality(rest \cap fresh) = 0
      BY <1>5, FS_EmptySet
    <2>2. Cardinality(rest) \in Nat /\ Cardinality(fresh) \in Nat
      BY <1>6, <1>7, FS_CardinalityType
    <2> HIDE DEF rest, fresh
    <2> QED BY <1>6, <1>7, <2>1, <2>2, FS_Union
  <1>9. Used(new, r) = Cardinality(rest \cup fresh)
    BY <1>4 DEF Used
  <1> HIDE DEF new, rest, fresh, old
  <1>10. Used(new, r) = Used(book, r) - Amount(book[o], r) + Amount(s, r)
    BY <1>6, <1>7, <1>8, <1>9
  <1> QED
    BY <1>1, <1>10 DEF new

\* Moving a reservation from o to a replaces one amount by another.
LEMMA UsedMoved ==
    ASSUME NEW book \in Book, NEW o \in Owners, NEW a \in Owners, NEW s \in Stages,
           NEW r \in Resources, a = o \/ book[a] = NoReservation
    PROVE  LET new == [book EXCEPT ![o] = NoReservation, ![a] = s]
           IN  /\ new \in Book
               /\ Used(new, r) = Used(book, r) - Amount(book[o], r) + Amount(s, r)
  <1> DEFINE mid == [book EXCEPT ![o] = NoReservation]
             new == [mid EXCEPT ![a] = s]
  <1>1. /\ mid \in Book
        /\ Used(mid, r) = Used(book, r) - Amount(book[o], r) + Amount(NoReservation, r)
    BY UsedUpdate
  <1>2. mid[a] = NoReservation
    BY DEF Book
  <1>3. Amount(NoReservation, r) = 0
    BY DEF Amount
  <1>4. [book EXCEPT ![o] = NoReservation, ![a] = s] = new
    BY DEF Book
  <1>5. Used(book, r) \in Nat /\ Used(mid, r) \in Nat /\ Amount(book[o], r) \in Nat /\ Amount(s, r) \in Nat
    <2>1. Amount(book[o], r) \in Nat
      BY HeldType
    <2>2. Amount(s, r) \in Nat
      BY ReservationsAssumption DEF Amount
    <2> HIDE DEF mid
    <2> QED BY <1>1, <2>1, <2>2, UsedType
  <1> HIDE DEF mid
  <1>6. /\ new \in Book
        /\ Used(new, r) = Used(mid, r) - Amount(mid[a], r) + Amount(s, r)
    BY <1>1, UsedUpdate
  <1> HIDE DEF new
  <1>7. Used(new, r) = Used(book, r) - Amount(book[o], r) + Amount(s, r)
    BY <1>1, <1>2, <1>3, <1>5, <1>6
  <1> QED
    BY <1>4, <1>6, <1>7, Zenon

\* Slots: an entry adds at most one active owner, a move none.
LEMMA SlotsMoved ==
    ASSUME NEW book \in Book, NEW o \in Owners, NEW a \in Owners, NEW s \in Stages,
           a = o \/ book[a] = NoReservation
    PROVE  LET new == [book EXCEPT ![o] = NoReservation, ![a] = s]
           IN  /\ Cardinality(Active(book)) \in Nat
               /\ book[o] # NoReservation => Cardinality(Active(new)) = Cardinality(Active(book))
               /\ book[o] = NoReservation => Cardinality(Active(new)) <= Cardinality(Active(book)) + 1
  <1> DEFINE new == [book EXCEPT ![o] = NoReservation, ![a] = s]
  <1>1. s # NoReservation
    BY ReservationsAssumption
  <1>2. Active(new) = (Active(book) \ {o}) \cup {a}
    BY <1>1 DEF Active, Book
  <1>3. a # o => a \notin Active(book)
    BY DEF Active
  <1>4. IsFiniteSet(Active(book)) /\ Cardinality(Active(book)) \in Nat
    BY ReservationsAssumption, FS_Subset, FS_CardinalityType DEF Active
  <1>5. /\ IsFiniteSet(Active(book) \ {o})
        /\ Cardinality(Active(book) \ {o}) =
              IF o \in Active(book) THEN Cardinality(Active(book)) - 1 ELSE Cardinality(Active(book))
    BY <1>4, FS_RemoveElement
  <1>6. Cardinality(Active(new)) = Cardinality(Active(book) \ {o}) + 1
    <2>1. a \notin Active(book) \ {o}
      BY <1>3
    <2> QED BY <1>2, <1>5, <2>1, FS_AddElement, ZenonT(30)
  <1>7. o \in Active(book) <=> book[o] # NoReservation
    BY DEF Active
  <1> HIDE DEF new
  <1>8. Cardinality(Active(new)) \in Int
    BY <1>4, <1>5, <1>6
  <1> QED
    BY <1>4, <1>5, <1>6, <1>7, <1>8 DEF new

-----------------------------------------------------------------------------
(* Type correctness.                                                        *)

\* Cutting one position out of a sequence.
LEMMA CutOne ==
    ASSUME NEW S, NEW s \in Seq(S), NEW i \in DOMAIN s
    PROVE  LET t == SubSeq(s, 1, i - 1) \o SubSeq(s, i + 1, Len(s))
           IN  /\ t \in Seq(S)
               /\ Len(t) = Len(s) - 1
               /\ \A j \in 1..(Len(s) - 1) : t[j] = IF j < i THEN s[j] ELSE s[j + 1]
  <1> DEFINE l == SubSeq(s, 1, i - 1)
             r == SubSeq(s, i + 1, Len(s))
  <1>1. Len(s) \in Nat /\ i \in 1..Len(s) /\ s \in [1..Len(s) -> S]
    BY LenProperties
  <1>2. /\ l \in Seq(S)
        /\ Len(l) = i - 1
        /\ \A j \in 1..(i - 1) : l[j] = s[j]
    <2>1. \A j \in 1..(i - 1) : s[j] \in S
      BY <1>1
    <2>2. /\ l \in Seq(S)
          /\ Len(l) = IF 1 <= i - 1 THEN (i - 1) - 1 + 1 ELSE 0
          /\ \A j \in 1..((i - 1) - 1 + 1) : l[j] = s[1 + j - 1]
      BY <1>1, <2>1, SubSeqProperties
    <2> HIDE DEF l
    <2>3. Len(l) = i - 1
      BY <1>1, <2>2
    <2>4. \A j \in 1..(i - 1) : j \in 1..((i - 1) - 1 + 1) /\ 1 + j - 1 = j
      BY <1>1
    <2> QED BY <2>2, <2>3, <2>4
  <1>3. /\ r \in Seq(S)
        /\ Len(r) = Len(s) - i
        /\ \A j \in 1..(Len(s) - i) : r[j] = s[i + j]
    <2>1. \A j \in (i + 1)..Len(s) : s[j] \in S
      BY <1>1
    <2>2. /\ r \in Seq(S)
          /\ Len(r) = IF i + 1 <= Len(s) THEN Len(s) - (i + 1) + 1 ELSE 0
          /\ \A j \in 1..(Len(s) - (i + 1) + 1) : r[j] = s[(i + 1) + j - 1]
      BY <1>1, <2>1, SubSeqProperties
    <2> HIDE DEF r
    <2>3. Len(r) = Len(s) - i
      BY <1>1, <2>2
    <2>4. \A j \in 1..(Len(s) - i) :
            j \in 1..(Len(s) - (i + 1) + 1) /\ (i + 1) + j - 1 = i + j
      BY <1>1
    <2> QED BY <2>2, <2>3, <2>4
  <1> HIDE DEF l, r
  <1>4. /\ l \o r \in Seq(S)
        /\ Len(l \o r) = Len(l) + Len(r)
        /\ \A j \in 1..(Len(l) + Len(r)) :
              (l \o r)[j] = IF j <= Len(l) THEN l[j] ELSE r[j - Len(l)]
    BY <1>2, <1>3, ConcatProperties
  <1>5. Len(l \o r) = Len(s) - 1
    BY <1>1, <1>2, <1>3, <1>4
  <1>6. \A j \in 1..(Len(s) - 1) : (l \o r)[j] = IF j < i THEN s[j] ELSE s[j + 1]
    <2> SUFFICES ASSUME NEW j \in 1..(Len(s) - 1)
                 PROVE  (l \o r)[j] = IF j < i THEN s[j] ELSE s[j + 1]
      OBVIOUS
    <2>1. (l \o r)[j] = IF j <= Len(l) THEN l[j] ELSE r[j - Len(l)]
      BY <1>1, <1>2, <1>3, <1>4
    <2>2. CASE j < i
      BY <1>1, <1>2, <2>1, <2>2
    <2>3. CASE ~ (j < i)
      <3>1. j - Len(l) \in 1..(Len(s) - i) /\ i + (j - Len(l)) = j + 1
        BY <1>1, <1>2, <2>3
      <3> QED BY <1>1, <1>2, <1>3, <2>1, <2>3, <3>1, SMTT(15)
    <2> QED BY <2>2, <2>3
  <1> QED
    BY <1>4, <1>5, <1>6 DEF l, r

\* A call that leaves shortens a well-typed queue.
LEMMA LeaveType ==
    ASSUME TypeOK, NEW a \in Owners, Leave(a)
    PROVE  /\ waiting' \in Seq(Owners) /\ Len(waiting') <= MaxWaiting
           /\ call' \in [Owners -> Calls \cup {NoCall}]
           /\ cancelled' \in SUBSET Owners
           /\ awake' \in SUBSET Owners /\ expired' \in SUBSET Owners
  <1>1. PICK i \in DOMAIN waiting :
            waiting' = SubSeq(waiting, 1, i - 1) \o SubSeq(waiting, i + 1, Len(waiting))
    BY DEF Leave
  <1>2. waiting' \in Seq(Owners) /\ Len(waiting') = Len(waiting) - 1
    BY <1>1, CutOne DEF TypeOK
  <1>3. Len(waiting) \in Nat /\ Len(waiting') \in Nat
    BY <1>2, LenProperties DEF TypeOK
  <1>4. waiting' \in Seq(Owners) /\ Len(waiting') <= MaxWaiting
    BY <1>2, <1>3, AdmissionAssumption DEF TypeOK
  <1>5. call' \in [Owners -> Calls \cup {NoCall}]
    BY DEF Leave, TypeOK
  <1>6. cancelled' \in SUBSET Owners /\ awake' \in SUBSET Owners /\ expired' \in SUBSET Owners
    BY DEF Leave, TypeOK, Waiters
  <1> QED
    BY <1>4, <1>5, <1>6

\* A call that falls asleep is recorded with the right type.
LEMMA SleepType ==
    ASSUME TypeOK, NEW a \in Owners, NEW o \in Owners, NEW kind \in Kinds,
           NEW current \in Stages \cup {NoReservation}, NEW s \in Stages,
           Sleep(a, kind, o, current, s)
    PROVE  TypeOK'
  <1>1. waiting' \in Seq(Owners) /\ Len(waiting') = Len(waiting) + 1
    BY AppendProperties DEF Sleep, TypeOK
  <1>2. Len(waiting) \in Nat
    BY LenProperties DEF TypeOK
  <1>3. Len(waiting') <= MaxWaiting
    BY <1>1, <1>2, AdmissionAssumption DEF Sleep
  <1>4. call' \in [Owners -> Calls \cup {NoCall}]
    BY DEF Sleep, TypeOK, Calls
  <1> QED
    BY <1>1, <1>3, <1>4 DEF Sleep, TypeOK

\* Every reachable state is well typed, and the queue never exceeds max_waiting.
THEOREM TypeCorrect == Spec => []TypeOK
  <1>1. Init => TypeOK
    <2> SUFFICES ASSUME Init PROVE TypeOK
      OBVIOUS
    <2>1. waiting \in Seq(Owners) /\ Len(waiting) = 0
      BY EmptySeq DEF Init
    <2> QED
      BY <2>1, AdmissionAssumption DEF Init, TypeOK, Book
  <1>2. TypeOK /\ [Next]_vars => TypeOK'
    <2> SUFFICES ASSUME TypeOK, [Next]_vars PROVE TypeOK'
      OBVIOUS
    <2>1. CASE UNCHANGED vars
      BY <2>1 DEF vars, TypeOK
    <2>2. ASSUME NEW o \in Owners, NEW s \in Stages, AcquireNow(o, s) PROVE TypeOK'
      BY <2>2 DEF AcquireNow, TypeOK, Book
    <2>3. ASSUME NEW o \in Owners, NEW s \in Stages, AcquireQueued(o, s) PROVE TypeOK'
      BY <2>3, SleepType DEF AcquireQueued, Kinds
    <2>4. ASSUME NEW o \in Owners, NEW s \in Stages, TryAcquire(o, s) PROVE TypeOK'
      BY <2>4 DEF TryAcquire, TypeOK, Book
    <2>5. ASSUME NEW o \in Owners, NEW a \in Owners, NEW s \in Stages, TransferNow(o, a, s) PROVE TypeOK'
      BY <2>5 DEF TransferNow, Moved, NotifyAll, Waiters, TypeOK, Book
    <2>6. ASSUME NEW o \in Owners, NEW a \in Owners, NEW s \in Stages, TransferQueued(o, a, s) PROVE TypeOK'
      <3>1. active[o] \in Stages \cup {NoReservation}
        BY DEF TypeOK, Book
      <3> QED BY <2>6, <3>1, SleepType DEF TransferQueued, Kinds
    <2>7. ASSUME NEW o \in Owners, NEW a \in Owners, NEW s \in Stages, TransferBusy(o, a, s) PROVE TypeOK'
      BY <2>7 DEF TransferBusy, NotifyAll, Waiters, TypeOK, Book
    <2>8. ASSUME NEW a \in Owners, Recheck(a) PROVE TypeOK'
      <3>1. CASE WakeCancelled(a)
        BY <3>1, LeaveType DEF WakeCancelled, TypeOK
      <3>2. CASE WakeGranted(a)
        <4>1. Leave(a) /\ call[a] \in Calls
          BY <2>8, <3>2 DEF WakeGranted, Recheck, TypeOK
        <4>2. active' \in Book
          BY <3>2, <4>1 DEF WakeGranted, Moved, TypeOK, Book, Calls
        <4> QED BY <4>1, <4>2, LeaveType DEF TypeOK
      <3>3. CASE WakeKeyError(a)
        BY <3>3, LeaveType DEF WakeKeyError, TypeOK
      <3>4. CASE WakeTimedOut(a)
        BY <3>4, LeaveType DEF WakeTimedOut, TypeOK
      <3>5. CASE WakeAgain(a)
        BY <3>5 DEF WakeAgain, TypeOK
      <3> QED BY <2>8, <3>1, <3>2, <3>3, <3>4, <3>5 DEF Recheck
    <2>9. ASSUME NEW a \in Owners, Deadline(a) PROVE TypeOK'
      BY <2>9 DEF Deadline, TypeOK
    <2>10. ASSUME NEW o \in Owners, Release(o) PROVE TypeOK'
      BY <2>10 DEF Release, NotifyAll, Waiters, TypeOK, Book
    <2>11. ASSUME NEW o \in Owners, Cancel(o) PROVE TypeOK'
      BY <2>11 DEF Cancel, NotifyAll, Waiters, TypeOK
    <2> QED
      BY <2>1, <2>2, <2>3, <2>4, <2>5, <2>6, <2>7, <2>8, <2>9, <2>10, <2>11 DEF Next
  <1> QED
    BY <1>1, <1>2, PTL DEF Spec

-----------------------------------------------------------------------------
(* The budget.                                                              *)

\* A sleeping call that goes away disturbs nobody else's reading.
LEMMA FreshAfterLeave ==
    ASSUME TypeOK, CurrentIsFresh, NEW a \in Owners, call[a] # NoCall, Leave(a),
           \/ active' = active
           \/ /\ active' = Moved(call[a].owner, a, call[a].want)
              /\ active[call[a].owner] # NoReservation \/ call[a].kind = "acquire"
    PROVE  CurrentIsFresh'
  <1> SUFFICES ASSUME NEW b \in Owners, call'[b] # NoCall
               PROVE  CallIsFresh(b)'
    BY DEF CurrentIsFresh, Waiters
  <1>1. /\ call' = [call EXCEPT ![a] = NoCall]
        /\ call \in [Owners -> Calls \cup {NoCall}]
    BY DEF Leave, TypeOK
  <1>2. b # a /\ call[b] # NoCall /\ call'[b] = call[b] /\ call[b] \in Calls /\ call[a] \in Calls
    BY <1>1
  <1>3. CallIsFresh(a) /\ CallIsFresh(b) /\ a \in Waiters /\ b \in Waiters
    BY <1>2 DEF CurrentIsFresh, Waiters
  <1>4. \A c \in Waiters' : c \in Waiters /\ call'[c] = call[c]
    BY <1>1 DEF Waiters
  <1>5. CASE active' = active
    BY <1>2, <1>3, <1>4, <1>5 DEF CallIsFresh
  <1>6. CASE /\ active' = Moved(call[a].owner, a, call[a].want)
             /\ active[call[a].owner] # NoReservation \/ call[a].kind = "acquire"
    <2>1. \A p \in Owners : p # a /\ p # call[a].owner => active'[p] = active[p]
      BY <1>6 DEF Moved, TypeOK, Book
    <2>2. \A p \in Owners : p # a => active'[p] = NoReservation \/ active'[p] = active[p]
      BY <1>6, <1>2 DEF Moved, TypeOK, Book, Calls
    <2>3. CASE call[b].kind = "acquire"
      BY <1>2, <1>3, <2>2, <2>3 DEF CallIsFresh
    <2>4. CASE call[b].kind # "acquire"
      <3>1. call[b].owner # a \/ call[a].owner = a
        BY <1>3, <1>6, <2>4 DEF CallIsFresh
      <3>2. call[b].owner # call[a].owner
        BY <1>2, <1>3, <2>4 DEF CallIsFresh, Calls, Kinds
      <3>3. call[b].owner # a
        BY <3>1, <3>2
      <3>4. active'[call[b].owner] = active[call[b].owner]
        BY <1>2, <2>1, <3>2, <3>3 DEF Calls
      <3> QED
        BY <1>2, <1>3, <1>4, <2>2, <2>4, <3>4 DEF CallIsFresh
    <2> QED BY <2>3, <2>4
  <1> QED BY <1>5, <1>6

\* A step that leaves the sleeping calls alone, and changes the reservation of
\* idle owners only, leaves their readings true.
LEMMA FreshAfterUpdate ==
    ASSUME TypeOK, CurrentIsFresh, UNCHANGED call, NEW o \in Owners, NEW a \in Owners,
           \A p \in Owners : p # a /\ p # o => active'[p] = active[p],
           \A p \in Owners : p # a => active'[p] = NoReservation \/ active'[p] = active[p],
           a = o \/ active[a] = NoReservation,
           (a = o /\ active'[a] = NoReservation) \/ call[a] = NoCall,
           \A b \in Waiters : call[b].kind = "transfer" => call[b].owner # o
    PROVE  CurrentIsFresh'
  <1> SUFFICES ASSUME NEW b \in Owners, call[b] # NoCall
               PROVE  CallIsFresh(b)'
    BY DEF CurrentIsFresh, Waiters
  <1>1. CallIsFresh(b) /\ b \in Waiters /\ call[b] \in Calls /\ Waiters' = Waiters /\ call' = call
    BY DEF CurrentIsFresh, Waiters, TypeOK
  <1>2. active'[b] = NoReservation \/ active'[b] = active[b]
    OBVIOUS
  <1>3. CASE call[b].kind = "acquire"
    BY <1>1, <1>2, <1>3 DEF CallIsFresh
  <1>4. CASE call[b].kind # "acquire"
    <2>1. call[b].owner # o /\ call[b].owner \in Owners
      BY <1>1, <1>4 DEF Calls, Kinds
    <2>2. call[b].owner # a
      BY <1>1, <1>4, <2>1 DEF CallIsFresh
    <2>3. active'[call[b].owner] = active[call[b].owner]
      BY <2>1, <2>2
    <2> QED BY <1>1, <1>2, <1>4, <2>3 DEF CallIsFresh
  <1> QED BY <1>3, <1>4

\* A call that falls asleep has just read what it will rely on.
LEMMA FreshAfterSleep ==
    ASSUME TypeOK, CurrentIsFresh, NEW a \in Owners, NEW o \in Owners, NEW kind \in Kinds,
           NEW current \in Stages \cup {NoReservation}, NEW s \in Stages,
           Sleep(a, kind, o, current, s),
           call[a] = NoCall,
           IF kind = "acquire"
           THEN o = a /\ active[a] = NoReservation
           ELSE /\ active[o] = current /\ current # NoReservation
                /\ a = o \/ active[a] = NoReservation
                /\ \A b \in Waiters : call[b].kind = "transfer" => call[b].owner # o
    PROVE  CurrentIsFresh'
  <1> DEFINE new == [kind |-> kind, owner |-> o, current |-> current, want |-> s]
  <1>1. /\ call' = [call EXCEPT ![a] = new] /\ active' = active
        /\ call'[a] = new
        /\ \A b \in Owners : b # a => call'[b] = call[b]
    BY DEF Sleep, TypeOK
  <1>2. new.kind = kind /\ new.owner = o /\ new.current = current
    OBVIOUS
  <1>3. \A b \in Waiters' : b = a \/ (b \in Waiters /\ b # a /\ call'[b] = call[b] /\ call[b] \in Calls)
    BY <1>1 DEF Waiters, TypeOK
  <1> SUFFICES ASSUME NEW b \in Waiters' PROVE CallIsFresh(b)'
    BY DEF CurrentIsFresh
  <1> HIDE DEF new
  <1>4. CASE b = a
    <2>1. CASE kind = "acquire"
      BY <1>1, <1>2, <1>4, <2>1 DEF CallIsFresh
    <2>2. CASE kind # "acquire"
      BY <1>1, <1>2, <1>3, <1>4, <2>2 DEF CallIsFresh
    <2> QED BY <2>1, <2>2
  <1>5. CASE b # a
    <2>1. CallIsFresh(b) /\ b \in Waiters /\ call'[b] = call[b] /\ call[b] \in Calls
      BY <1>3, <1>5 DEF CurrentIsFresh
    <2>2. kind = "transfer" /\ call[b].kind = "transfer" => call[b].owner # o
      BY <2>1
    <2> QED BY <1>1, <1>2, <1>3, <1>5, <2>1, <2>2 DEF CallIsFresh, Calls, Kinds
  <1> QED BY <1>4, <1>5

\* Captured reservations stay fresh as long as callers leave a moving owner alone.
THEOREM ReadsStayFresh ==
    ASSUME ExclusiveOwners = TRUE
    PROVE  Spec => []CurrentIsFresh
  <1>1. Init => CurrentIsFresh
    BY DEF Init, CurrentIsFresh, Waiters
  <1>2. TypeOK /\ CurrentIsFresh /\ [Next]_vars => CurrentIsFresh'
    <2> SUFFICES ASSUME TypeOK, CurrentIsFresh, [Next]_vars
                 PROVE  CurrentIsFresh'
      OBVIOUS
    <2>1. CASE UNCHANGED vars
      BY <2>1 DEF vars, CurrentIsFresh, CallIsFresh, Waiters
    <2>a. ASSUME UNCHANGED <<active, call>> PROVE CurrentIsFresh'
      BY <2>a DEF CurrentIsFresh, CallIsFresh, Waiters
    <2>i. ASSUME NEW o \in Owners, OwnerIdle(o)
          PROVE  \A b \in Waiters : call[b].kind = "transfer" => call[b].owner # o
      BY <2>i DEF OwnerIdle, Waiters
    <2>f. \A o \in Owners : active[o] = NoReservation =>
              \A b \in Waiters : call[b].kind = "transfer" => call[b].owner # o
      BY DEF CurrentIsFresh, CallIsFresh
    <2>2. ASSUME NEW o \in Owners, NEW s \in Stages, AcquireNow(o, s) PROVE CurrentIsFresh'
      BY <2>2, <2>f, FreshAfterUpdate DEF AcquireNow, TypeOK, Book
    <2>3. ASSUME NEW o \in Owners, NEW s \in Stages, AcquireQueued(o, s) PROVE CurrentIsFresh'
      BY <2>3, FreshAfterSleep DEF AcquireQueued, Kinds
    <2>4. ASSUME NEW o \in Owners, NEW s \in Stages, TryAcquire(o, s) PROVE CurrentIsFresh'
      BY <2>4, <2>f, FreshAfterUpdate DEF TryAcquire, TypeOK, Book
    <2>5. ASSUME NEW o \in Owners, NEW a \in Owners, NEW s \in Stages, TransferNow(o, a, s) PROVE CurrentIsFresh'
      BY <2>5, <2>i, FreshAfterUpdate DEF TransferNow, TransferAllowed, Moved, TypeOK, Book
    <2>6. ASSUME NEW o \in Owners, NEW a \in Owners, NEW s \in Stages, TransferQueued(o, a, s) PROVE CurrentIsFresh'
      <3>1. active[o] \in Stages \cup {NoReservation}
        BY DEF TypeOK, Book
      <3> QED
        BY <2>6, <2>i, <3>1, FreshAfterSleep DEF TransferQueued, TransferAllowed, Kinds
    <2>7. ASSUME NEW o \in Owners, NEW a \in Owners, NEW s \in Stages, TransferBusy(o, a, s) PROVE CurrentIsFresh'
      BY <2>7, <2>a DEF TransferBusy
    <2>8. ASSUME NEW a \in Owners, Recheck(a) PROVE CurrentIsFresh'
      BY <2>8, <2>a, FreshAfterLeave
         DEF Recheck, WakeCancelled, WakeGranted, WakeKeyError, WakeTimedOut, WakeAgain
    <2>9. ASSUME NEW a \in Owners, Deadline(a) PROVE CurrentIsFresh'
      BY <2>9, <2>a DEF Deadline
    <2>10. ASSUME NEW o \in Owners, Release(o) PROVE CurrentIsFresh'
      BY <2>10, <2>i, FreshAfterUpdate DEF Release, TypeOK, Book
    <2>11. ASSUME NEW o \in Owners, Cancel(o) PROVE CurrentIsFresh'
      BY <2>11, <2>a DEF Cancel
    <2> QED
      BY <2>1, <2>2, <2>3, <2>4, <2>5, <2>6, <2>7, <2>8, <2>9, <2>10, <2>11 DEF Next
  <1> QED
    BY <1>1, <1>2, TypeCorrect, PTL DEF Spec

\* A stage that _fits keeps the book within budget and slots.
LEMMA AdmitFits ==
    ASSUME TypeOK, NEW o \in Owners, NEW s \in Stages, active[o] = NoReservation, Fits(s)
    PROVE  LET new == [active EXCEPT ![o] = s]
           IN  WithinLimits(new) /\ Cardinality(Active(new)) <= MaxActive
  <1> DEFINE new == [active EXCEPT ![o] = s]
  <1>1. WithinLimits(new)
    <2> SUFFICES ASSUME NEW r \in Resources PROVE Baseline[r] + Used(new, r) <= Limit[r]
      BY DEF WithinLimits
    <2>1. Used(new, r) = Used(active, r) - Amount(active[o], r) + Amount(s, r)
      BY UsedUpdate DEF TypeOK
    <2>2. Amount(active[o], r) = 0 /\ Amount(s, r) = s[r] /\ s[r] \in Nat
      BY ReservationsAssumption DEF Amount
    <2>3. Used(active, r) \in Nat /\ Baseline[r] \in Nat /\ Limit[r] \in Nat
      BY UsedType, ReservationsAssumption DEF TypeOK
    <2>4. Baseline[r] + Used(active, r) + s[r] <= Limit[r]
      BY DEF Fits
    <2> HIDE DEF new
    <2> QED BY <2>1, <2>2, <2>3, <2>4
  <1>2. Cardinality(Active(new)) <= MaxActive
    <2>1. [active EXCEPT ![o] = NoReservation, ![o] = s] = new
      BY DEF TypeOK, Book
    <2>2. /\ Cardinality(Active(active)) \in Nat
          /\ Cardinality(Active(new)) <= Cardinality(Active(active)) + 1
      <3> HIDE DEF new
      <3> QED BY <2>1, SlotsMoved DEF TypeOK
    <2>3. Cardinality(Active(active)) < MaxActive /\ MaxActive \in Nat
      BY ReservationsAssumption DEF Fits
    <2>4. Cardinality(Active(new)) \in Nat
      <3>1. IsFiniteSet(Active(new))
        BY ReservationsAssumption, FS_Subset DEF Active
      <3> QED BY <3>1, FS_CardinalityType
    <2> HIDE DEF new
    <2> QED BY <2>2, <2>3, <2>4
  <1> QED BY <1>1, <1>2

\* A move that passes transfer's test, on a fresh reading, keeps the budget.
LEMMA MoveFits ==
    ASSUME TypeOK, NEW o \in Owners, NEW a \in Owners, NEW s \in Stages,
           active[o] # NoReservation, a = o \/ active[a] = NoReservation,
           FitsInstead(active[o], s)
    PROVE  WithinLimits(Moved(o, a, s))
  <1> DEFINE new == Moved(o, a, s)
  <1> SUFFICES ASSUME NEW r \in Resources PROVE Baseline[r] + Used(new, r) <= Limit[r]
    BY DEF WithinLimits
  <1>1. Used(new, r) = Used(active, r) - Amount(active[o], r) + Amount(s, r)
    BY UsedMoved DEF TypeOK, Moved
  <1>2. Amount(active[o], r) = active[o][r] /\ active[o][r] \in Nat /\ Amount(s, r) = s[r] /\ s[r] \in Nat
    BY ReservationsAssumption DEF Amount, TypeOK, Book
  <1>3. Used(active, r) \in Nat /\ Baseline[r] \in Nat /\ Limit[r] \in Nat
    BY UsedType, ReservationsAssumption DEF TypeOK
  <1>4. Baseline[r] + Used(active, r) - active[o][r] + s[r] <= Limit[r]
    BY DEF FitsInstead
  <1> HIDE DEF new
  <1> QED BY <1>1, <1>2, <1>3, <1>4

-----------------------------------------------------------------------------
(* Refinement.                                                              *)

\* Both modules count the elements of a set in the same way.
LEMMA SameCardinality ==
    ASSUME NEW S
    PROVE  Abstract!Cardinality(S) = Cardinality(S)
  BY DEF Abstract!Cardinality, Cardinality

\* The abstract book counts the way the queue counts.
LEMMA SameCount ==
    ASSUME NEW book
    PROVE  /\ Abstract!WithinLimits(book) <=> WithinLimits(book)
           /\ Abstract!Active(book) = Active(book)
  <1>1. \A o, r : Abstract!Held(book, o, r) = Held(book, o, r)
    BY Zenon DEF Abstract!Held, Held
  <1>2. \A r : Abstract!Units(book, r) = Units(book, r)
    BY <1>1 DEF Abstract!Units, Units
  <1>3. \A r : Abstract!Used(book, r) = Used(book, r)
    BY <1>2, SameCardinality, Zenon DEF Abstract!Used, Used
  <1>4. Abstract!WithinLimits(book) <=> WithinLimits(book)
    BY <1>3, Zenon DEF Abstract!WithinLimits, WithinLimits
  <1>5. Abstract!Active(book) = Active(book)
    BY Zenon DEF Abstract!Active, Active
  <1> QED BY <1>4, <1>5

\* The queue implements the abstract book of reservations: every step admits
\* within the budget, moves within the budget, releases, cancels, or leaves the
\* book alone.
THEOREM ImplementsBook ==
    ASSUME ExclusiveOwners = TRUE
    PROVE  Spec => AbstractSpec
  <1>1. Init => Abstract!Init
    BY DEF Init, Abstract!Init
  <1>2. TypeOK /\ CurrentIsFresh /\ [Next]_vars => [Abstract!Next]_(Abstract!vars)
    <2> SUFFICES ASSUME TypeOK, CurrentIsFresh, [Next]_vars
                 PROVE  Abstract!Next \/ UNCHANGED <<active, cancelled>>
      BY DEF Abstract!vars
    <2>a. ASSUME NEW o \in Owners, NEW s \in Stages, active[o] = NoReservation, Fits(s), o \notin cancelled,
                 active' = [active EXCEPT ![o] = s], UNCHANGED cancelled
          PROVE  Abstract!Next
      <3>1. WithinLimits(active') /\ Cardinality(Active(active')) <= MaxActive
        BY <2>a, AdmitFits
      <3>2. Abstract!WithinLimits(active') /\ Cardinality(Abstract!Active(active')) <= MaxActive
        BY <3>1, SameCount, Zenon
      <3>3. Abstract!Admit(o, s)
        BY <2>a, <3>2, SameCardinality DEF Abstract!Admit
      <3> QED BY <3>3 DEF Abstract!Next
    <2>m. ASSUME NEW o \in Owners, NEW a \in Owners, NEW s \in Stages, active[o] # NoReservation,
                 a = o \/ active[a] = NoReservation, FitsInstead(active[o], s), a \notin cancelled,
                 active' = Moved(o, a, s), UNCHANGED cancelled
          PROVE  Abstract!Next
      <3>1. Abstract!Move(o, a, s)
        BY <2>m, MoveFits, SameCount DEF Abstract!Move, Moved
      <3> QED BY <3>1 DEF Abstract!Next
    <2>1. CASE UNCHANGED vars
      BY <2>1 DEF vars
    <2>2. ASSUME NEW o \in Owners, NEW s \in Stages, AcquireNow(o, s) \/ TryAcquire(o, s)
          PROVE  Abstract!Next
      BY <2>2, <2>a DEF AcquireNow, TryAcquire
    <2>3. ASSUME NEW o \in Owners, NEW s \in Stages, AcquireQueued(o, s)
          PROVE  UNCHANGED <<active, cancelled>>
      BY <2>3 DEF AcquireQueued, Sleep
    <2>4. ASSUME NEW o \in Owners, NEW a \in Owners, NEW s \in Stages, TransferNow(o, a, s)
          PROVE  Abstract!Next
      BY <2>4, <2>m DEF TransferNow, TransferAllowed
    <2>5. ASSUME NEW o \in Owners, NEW a \in Owners, NEW s \in Stages,
                 TransferQueued(o, a, s) \/ TransferBusy(o, a, s)
          PROVE  UNCHANGED <<active, cancelled>>
      BY <2>5 DEF TransferQueued, TransferBusy, Sleep
    <2>6. ASSUME NEW a \in Owners, Recheck(a) PROVE Abstract!Next \/ UNCHANGED <<active, cancelled>>
      <3>1. call[a] \in Calls /\ CallIsFresh(a)
        BY <2>6 DEF Recheck, TypeOK, CurrentIsFresh, Waiters
      <3>2. CASE WakeGranted(a)
        <4> DEFINE o == call[a].owner
                   s == call[a].want
        <4>1. o \in Owners /\ s \in Stages /\ a \notin cancelled /\ UNCHANGED cancelled /\ active' = Moved(o, a, s)
          BY <3>1, <3>2 DEF WakeGranted, Leave, Calls
        <4>2. CASE call[a].kind = "acquire"
          <5>1. o = a /\ active[a] = NoReservation /\ Fits(s)
            BY <3>1, <3>2, <4>2 DEF WakeGranted, Granted, CallFits, CallIsFresh
          <5>2. active' = [active EXCEPT ![a] = s]
            BY <4>1, <5>1 DEF Moved, TypeOK, Book
          <5> HIDE DEF o, s
          <5> QED BY <2>a, <4>1, <5>1, <5>2
        <4>3. CASE call[a].kind # "acquire"
          <5>1. active[o] # NoReservation /\ (a = o \/ active[a] = NoReservation) /\ FitsInstead(active[o], s)
            BY <3>1, <3>2, <4>3 DEF WakeGranted, Granted, CallFits, CallIsFresh
          <5> HIDE DEF o, s
          <5> QED BY <2>m, <4>1, <5>1
        <4> QED BY <4>2, <4>3
      <3>3. CASE WakeCancelled(a) \/ WakeKeyError(a) \/ WakeTimedOut(a) \/ WakeAgain(a)
        BY <3>3 DEF WakeCancelled, WakeKeyError, WakeTimedOut, WakeAgain, Leave
      <3> QED BY <2>6, <3>2, <3>3 DEF Recheck
    <2>7. ASSUME NEW a \in Owners, Deadline(a) PROVE UNCHANGED <<active, cancelled>>
      BY <2>7 DEF Deadline
    <2>8. ASSUME NEW o \in Owners, Release(o) PROVE Abstract!Next
      BY <2>8 DEF Release, Abstract!Release, Abstract!Next
    <2>9. ASSUME NEW o \in Owners, Cancel(o) PROVE Abstract!Next
      BY <2>9 DEF Cancel, Abstract!Cancel, Abstract!Next
    <2> QED
      BY <2>1, <2>2, <2>3, <2>4, <2>5, <2>6, <2>7, <2>8, <2>9 DEF Next
  <1> QED
    BY <1>1, <1>2, TypeCorrect, ReadsStayFresh, PTL DEF Spec, AbstractSpec, Abstract!Spec

\* Running roles never exceed CPU, memory or slots: the abstract book never does.
THEOREM BudgetHolds ==
    ASSUME ExclusiveOwners = TRUE
    PROVE  Spec => []WithinBudget
  <1>1. Init => WithinBudget
    <2> SUFFICES ASSUME Init PROVE WithinBudget
      OBVIOUS
    <2>1. \A r \in Resources : Units(active, r) = {}
      BY DEF Init, Units, Held
    <2>2. \A r \in Resources : Used(active, r) = 0
      BY <2>1, FS_EmptySet DEF Used
    <2>3. Active(active) = {}
      BY DEF Init, Active
    <2>4. Cardinality(Active(active)) = 0
      BY <2>3, FS_EmptySet
    <2> QED
      BY <2>2, <2>4, ReservationsAssumption DEF WithinBudget, WithinLimits
  <1>2. TypeOK /\ WithinBudget /\ [Abstract!Next]_(Abstract!vars) => WithinBudget'
    <2> SUFFICES ASSUME TypeOK, WithinBudget, [Abstract!Next]_(Abstract!vars)
                 PROVE  WithinBudget'
      OBVIOUS
    <2>1. CASE UNCHANGED <<active, cancelled>>
      BY <2>1 DEF WithinBudget, WithinLimits, Used, Units, Held, Active
    <2>2. ASSUME NEW o \in Owners, NEW s \in Stages, Abstract!Admit(o, s) PROVE WithinBudget'
      <3>1. Abstract!WithinLimits(active') /\ Cardinality(Abstract!Active(active')) <= MaxActive
        BY <2>2, SameCardinality DEF Abstract!Admit
      <3>2. WithinLimits(active') /\ Cardinality(Active(active')) <= MaxActive
        BY <3>1, SameCount, Zenon
      <3> QED BY <3>2 DEF WithinBudget
    <2>3. ASSUME NEW o \in Owners, NEW a \in Owners, NEW s \in Stages, Abstract!Move(o, a, s)
          PROVE  WithinBudget'
      <3>1. WithinLimits(active')
        BY <2>3, SameCount DEF Abstract!Move
      <3>2. Cardinality(Active(active')) = Cardinality(Active(active))
        <4>1. /\ active[o] # NoReservation
              /\ a = o \/ active[a] = NoReservation
              /\ active' = [active EXCEPT ![o] = NoReservation, ![a] = s]
          BY <2>3 DEF Abstract!Move
        <4> QED BY <4>1, SlotsMoved, ZenonT(30) DEF TypeOK
      <3> QED BY <3>1, <3>2 DEF WithinBudget
    <2>4. ASSUME NEW o \in Owners, Abstract!Release(o) PROVE WithinBudget'
      <3>1. active' = [active EXCEPT ![o] = NoReservation]
        BY <2>4 DEF Abstract!Release
      <3>2. ASSUME NEW r \in Resources PROVE Baseline[r] + Used(active', r) <= Limit[r]
        <4>1. Used(active', r) = Used(active, r) - Amount(active[o], r) + Amount(NoReservation, r)
          BY <3>1, UsedUpdate DEF TypeOK
        <4>2. Amount(NoReservation, r) = 0 /\ Amount(active[o], r) \in Nat
          BY HeldType DEF Amount, TypeOK
        <4>3. Used(active, r) \in Nat /\ Baseline[r] \in Nat /\ Limit[r] \in Nat
          BY UsedType, ReservationsAssumption DEF TypeOK
        <4>4. Baseline[r] + Used(active, r) <= Limit[r]
          BY DEF WithinBudget, WithinLimits
        <4> QED BY <4>1, <4>2, <4>3, <4>4
      <3>3. Active(active') \subseteq Active(active)
        BY <3>1 DEF Active, TypeOK, Book
      <3>4. IsFiniteSet(Active(active))
        BY ReservationsAssumption, FS_Subset DEF Active
      <3>5. /\ Cardinality(Active(active')) \in Nat /\ Cardinality(Active(active)) \in Nat
            /\ Cardinality(Active(active')) <= Cardinality(Active(active))
        BY <3>3, <3>4, FS_Subset, FS_CardinalityType
      <3> QED
        BY <3>2, <3>5, ReservationsAssumption DEF WithinBudget, WithinLimits
    <2>5. ASSUME NEW o \in Owners, Abstract!Cancel(o) PROVE WithinBudget'
      BY <2>5 DEF Abstract!Cancel, WithinBudget, WithinLimits, Used, Units, Held, Active
    <2> QED
      BY <2>1, <2>2, <2>3, <2>4, <2>5 DEF Abstract!Next, Abstract!vars
  <1> QED
    BY <1>1, <1>2, TypeCorrect, ImplementsBook, PTL DEF Spec, AbstractSpec, Abstract!Spec

-----------------------------------------------------------------------------
(* The queue and its wakeups; these need no discipline of the callers.      *)

\* Leaving removes exactly one identity from the queue.
LEMMA QueueAfterLeave ==
    ASSUME TypeOK, QueueMatchesCalls, NEW a \in Owners, call[a] # NoCall, Leave(a)
    PROVE  QueueMatchesCalls'
  <1> DEFINE n == Len(waiting)
  <1>1. PICK i \in DOMAIN waiting :
          /\ waiting[i] = a
          /\ waiting' = SubSeq(waiting, 1, i - 1) \o SubSeq(waiting, i + 1, Len(waiting))
    BY DEF Leave
  <1>2. /\ waiting' \in Seq(Owners)
        /\ Len(waiting') = n - 1
        /\ \A j \in 1..(n - 1) : waiting'[j] = IF j < i THEN waiting[j] ELSE waiting[j + 1]
    BY <1>1, CutOne DEF TypeOK
  <1>3. n \in Nat /\ DOMAIN waiting = 1..n /\ DOMAIN waiting' = 1..(n - 1) /\ i \in 1..n
    BY <1>2, LenProperties DEF TypeOK
  <1>4. Waiters' = Waiters \ {a}
    BY DEF Leave, Waiters, TypeOK
  <1>5. \A j, k \in 1..n : j # k => waiting[j] # waiting[k]
    BY <1>3 DEF QueueMatchesCalls
  <1> HIDE DEF n
  <1>6. \A j, k \in 1..(n - 1) : j # k => waiting'[j] # waiting'[k]
    <2> SUFFICES ASSUME NEW j \in 1..(n - 1), NEW k \in 1..(n - 1), j # k
                 PROVE  waiting'[j] # waiting'[k]
      OBVIOUS
    <2> DEFINE p(x) == IF x < i THEN x ELSE x + 1
    <2>1. p(j) \in 1..n /\ p(k) \in 1..n /\ p(j) # p(k)
      BY <1>3
    <2>2. waiting'[j] = waiting[p(j)] /\ waiting'[k] = waiting[p(k)]
      BY <1>2
    <2> HIDE DEF p
    <2> QED BY <1>5, <2>1, <2>2
  <1>7. \A x : x \in Range(waiting') <=> x \in Range(waiting) /\ x # a
    <2>1. \A x : x \in Range(waiting') => x \in Range(waiting) /\ x # a
      <3> SUFFICES ASSUME NEW j \in 1..(n - 1)
                   PROVE  waiting'[j] \in Range(waiting) /\ waiting'[j] # a
        BY <1>3 DEF Range
      <3> DEFINE q == IF j < i THEN j ELSE j + 1
      <3>1. q \in 1..n /\ q # i
        BY <1>3
      <3>2. waiting'[j] = waiting[q]
        BY <1>2
      <3> HIDE DEF q
      <3> QED BY <1>1, <1>3, <1>5, <3>1, <3>2 DEF Range
    <2>2. \A x : x \in Range(waiting) /\ x # a => x \in Range(waiting')
      <3> SUFFICES ASSUME NEW j \in 1..n, waiting[j] # a
                   PROVE  waiting[j] \in Range(waiting')
        BY <1>3 DEF Range
      <3> DEFINE q == IF j < i THEN j ELSE j - 1
      <3>1. j # i
        BY <1>1
      <3>2. q \in 1..(n - 1) /\ (IF q < i THEN q ELSE q + 1) = j
        BY <1>3, <3>1
      <3>3. waiting'[q] = waiting[j]
        <4> HIDE DEF q
        <4>1. waiting'[q] = IF q < i THEN waiting[q] ELSE waiting[q + 1]
          BY <1>2, <3>2
        <4> QED BY <3>2, <4>1
      <3> HIDE DEF q
      <3> QED BY <1>3, <3>2, <3>3 DEF Range
    <2> QED BY <2>1, <2>2
  <1>8. Range(waiting') = Waiters'
    BY <1>4, <1>7 DEF QueueMatchesCalls
  <1>9. (awake \cup expired)' \subseteq Waiters'
    BY <1>4 DEF Leave, QueueMatchesCalls
  <1> QED
    BY <1>3, <1>6, <1>8, <1>9 DEF QueueMatchesCalls

\* Falling asleep adds exactly one identity to the queue, at its end.
LEMMA QueueAfterSleep ==
    ASSUME TypeOK, QueueMatchesCalls, NEW a \in Owners, NEW o \in Owners, NEW kind \in Kinds,
           NEW current \in Stages \cup {NoReservation}, NEW s \in Stages,
           call[a] = NoCall, Sleep(a, kind, o, current, s)
    PROVE  /\ QueueMatchesCalls'
           /\ Waiters' = Waiters \cup {a} /\ a \notin Waiters
           /\ waiting # <<>> => Head(waiting') = Head(waiting) /\ Head(waiting) \in Waiters
           /\ waiting = <<>> => Waiters = {}
  <1> DEFINE n == Len(waiting)
  <1>1. /\ waiting' \in Seq(Owners)
        /\ Len(waiting') = n + 1
        /\ \A j \in 1..n : waiting'[j] = waiting[j]
        /\ waiting'[n + 1] = a
    BY AppendProperties DEF Sleep, TypeOK
  <1>2. n \in Nat /\ DOMAIN waiting = 1..n /\ DOMAIN waiting' = 1..(n + 1)
    BY <1>1, LenProperties DEF TypeOK
  <1>3. Waiters' = Waiters \cup {a}
    <2>1. [kind |-> kind, owner |-> o, current |-> current, want |-> s] # NoCall
      BY NoCallAssumption DEF Calls
    <2> QED BY <2>1 DEF Sleep, Waiters, TypeOK
  <1>4. a \notin Waiters /\ \A j \in 1..n : waiting[j] \in Waiters
    BY <1>2 DEF Waiters, QueueMatchesCalls, Range
  <1>5. (awake \cup expired)' \subseteq Waiters'
    BY <1>3 DEF Sleep, QueueMatchesCalls
  <1>6. waiting # <<>> => 1 \in 1..n /\ Head(waiting') = waiting'[1] /\ Head(waiting) = waiting[1]
    BY <1>1, <1>2, EmptySeq DEF TypeOK
  <1>7. waiting = <<>> => Waiters = {}
    BY <1>2, EmptySeq DEF QueueMatchesCalls, Range
  <1> HIDE DEF n
  <1>8. \A j, k \in 1..(n + 1) : j # k => waiting'[j] # waiting'[k]
    <2>1. \A j, k \in 1..n : j # k => waiting[j] # waiting[k]
      BY <1>2 DEF QueueMatchesCalls
    <2>2. \A j \in 1..(n + 1) : j = n + 1 \/ j \in 1..n
      BY <1>2
    <2> QED BY <1>1, <1>4, <2>1, <2>2
  <1>9. \A x : x \in Range(waiting') <=> x \in Waiters \cup {a}
    <2>1. \A j \in 1..(n + 1) : j = n + 1 \/ j \in 1..n
      BY <1>2
    <2>2. \A x : x \in Range(waiting') => x \in Waiters \cup {a}
      BY <1>1, <1>2, <1>4, <2>1 DEF Range
    <2>3. n + 1 \in 1..(n + 1) /\ \A j \in 1..n : j \in 1..(n + 1)
      BY <1>2
    <2>4. \A x : x \in Waiters \cup {a} => x \in Range(waiting')
      <3>1. \A x \in Waiters : \E j \in 1..n : x = waiting[j]
        BY <1>2 DEF QueueMatchesCalls, Range
      <3> QED BY <1>1, <1>2, <2>3, <3>1 DEF Range
    <2> QED BY <2>2, <2>4
  <1> QED
    BY <1>1, <1>2, <1>3, <1>4, <1>5, <1>6, <1>7, <1>8, <1>9 DEF QueueMatchesCalls

\* The deque is exactly the set of sleeping calls, each of them once.
THEOREM QueueCorrect == Spec => []QueueMatchesCalls
  <1>1. Init => QueueMatchesCalls
    BY DEF Init, QueueMatchesCalls, Waiters, Range
  <1>2. TypeOK /\ QueueMatchesCalls /\ [Next]_vars => QueueMatchesCalls'
    <2> SUFFICES ASSUME TypeOK, QueueMatchesCalls, [Next]_vars
                 PROVE  QueueMatchesCalls'
      OBVIOUS
    <2>u. ASSUME UNCHANGED <<waiting, call>>, (awake \cup expired)' \subseteq Waiters
          PROVE  QueueMatchesCalls'
      BY <2>u DEF QueueMatchesCalls, Waiters, Range
    <2>1. CASE UNCHANGED vars
      BY <2>1, <2>u DEF vars, QueueMatchesCalls
    <2>2. ASSUME NEW o \in Owners, NEW s \in Stages, AcquireNow(o, s) \/ TryAcquire(o, s)
          PROVE  QueueMatchesCalls'
      BY <2>2, <2>u DEF AcquireNow, TryAcquire, QueueMatchesCalls
    <2>3. ASSUME NEW o \in Owners, NEW s \in Stages, AcquireQueued(o, s)
          PROVE  QueueMatchesCalls'
      BY <2>3, QueueAfterSleep DEF AcquireQueued, Kinds
    <2>4. ASSUME NEW o \in Owners, NEW a \in Owners, NEW s \in Stages, TransferQueued(o, a, s)
          PROVE  QueueMatchesCalls'
      <3>1. active[o] \in Stages \cup {NoReservation}
        BY DEF TypeOK, Book
      <3> QED BY <2>4, <3>1, QueueAfterSleep DEF TransferQueued, TransferAllowed, Kinds
    <2>5. ASSUME NEW o \in Owners, NEW a \in Owners, NEW s \in Stages,
                 TransferNow(o, a, s) \/ TransferBusy(o, a, s)
          PROVE  QueueMatchesCalls'
      BY <2>5, <2>u DEF TransferNow, TransferBusy, NotifyAll, QueueMatchesCalls
    <2>6. ASSUME NEW a \in Owners, Recheck(a) PROVE QueueMatchesCalls'
      <3>1. CASE WakeAgain(a)
        BY <2>u, <3>1 DEF WakeAgain, QueueMatchesCalls
      <3>2. CASE ~ WakeAgain(a)
        BY <2>6, <3>2, QueueAfterLeave
           DEF Recheck, WakeCancelled, WakeGranted, WakeKeyError, WakeTimedOut
      <3> QED BY <3>1, <3>2
    <2>7. ASSUME NEW o \in Owners, Deadline(o) \/ Release(o) \/ Cancel(o)
          PROVE  QueueMatchesCalls'
      BY <2>7, <2>u DEF Deadline, Release, Cancel, NotifyAll, Waiters, QueueMatchesCalls
    <2> QED
      BY <2>1, <2>2, <2>3, <2>4, <2>5, <2>6, <2>7 DEF Next
  <1> QED
    BY <1>1, <1>2, TypeCorrect, PTL DEF Spec

\* No call sleeps through the event it waits for.
THEOREM WakeupsNotLost == Spec => []NoLostWakeup
  <1>1. Init => NoLostWakeup
    BY DEF Init, NoLostWakeup, Waiters
  <1>2. TypeOK /\ QueueMatchesCalls /\ NoLostWakeup /\ [Next]_vars => NoLostWakeup'
    <2> SUFFICES ASSUME TypeOK, QueueMatchesCalls, NoLostWakeup, [Next]_vars
                 PROVE  NoLostWakeup'
      OBVIOUS
    <2>n. ASSUME awake' = Waiters' PROVE NoLostWakeup'
      BY <2>n DEF NoLostWakeup
    <2>1. CASE UNCHANGED vars
      BY <2>1 DEF vars, NoLostWakeup, CallFits, Fits, FitsInstead, Waiters, Active, Used, Units, Held
    <2>2. ASSUME NEW o \in Owners, NEW s \in Stages, AcquireNow(o, s) \/ TryAcquire(o, s)
          PROVE  NoLostWakeup'
      <3>1. waiting = <<>> /\ UNCHANGED call
        BY <2>2 DEF AcquireNow, TryAcquire
      <3>2. Waiters' = {}
        BY <3>1 DEF QueueMatchesCalls, Range, Waiters
      <3> QED BY <3>2 DEF NoLostWakeup
    <2>s. ASSUME NEW a \in Owners, NEW o \in Owners, NEW kind \in Kinds,
                 NEW current \in Stages \cup {NoReservation}, NEW s \in Stages,
                 call[a] = NoCall, a \notin cancelled, Sleep(a, kind, o, current, s),
                 IF kind = "acquire" THEN ~ (waiting = <<>> /\ Fits(s)) ELSE ~ FitsInstead(current, s)
          PROVE  NoLostWakeup'
      <3>1. /\ Waiters' = Waiters \cup {a} /\ a \notin Waiters
            /\ waiting # <<>> => Head(waiting') = Head(waiting) /\ Head(waiting) \in Waiters
            /\ waiting = <<>> => Waiters = {}
        BY <2>s, QueueAfterSleep
      <3>2. /\ UNCHANGED <<active, cancelled, awake, expired>>
            /\ call'[a] = [kind |-> kind, owner |-> o, current |-> current, want |-> s]
            /\ \A b \in Owners : b # a => call'[b] = call[b]
        BY <2>s DEF Sleep, TypeOK
      <3>3. /\ \A x : Fits(x)' <=> Fits(x)
            /\ \A x, y : FitsInstead(x, y)' <=> FitsInstead(x, y)
        BY <3>2 DEF Fits, FitsInstead, Active, Used, Units, Held
      <3>4. a \notin awake /\ a \notin expired
        BY <3>1 DEF QueueMatchesCalls
      <3>5. ASSUME NEW b \in Waiters' \ awake'
            PROVE  b \notin cancelled' /\ b \notin expired' /\ ~ CallFits(b)'
        <4>1. CASE b = a
          <5>1. call'[a].kind = kind /\ call'[a].current = current /\ call'[a].want = s
            BY <3>2
          <5>2. CASE kind = "acquire"
            <6>1. waiting # <<>> => Head(waiting') # a
              BY <3>1
            <6>2. CASE waiting # <<>>
              BY <2>s, <3>2, <3>4, <4>1, <5>1, <5>2, <6>1, <6>2 DEF CallFits
            <6>3. CASE waiting = <<>>
              <7>1. ~ Fits(s)'
                BY <2>s, <3>3, <5>2, <6>3
              <7> QED BY <2>s, <3>2, <3>4, <4>1, <5>1, <5>2, <7>1 DEF CallFits
            <6> QED BY <6>2, <6>3
          <5>3. CASE kind # "acquire"
            <6>1. ~ FitsInstead(current, s)'
              BY <2>s, <3>3, <5>3
            <6> QED BY <2>s, <3>2, <3>4, <4>1, <5>1, <5>3, <6>1 DEF CallFits
          <5> QED BY <5>2, <5>3
        <4>2. CASE b # a
          <5>1. b \in Waiters \ awake /\ b \in Owners /\ call'[b] = call[b] /\ waiting # <<>>
            BY <3>1, <3>2, <3>5, <4>2 DEF Waiters
          <5>2. b \notin cancelled /\ b \notin expired /\ ~ CallFits(b)
            BY <5>1 DEF NoLostWakeup
          <5>3. CallFits(b)' <=> CallFits(b)
            BY <3>1, <3>3, <5>1 DEF CallFits
          <5> QED BY <3>2, <5>2, <5>3
        <4> QED BY <4>1, <4>2
      <3> QED BY <3>5 DEF NoLostWakeup
    <2>3. ASSUME NEW o \in Owners, NEW s \in Stages, AcquireQueued(o, s) PROVE NoLostWakeup'
      BY <2>3, <2>s DEF AcquireQueued, Kinds
    <2>4. ASSUME NEW o \in Owners, NEW a \in Owners, NEW s \in Stages, TransferQueued(o, a, s)
          PROVE  NoLostWakeup'
      <3>1. active[o] \in Stages \cup {NoReservation}
        BY DEF TypeOK, Book
      <3> QED BY <2>4, <2>s, <3>1 DEF TransferQueued, TransferAllowed, Kinds
    <2>5. ASSUME NEW o \in Owners, NEW a \in Owners, NEW s \in Stages,
                 TransferNow(o, a, s) \/ TransferBusy(o, a, s)
          PROVE  NoLostWakeup'
      BY <2>5, <2>n DEF TransferNow, TransferBusy, NotifyAll, Waiters
    <2>6. ASSUME NEW a \in Owners, Recheck(a) PROVE NoLostWakeup'
      <3>1. CASE WakeAgain(a)
        <4>1. /\ UNCHANGED <<active, waiting, cancelled, call, expired>> /\ awake' = awake \ {a}
              /\ a \notin cancelled /\ a \notin expired /\ ~ CallFits(a)
          BY <3>1 DEF WakeAgain, Granted
        <4>2. \A b : CallFits(b)' <=> CallFits(b)
          BY <4>1 DEF CallFits, Fits, FitsInstead, Active, Used, Units, Held
        <4>3. Waiters' = Waiters
          BY <4>1 DEF Waiters
        <4> QED BY <4>1, <4>2, <4>3 DEF NoLostWakeup
      <3>2. CASE ~ WakeAgain(a)
        <4>1. Leave(a)
          BY <2>6, <3>2 DEF Recheck, WakeCancelled, WakeGranted, WakeKeyError, WakeTimedOut
        <4>2. awake' = Waiters'
          BY <4>1 DEF Leave, Waiters, TypeOK
        <4> QED BY <2>n, <4>2
      <3> QED BY <3>1, <3>2
    <2>7. ASSUME NEW o \in Owners, Deadline(o) PROVE NoLostWakeup'
      <3>1. /\ UNCHANGED <<active, waiting, cancelled, call>> /\ awake' = awake \cup {o}
            /\ expired' = expired \cup {o}
        BY <2>7 DEF Deadline
      <3>2. \A b : CallFits(b)' <=> CallFits(b)
        BY <3>1 DEF CallFits, Fits, FitsInstead, Active, Used, Units, Held
      <3>3. Waiters' = Waiters
        BY <3>1 DEF Waiters
      <3> QED BY <3>1, <3>2, <3>3 DEF NoLostWakeup
    <2>8. ASSUME NEW o \in Owners, Release(o) \/ Cancel(o) PROVE NoLostWakeup'
      BY <2>8, <2>n DEF Release, Cancel, NotifyAll, Waiters
    <2> QED
      BY <2>1, <2>2, <2>3, <2>4, <2>5, <2>6, <2>7, <2>8 DEF Next
  <1> QED
    BY <1>1, <1>2, TypeCorrect, QueueCorrect, PTL DEF Spec

-----------------------------------------------------------------------------
(* What one step may do to the book.                                        *)

\* An entry is given up, or a call that is not cancelled writes one: moving a
\* reservation that exists, or in its turn.
BookStep ==
    \/ UNCHANGED active
    \/ \E o \in Owners : active' = [active EXCEPT ![o] = NoReservation]
    \/ \E o \in Owners, a \in Owners, s \in Stages :
          /\ active' = Moved(o, a, s)
          /\ a \notin cancelled
          /\ active[o] # NoReservation \/ waiting = <<>> \/ Head(waiting) = a

LEMMA BookSteps ==
    ASSUME TypeOK, [Next]_vars
    PROVE  BookStep
  <1>1. ASSUME NEW o \in Owners, NEW s \in Stages, AcquireNow(o, s) \/ TryAcquire(o, s) PROVE BookStep
    <2>1. active' = Moved(o, o, s)
      BY <1>1 DEF AcquireNow, TryAcquire, Moved, TypeOK, Book
    <2>2. o \notin cancelled /\ waiting = <<>>
      BY <1>1 DEF AcquireNow, TryAcquire
    <2> QED BY <2>1, <2>2 DEF BookStep
  <1>2. ASSUME NEW o \in Owners, NEW a \in Owners, NEW s \in Stages, TransferNow(o, a, s) PROVE BookStep
    BY <1>2 DEF TransferNow, TransferAllowed, BookStep
  <1>3. ASSUME NEW a \in Owners, Recheck(a) PROVE BookStep
    <2>1. CASE WakeGranted(a)
      <3>1. call[a] \in Calls
        BY <1>3 DEF Recheck, TypeOK
      <3>2. call[a].owner \in Owners /\ call[a].want \in Stages
        BY <3>1 DEF Calls
      <3>3. active[call[a].owner] # NoReservation \/ Head(waiting) = a
        BY <2>1 DEF WakeGranted, Granted, CallFits
      <3> QED BY <2>1, <3>2, <3>3 DEF WakeGranted, BookStep
    <2>2. CASE ~ WakeGranted(a)
      BY <1>3, <2>2 DEF Recheck, WakeCancelled, WakeKeyError, WakeTimedOut, WakeAgain, BookStep
    <2> QED BY <2>1, <2>2
  <1>4. ASSUME NEW o \in Owners, Release(o) PROVE BookStep
    BY <1>4 DEF Release, BookStep
  <1>5. ASSUME NEW o \in Owners, NEW a \in Owners, NEW s \in Stages,
               AcquireQueued(o, s) \/ TransferQueued(o, a, s) \/ TransferBusy(o, a, s) \/ Deadline(o) \/ Cancel(o)
        PROVE  BookStep
    BY <1>5 DEF AcquireQueued, TransferQueued, TransferBusy, Sleep, Deadline, Cancel, BookStep
  <1>6. ASSUME NEW o \in Owners, Deadline(o) \/ Cancel(o) PROVE BookStep
    BY <1>6 DEF Deadline, Cancel, BookStep
  <1>7. ASSUME NEW o \in Owners, NEW s \in Stages, AcquireQueued(o, s) PROVE BookStep
    BY <1>7 DEF AcquireQueued, Sleep, BookStep
  <1>8. CASE UNCHANGED vars
    BY <1>8 DEF vars, BookStep
  <1> QED
    BY <1>1, <1>2, <1>3, <1>4, <1>5, <1>6, <1>7, <1>8 DEF Next

\* Nobody overtakes the queue: a reservation that is added, and not moved, goes
\* to the head of the queue or finds it empty.
THEOREM NobodyOvertakes == Spec => AdmitsInOrder
  <1>1. ASSUME TypeOK, [Next]_vars, NEW p \in Owners, active[p] = NoReservation,
               Active(active') = Active(active) \cup {p}
        PROVE  waiting = <<>> \/ Head(waiting) = p
    <2>1. p \notin Active(active) /\ p \in Active(active')
      BY <1>1 DEF Active
    <2>2. ASSUME NEW o \in Owners, NEW a \in Owners, NEW s \in Stages, active' = Moved(o, a, s),
                 active[o] # NoReservation \/ waiting = <<>> \/ Head(waiting) = a
          PROVE  waiting = <<>> \/ Head(waiting) = p
      <3>1. Active(active') = (Active(active) \ {o}) \cup {a}
        BY <1>1, <2>2, ReservationsAssumption DEF Active, Moved, TypeOK, Book
      <3>2. p = a
        BY <2>1, <3>1
      <3>3. o \notin Active(active)
        BY <1>1, <2>1, <3>1, <3>2
      <3> QED BY <2>2, <3>2, <3>3 DEF Active
    <2>3. ASSUME NEW o \in Owners, active' = [active EXCEPT ![o] = NoReservation] PROVE FALSE
      BY <1>1, <2>1, <2>3 DEF Active, TypeOK, Book
    <2>4. active' # active
      BY <2>1
    <2> QED BY <1>1, <2>2, <2>3, <2>4, BookSteps DEF BookStep
  <1>2. TypeOK /\ [Next]_vars =>
          [\A o \in Owners : (active[o] = NoReservation /\ Active(active') = Active(active) \cup {o})
              => (waiting = <<>> \/ Head(waiting) = o)]_vars
    BY <1>1
  <1> QED
    BY <1>2, TypeCorrect, PTL DEF Spec, AdmitsInOrder

\* A cancelled owner can only lose what it holds.
THEOREM CancelledOnlyLoses == Spec => CancelledGainsNothing
  <1>1. ASSUME TypeOK, [Next]_vars, NEW o \in cancelled
        PROVE  active'[o] \in {active[o], NoReservation}
    <2>1. o \in Owners /\ active \in Book
      BY <1>1 DEF TypeOK
    <2>2. BookStep
      BY <1>1, BookSteps
    <2> QED BY <2>1, <2>2 DEF BookStep, Moved, Book
  <1>2. TypeOK /\ [Next]_vars =>
          [\A o \in cancelled : active'[o] \in {active[o], NoReservation}]_vars
    BY <1>1
  <1> QED
    BY <1>2, TypeCorrect, PTL DEF Spec, CancelledGainsNothing
=============================================================================
