------------------------ MODULE TokenSupervisorProofs ------------------------
(* Theorems about the token supervisor, for every set of requests, every      *)
(* assignment of them to runs, all caps, estimates and bills.                 *)
EXTENDS TokenSupervisor, FiniteSetTheorems, TLAPS

-----------------------------------------------------------------------------
(* The arithmetic of the sums.                                              *)

Slice(r, n) == {r} \X (1..n)

\* One request's tokens, as many as its number says.
LEMMA SliceSize ==
    ASSUME NEW r, NEW n \in Nat
    PROVE  IsFiniteSet(Slice(r, n)) /\ Cardinality(Slice(r, n)) = n
  <1>1. IsFiniteSet({r}) /\ Cardinality({r}) = 1
    BY FS_Singleton
  <1>2. IsFiniteSet(1..n) /\ Cardinality(1..n) = n
    BY FS_Interval, SMT
  <1>3. /\ IsFiniteSet({r} \X (1..n))
        /\ Cardinality({r} \X (1..n)) = Cardinality({r}) * Cardinality(1..n)
    BY <1>1, <1>2, FS_Product, Zenon
  <1>4. Cardinality({r} \X (1..n)) = 1 * n
    BY <1>1, <1>2, <1>3, Zenon
  <1> QED
    BY <1>3, <1>4 DEF Slice

\* A sum over some of the requests is a natural number.
LEMMA TotalType ==
    ASSUME NEW f \in [Requests -> Nat], NEW S \in SUBSET Requests
    PROVE  IsFiniteSet(Units(f, S)) /\ Total(f, S) \in Nat
  <1> DEFINE slices == {Slice(r, f[r]) : r \in S}
             slice == [r \in S |-> Slice(r, f[r])]
  <1>1. slice \in Surjection(S, slices)
    BY DEF Surjection
  <1>2. IsFiniteSet(slices)
    BY <1>1, FS_Surjection, FS_Subset, TokenAssumption
  <1>3. \A T \in slices : IsFiniteSet(T)
    BY SliceSize
  <1>4. Units(f, S) = UNION slices
    BY DEF Units, Slice
  <1>5. IsFiniteSet(Units(f, S))
    <2> HIDE DEF slices
    <2> QED BY <1>2, <1>3, <1>4, FS_UNION
  <1> QED
    BY <1>5, FS_CardinalityType DEF Total

\* A sum is monotone in its terms.
LEMMA TotalMonotone ==
    ASSUME NEW f \in [Requests -> Nat], NEW g \in [Requests -> Nat], NEW S \in SUBSET Requests,
           \A r \in S : f[r] <= g[r]
    PROVE  Total(f, S) <= Total(g, S)
  <1>1. ASSUME NEW u \in Units(f, S)
        PROVE  u \in Units(g, S)
    <2>1. PICK r \in S : u \in {r} \X (1..f[r])
      BY <1>1 DEF Units
    <2>2. f[r] \in Nat /\ g[r] \in Nat /\ f[r] <= g[r]
      OBVIOUS
    <2>3. 1..f[r] \subseteq 1..g[r]
      BY <2>2
    <2>4. u \in {r} \X (1..g[r])
      BY <2>1, <2>3
    <2> QED
      BY <2>4 DEF Units
  <1>2. IsFiniteSet(Units(g, S))
    BY TotalType
  <1> QED
    BY <1>1, <1>2, FS_Subset DEF Total

\* Replacing a part of a finite set by elements that are not in the rest.
LEMMA Exchange ==
    ASSUME NEW U, IsFiniteSet(U), NEW A \in SUBSET U, NEW B, IsFiniteSet(B), (U \ A) \cap B = {}
    PROVE  /\ Cardinality(U) \in Nat /\ Cardinality(A) \in Nat /\ Cardinality(B) \in Nat
           /\ Cardinality((U \ A) \cup B) = Cardinality(U) - Cardinality(A) + Cardinality(B)
  <1> DEFINE rest == U \ A
  <1>1. Cardinality(U) \in Nat /\ Cardinality(A) \in Nat /\ Cardinality(B) \in Nat
    BY FS_Subset, FS_CardinalityType
  <1>2. U \cap A = A
    OBVIOUS
  <1>3. IsFiniteSet(rest) /\ Cardinality(rest) = Cardinality(U) - Cardinality(A)
    BY <1>2, FS_Difference
  <1>4. Cardinality(rest \cap B) = 0
    BY FS_EmptySet
  <1> HIDE DEF rest
  <1>5. Cardinality(rest \cup B) = Cardinality(rest) + Cardinality(B) - Cardinality(rest \cap B)
    BY <1>3, FS_Union
  <1>6. Cardinality(rest \cup B) = Cardinality(U) - Cardinality(A) + Cardinality(B)
    BY <1>1, <1>3, <1>4, <1>5
  <1> QED BY <1>1, <1>6 DEF rest

\* Changing one term changes the sum by the difference, when the term is in it.
LEMMA TotalUpdate ==
    ASSUME NEW f \in [Requests -> Nat], NEW S \in SUBSET Requests, NEW r \in Requests,
           NEW n \in Nat
    PROVE  /\ r \in S => Total([f EXCEPT ![r] = n], S) = Total(f, S) - f[r] + n
           /\ r \notin S => Total([f EXCEPT ![r] = n], S) = Total(f, S)
  <1> DEFINE new == [f EXCEPT ![r] = n]
             old == Slice(r, f[r])
             fresh == Slice(r, n)
             rest == Units(f, S) \ old
  <1>1. new \in [Requests -> Nat] /\ new[r] = n /\ \A p \in Requests : p # r => new[p] = f[p]
    OBVIOUS
  <1>2. \A u : u \in Units(f, S) <=> \E p \in S : u \in Slice(p, f[p])
    BY DEF Units, Slice
  <1>3. \A u : u \in Units(new, S) <=> \E p \in S : u \in Slice(p, new[p])
    BY DEF Units, Slice
  <1>4. \A u, p, q, m, k : u \in Slice(p, m) /\ u \in Slice(q, k) => p = q
    BY DEF Slice
  <1> HIDE DEF new
  <1>5. ASSUME r \notin S PROVE Total(new, S) = Total(f, S)
    <2>1. Units(new, S) = Units(f, S)
      BY <1>1, <1>2, <1>3, <1>5
    <2> QED BY <2>1 DEF Total
  <1>6. ASSUME r \in S PROVE Total(new, S) = Total(f, S) - f[r] + n
    <2>1. Units(new, S) = rest \cup fresh
      BY <1>1, <1>2, <1>3, <1>4, <1>6
    <2>2. rest \cap fresh = {}
      BY <1>2, <1>4
    <2>3. old \subseteq Units(f, S)
      BY <1>2, <1>6
    <2>4. /\ IsFiniteSet(Units(f, S)) /\ Total(f, S) \in Nat
          /\ IsFiniteSet(old) /\ Cardinality(old) = f[r] /\ f[r] \in Nat
          /\ IsFiniteSet(fresh) /\ Cardinality(fresh) = n
      <3>1. f[r] \in Nat
        OBVIOUS
      <3> QED BY <3>1, TotalType, SliceSize
    <2> HIDE DEF old, fresh
    <2>5. Cardinality(rest \cup fresh) = Cardinality(Units(f, S)) - Cardinality(old) + Cardinality(fresh)
      BY <2>2, <2>3, <2>4, Exchange
    <2> HIDE DEF rest
    <2> QED BY <2>1, <2>4, <2>5 DEF Total
  <1> QED BY <1>1, <1>5, <1>6 DEF new

-----------------------------------------------------------------------------
(* The invariant.                                                           *)

RequestsOf(x) == {r \in Requests : RunOf[r] = x}

\* The counters are the sums of what the ledger counts for each request ...
Sums ==
    /\ projectAccountedTokens = Total(charge, Requests)
    /\ \A x \in Runs : runAccountedTokens[x] = Total(charge, RequestsOf(x))

\* ... and within the caps.
WithinCaps ==
    /\ projectAccountedTokens <= ProjectCap
    /\ \A x \in Runs : runAccountedTokens[x] <= RunCap

\* What the state of one request says of the others.
Coherent(r) ==
    /\ stream[r] = "preparing" =>
          r \notin reservations /\ lines[r] = {} /\ charge[r] = 0 /\ billed[r] = 0 /\ reserved[r] = 0
    /\ stream[r] = "sent" => r \in reservations
    /\ stream[r] \in {"sent", "raised"} => "open" \in lines[r]
    /\ r \in reservations => charge[r] = reserved[r] /\ lines[r] \cap Closings = {}
    /\ charge[r] = reserved[r] \/ charge[r] = billed[r]
    /\ billed[r] <= reserved[r] => billed[r] <= charge[r]
    /\ "settled" \in lines[r] => billed[r] <= reserved[r]
    /\ billed[r] # 0 => "open" \in lines[r]
    /\ \E c \in Closings : lines[r] \cap Closings \subseteq {c}
    /\ lines[r] \cap Closings # {} => "open" \in lines[r]
    /\ r \notin reservations /\ billed[r] > charge[r] => reconciliationRequired

IInv == TypeOK /\ Sums /\ WithinCaps /\ \A r \in Requests : Coherent(r)

\* Counting tokens for a request keeps the counters equal to the sums.
LEMMA CountKeepsSums ==
    ASSUME TypeOK, Sums, NEW r \in Requests, NEW k \in Int, charge[r] + k \in Nat, Count(r, k)
    PROVE  Sums' /\ charge' \in [Requests -> Nat]
                 /\ runAccountedTokens' \in [Runs -> Int] /\ projectAccountedTokens' \in Int
  <1>1. /\ charge \in [Requests -> Nat] /\ runAccountedTokens \in [Runs -> Int]
        /\ projectAccountedTokens \in Int /\ RunOf[r] \in Runs /\ charge[r] \in Nat
    BY TokenAssumption DEF TypeOK
  <1> DEFINE n == charge[r] + k
             new == [charge EXCEPT ![r] = n]
  <1>2. charge' = new
    BY DEF Count
  <1>3. n \in Nat /\ n - charge[r] = k
    BY <1>1
  <1> HIDE DEF n
  <1>4. new \in [Requests -> Nat]
    BY <1>1, <1>3
  <1>5. Total(new, Requests) = Total(charge, Requests) - charge[r] + n /\ Total(charge, Requests) \in Nat
    <2>1. Requests \in SUBSET Requests
      OBVIOUS
    <2>2. Total(charge, Requests) \in Nat
      BY <1>1, <2>1, TotalType
    <2>3. \A S \in SUBSET Requests : r \in S => Total(new, S) = Total(charge, S) - charge[r] + n
      BY <1>1, <1>3, TotalUpdate, ZenonT(30)
    <2> HIDE DEF new
    <2> QED BY <2>1, <2>2, <2>3
  <1>6. \A x \in Runs :
           /\ Total(charge, RequestsOf(x)) \in Nat
           /\ RunOf[r] = x => Total(new, RequestsOf(x)) = Total(charge, RequestsOf(x)) - charge[r] + n
           /\ RunOf[r] # x => Total(new, RequestsOf(x)) = Total(charge, RequestsOf(x))
    <2> TAKE x \in Runs
    <2>1. RequestsOf(x) \in SUBSET Requests /\ (r \in RequestsOf(x) <=> RunOf[r] = x)
      BY DEF RequestsOf
    <2>2. Total(charge, RequestsOf(x)) \in Nat
      BY <1>1, <2>1, TotalType
    <2>3. /\ r \in RequestsOf(x) => Total(new, RequestsOf(x)) = Total(charge, RequestsOf(x)) - charge[r] + n
          /\ r \notin RequestsOf(x) => Total(new, RequestsOf(x)) = Total(charge, RequestsOf(x))
      BY <1>1, <1>3, <2>1, TotalUpdate, ZenonT(30)
    <2> QED BY <2>1, <2>2, <2>3, Zenon
  <1>7. Total(charge', Requests) = Total(new, Requests)
        /\ \A x \in Runs : Total(charge', RequestsOf(x)) = Total(new, RequestsOf(x))
    BY <1>2
  <1> HIDE DEF new
  <1>8. /\ projectAccountedTokens' = projectAccountedTokens + k
        /\ runAccountedTokens' = [runAccountedTokens EXCEPT ![RunOf[r]] = @ + k]
    BY DEF Count
  <1>9. projectAccountedTokens' = Total(charge', Requests)
    BY <1>1, <1>3, <1>5, <1>7, <1>8 DEF Sums
  <1>10. \A x \in Runs : runAccountedTokens'[x] = Total(charge', RequestsOf(x))
    <2> TAKE x \in Runs
    <2>1. CASE RunOf[r] = x
      BY <1>1, <1>3, <1>6, <1>7, <1>8, <2>1 DEF Sums
    <2>2. CASE RunOf[r] # x
      BY <1>1, <1>6, <1>7, <1>8, <2>2 DEF Sums
    <2> QED BY <2>1, <2>2
  <1>11. Sums'
    BY <1>9, <1>10 DEF Sums, RequestsOf
  <1> QED
    BY <1>1, <1>2, <1>4, <1>8, <1>11


\* A step that leaves the sums and what is counted alone.
LEMMA SumsUnchanged ==
    ASSUME Sums, WithinCaps, UNCHANGED <<sums, charge>>
    PROVE  Sums' /\ WithinCaps'
  BY DEF Sums, WithinCaps, RequestsOf, sums

\* A step of one request leaves the others coherent.
OnlyOf(r) ==
    /\ reconciliationRequired => reconciliationRequired'
    /\ \A p \in Requests \ {r} :
          /\ p \in reservations' <=> p \in reservations
          /\ lines'[p] = lines[p] /\ stream'[p] = stream[p] /\ reserved'[p] = reserved[p]
          /\ charge'[p] = charge[p] /\ billed'[p] = billed[p]

LEMMA OthersStayCoherent ==
    ASSUME NEW r \in Requests, \A p \in Requests : Coherent(p), OnlyOf(r), Coherent(r)'
    PROVE  \A p \in Requests : Coherent(p)'
  <1> TAKE p \in Requests
  <1>1. CASE p = r
    BY <1>1
  <1>2. CASE p # r
    BY <1>2 DEF OnlyOf, Coherent
  <1> QED BY <1>1, <1>2

\* The ledger starts empty, with nothing counted.
LEMMA InitInv == Init => IInv
  <1> SUFFICES ASSUME Init PROVE IInv
    OBVIOUS
  <1>1. TypeOK
    <2>1. faults \in 0..MaxFaults
      BY TokenAssumption DEF Init
    <2>2. reservations \in SUBSET Requests
          /\ projectAccountedTokens \in Int /\ runAccountedTokens \in [Runs -> Int]
      BY DEF Init
    <2>6. reconciliationRequired \in BOOLEAN
      BY Zenon DEF Init
    <2>3. /\ lines \in [Requests -> SUBSET (Closings \cup {"open", "rejected"})]
          /\ charge \in [Requests -> Nat]
      BY DEF Init
    <2>4. /\ stream \in [Requests -> {"preparing", "sent", "raised", "over"}]
          /\ output \in [Requests -> {"none", "done", "error"}]
      BY DEF Init
    <2>5. /\ reserved \in [Requests -> Estimates \cup {0}]
          /\ billed \in [Requests -> Costs \cup {0}]
      BY DEF Init
    <2> QED BY <2>1, <2>2, <2>3, <2>4, <2>5, <2>6 DEF TypeOK
  <1>2. \A S \in SUBSET Requests : Total(charge, S) = 0
    <2> TAKE S \in SUBSET Requests
    <2>1. \A r \in S : charge[r] = 0
      BY DEF Init
    <2>2. Units(charge, S) = {}
      BY <2>1 DEF Units
    <2> QED BY <2>2, FS_EmptySet DEF Total
  <1>3. Sums
    <2>1. \A x \in Runs : RequestsOf(x) \in SUBSET Requests
      BY DEF RequestsOf
    <2>2. Requests \in SUBSET Requests
      OBVIOUS
    <2> QED BY <1>2, <2>1, <2>2 DEF Sums, Init
  <1>4. WithinCaps
    BY TokenAssumption DEF WithinCaps, Init
  <1>5. \A r \in Requests : Coherent(r)
    <2> TAKE r \in Requests
    <2>1. \E c \in Closings : {} \cap Closings \subseteq {c}
      BY DEF Closings
    <2> QED BY <2>1 DEF Coherent, Init
  <1> QED BY <1>1, <1>3, <1>4, <1>5 DEF IInv

-----------------------------------------------------------------------------
(* The steps.                                                               *)

LineNames == Closings \cup {"open", "rejected"}

\* What an append leaves in the file: its line, or nothing when it raises.
LEMMA AppendAdds ==
    ASSUME TypeOK, NEW r \in Requests, NEW line \in LineNames, NEW raises, Append(r, line, raises)
    PROVE  /\ lines' \in [Requests -> SUBSET LineNames] /\ faults' \in 0..MaxFaults
           /\ \A p \in Requests \ {r} : lines'[p] = lines[p]
           /\ lines'[r] = lines[r] \/ lines'[r] = lines[r] \cup {line}
           /\ ~ raises => lines'[r] = lines[r] \cup {line}
  <1>1. lines \in [Requests -> SUBSET LineNames] /\ faults \in 0..MaxFaults /\ MaxFaults \in Nat
    BY TokenAssumption DEF TypeOK, LineNames
  <1>2. CASE lines' = [lines EXCEPT ![r] = @ \cup {line}] /\ UNCHANGED faults
    BY <1>1, <1>2
  <1>3. CASE /\ raises
             /\ \E written \in SUBSET {line} : lines' = [lines EXCEPT ![r] = @ \cup written]
             /\ faults < MaxFaults /\ faults' = faults + 1
    <2>1. PICK written \in SUBSET {line} : lines' = [lines EXCEPT ![r] = @ \cup written]
      BY <1>3
    <2>2. written = {} \/ written = {line}
      OBVIOUS
    <2>3. CASE written = {}
      <3>1. lines' = lines
        BY <1>1, <2>1, <2>3
      <3> QED BY <1>1, <1>3, <3>1
    <2>4. CASE written = {line}
      BY <1>1, <1>3, <2>1, <2>4
    <2> QED BY <2>2, <2>3, <2>4
  <1> QED
    BY <1>2, <1>3, Zenon DEF Append

\* The values of one request have their types.
LEMMA Types ==
    ASSUME TypeOK, NEW r \in Requests
    PROVE  /\ charge[r] \in Nat /\ billed[r] \in Nat /\ reserved[r] \in Nat
           /\ lines[r] \in SUBSET LineNames /\ RunOf[r] \in Runs
           /\ RunCap \in Nat /\ ProjectCap \in Nat
           /\ projectAccountedTokens \in Int /\ runAccountedTokens \in [Runs -> Int]
  <1>1. charge[r] \in Nat /\ billed[r] \in Nat /\ reserved[r] \in Nat
    <2>1. charge[r] \in Nat /\ billed[r] \in Costs \cup {0} /\ reserved[r] \in Estimates \cup {0}
      BY DEF TypeOK
    <2>2. Costs \subseteq Nat /\ Estimates \subseteq Nat
      BY TokenAssumption
    <2>3. 0 \in Nat
      OBVIOUS
    <2> QED BY <2>1, <2>2, <2>3, Zenon
  <1>2. lines[r] \in SUBSET LineNames
    BY DEF TypeOK, LineNames
  <1>3. RunOf[r] \in Runs /\ RunCap \in Nat /\ ProjectCap \in Nat
    BY TokenAssumption
  <1> QED BY <1>1, <1>2, <1>3 DEF TypeOK

\* A reservation within the caps, recorded or not, keeps the books.
LEMMA ReserveStep ==
    ASSUME IInv, NEW r \in Requests, NEW tokens \in Estimates, NEW raises,
           stream[r] = "preparing", Reserve(r, tokens, raises)
    PROVE  /\ Sums' /\ WithinCaps' /\ charge' \in [Requests -> Nat]
           /\ runAccountedTokens' \in [Runs -> Int] /\ projectAccountedTokens' \in Int
           /\ reserved' \in [Requests -> Estimates \cup {0}]
           /\ reserved'[r] = tokens /\ charge'[r] = tokens /\ tokens \in Nat \ {0}
           /\ lines' \in [Requests -> SUBSET LineNames] /\ faults' \in 0..MaxFaults
           /\ lines'[r] \subseteq {"open"} /\ (~ raises => lines'[r] = {"open"})
           /\ reservations' = reservations \cup {r}
           /\ \A p \in Requests \ {r} : /\ lines'[p] = lines[p] /\ reserved'[p] = reserved[p]
                                        /\ charge'[p] = charge[p]
  <1>1. TypeOK /\ Sums /\ WithinCaps /\ Coherent(r)
    BY DEF IInv
  <1>2. tokens \in Nat \ {0} /\ tokens \in Int
    BY TokenAssumption
  <1>3. charge[r] = 0 /\ lines[r] = {}
    BY <1>1 DEF Coherent
  <1>4. Count(r, tokens) /\ Fits(r, tokens) /\ Append(r, "open", raises)
        /\ reservations' = reservations \cup {r} /\ reserved' = [reserved EXCEPT ![r] = tokens]
    BY DEF Reserve
  <1>5. charge[r] + tokens \in Nat
    BY <1>2, <1>3
  <1>6. /\ Sums' /\ charge' \in [Requests -> Nat]
        /\ runAccountedTokens' \in [Runs -> Int] /\ projectAccountedTokens' \in Int
    BY <1>1, <1>2, <1>4, <1>5, CountKeepsSums
  <1>7. WithinCaps'
    BY <1>1, <1>2, <1>4, Types DEF WithinCaps, Fits, Count
  <1>8. "open" \in LineNames
    BY DEF LineNames
  <1>9. /\ lines' \in [Requests -> SUBSET LineNames] /\ faults' \in 0..MaxFaults
        /\ \A p \in Requests \ {r} : lines'[p] = lines[p]
        /\ lines'[r] = lines[r] \/ lines'[r] = lines[r] \cup {"open"}
        /\ ~ raises => lines'[r] = lines[r] \cup {"open"}
    BY <1>1, <1>4, <1>8, AppendAdds
  <1>10. /\ reserved' \in [Requests -> Estimates \cup {0}] /\ reserved'[r] = tokens
         /\ \A p \in Requests \ {r} : reserved'[p] = reserved[p]
    BY <1>1, <1>4 DEF TypeOK
  <1>11. charge'[r] = tokens /\ \A p \in Requests \ {r} : charge'[p] = charge[p]
    BY <1>1, <1>2, <1>3, <1>4 DEF TypeOK, Count
  <1> QED
    BY <1>2, <1>3, <1>4, <1>6, <1>7, <1>9, <1>10, <1>11


\* The request is sent once its reservation is in the file.
LEMMA SentStep ==
    ASSUME IInv, NEW r \in Requests, NEW tokens \in Estimates, NEW cost \in Costs,
           Sent(r, tokens, cost)
    PROVE  IInv'
  <1>1. /\ stream[r] = "preparing" /\ Reserve(r, tokens, FALSE)
        /\ stream' = [stream EXCEPT ![r] = "sent"] /\ billed' = [billed EXCEPT ![r] = cost]
        /\ UNCHANGED <<reconciliationRequired, output>>
    BY DEF Sent, At
  <1>2. /\ Sums' /\ WithinCaps' /\ charge' \in [Requests -> Nat]
        /\ runAccountedTokens' \in [Runs -> Int] /\ projectAccountedTokens' \in Int
        /\ reserved' \in [Requests -> Estimates \cup {0}]
        /\ reserved'[r] = tokens /\ charge'[r] = tokens /\ tokens \in Nat \ {0}
        /\ lines' \in [Requests -> SUBSET LineNames] /\ faults' \in 0..MaxFaults
        /\ lines'[r] = {"open"}
        /\ reservations' = reservations \cup {r}
        /\ \A p \in Requests \ {r} : /\ lines'[p] = lines[p] /\ reserved'[p] = reserved[p]
                                     /\ charge'[p] = charge[p]
    BY <1>1, ReserveStep
  <1>3. TypeOK
    BY DEF IInv
  <1>4. /\ stream' \in [Requests -> {"preparing", "sent", "raised", "over"}]
        /\ billed' \in [Requests -> Costs \cup {0}]
        /\ reservations' \in SUBSET Requests
        /\ stream'[r] = "sent" /\ billed'[r] = cost /\ cost \in Nat
        /\ \A p \in Requests \ {r} : stream'[p] = stream[p] /\ billed'[p] = billed[p]
    BY <1>1, <1>2, <1>3, TokenAssumption DEF TypeOK
  <1>5. TypeOK'
    BY <1>1, <1>2, <1>3, <1>4 DEF TypeOK, LineNames
  <1>6. OnlyOf(r)
    BY <1>1, <1>2, <1>4 DEF OnlyOf
  <1>7. Coherent(r)'
    BY <1>2, <1>4 DEF Coherent, Closings
  <1> QED
    BY <1>2, <1>5, <1>6, <1>7, OthersStayCoherent DEF IInv

\* A reservation whose line could not be written is never sent.
LEMMA NotRecordedStep ==
    ASSUME IInv, NEW r \in Requests, NEW tokens \in Estimates, NotRecorded(r, tokens)
    PROVE  IInv'
  <1>1. /\ stream[r] = "preparing" /\ Reserve(r, tokens, TRUE)
        /\ stream' = [stream EXCEPT ![r] = "over"] /\ Push(r, "error")
        /\ UNCHANGED <<reconciliationRequired, billed>>
    BY DEF NotRecorded, Ends, At
  <1>2. /\ Sums' /\ WithinCaps' /\ charge' \in [Requests -> Nat]
        /\ runAccountedTokens' \in [Runs -> Int] /\ projectAccountedTokens' \in Int
        /\ reserved' \in [Requests -> Estimates \cup {0}]
        /\ reserved'[r] = tokens /\ charge'[r] = tokens /\ tokens \in Nat \ {0}
        /\ lines' \in [Requests -> SUBSET LineNames] /\ faults' \in 0..MaxFaults
        /\ lines'[r] \subseteq {"open"}
        /\ reservations' = reservations \cup {r}
        /\ \A p \in Requests \ {r} : /\ lines'[p] = lines[p] /\ reserved'[p] = reserved[p]
                                     /\ charge'[p] = charge[p]
    BY <1>1, ReserveStep
  <1>3. TypeOK /\ Coherent(r)
    BY DEF IInv
  <1>4. /\ stream' \in [Requests -> {"preparing", "sent", "raised", "over"}]
        /\ output' \in [Requests -> {"none", "done", "error"}]
        /\ reservations' \in SUBSET Requests
        /\ stream'[r] = "over" /\ billed'[r] = 0
        /\ \A p \in Requests \ {r} : stream'[p] = stream[p] /\ billed'[p] = billed[p]
    BY <1>1, <1>2, <1>3 DEF TypeOK, Push, Coherent
  <1>5. TypeOK'
    BY <1>1, <1>2, <1>3, <1>4 DEF TypeOK, LineNames
  <1>6. OnlyOf(r)
    BY <1>1, <1>2, <1>4 DEF OnlyOf
  <1>7. Coherent(r)'
    BY <1>2, <1>4 DEF Coherent, Closings
  <1> QED
    BY <1>2, <1>5, <1>6, <1>7, OthersStayCoherent DEF IInv


\* A request that is refused, or never asked for, counts nothing.
LEMMA UncountedStep ==
    ASSUME IInv, NEW r \in Requests, stream[r] = "preparing", Ends(r, "error"),
           UNCHANGED <<lines, faults>> \/ \E raises \in BOOLEAN : Append(r, "rejected", raises),
           UNCHANGED <<reservations, sums, reconciliationRequired, reserved, charge, billed>>
    PROVE  IInv'
  <1>1. TypeOK /\ Sums /\ WithinCaps /\ Coherent(r)
    BY DEF IInv
  <1>2. stream' = [stream EXCEPT ![r] = "over"] /\ Push(r, "error")
    BY DEF Ends, At
  <1>3. /\ lines' \in [Requests -> SUBSET LineNames] /\ faults' \in 0..MaxFaults
        /\ lines'[r] \subseteq {"rejected"}
        /\ \A p \in Requests \ {r} : lines'[p] = lines[p]
    <2>1. lines[r] = {}
      BY <1>1, <1>2 DEF Coherent
    <2>2. CASE UNCHANGED <<lines, faults>>
      BY <1>1, <2>1, <2>2 DEF TypeOK, LineNames
    <2>3. CASE \E raises \in BOOLEAN : Append(r, "rejected", raises)
      <3>1. PICK raises \in BOOLEAN : Append(r, "rejected", raises)
        BY <2>3
      <3>2. "rejected" \in LineNames
        BY DEF LineNames
      <3> QED BY <1>1, <2>1, <3>1, <3>2, AppendAdds
    <2> QED BY <2>2, <2>3
  <1>4. /\ stream' \in [Requests -> {"preparing", "sent", "raised", "over"}]
        /\ output' \in [Requests -> {"none", "done", "error"}]
        /\ stream'[r] = "over" /\ \A p \in Requests \ {r} : stream'[p] = stream[p]
    BY <1>1, <1>2 DEF TypeOK, Push
  <1>5. TypeOK'
    BY <1>1, <1>2, <1>3, <1>4 DEF TypeOK, LineNames, sums
  <1>6. Sums' /\ WithinCaps'
    BY <1>1, <1>2, SumsUnchanged
  <1>7. OnlyOf(r)
    BY <1>2, <1>3, <1>4 DEF OnlyOf
  <1>8. Coherent(r)'
    BY <1>1, <1>2, <1>3, <1>4 DEF Coherent, Closings
  <1> QED
    BY <1>5, <1>6, <1>7, <1>8, OthersStayCoherent DEF IInv

LEMMA NotPreparedStep ==
    ASSUME IInv, NEW r \in Requests, NotPrepared(r)
    PROVE  IInv'
  BY UncountedStep DEF NotPrepared

LEMMA RefusedStep ==
    ASSUME IInv, NEW r \in Requests, NEW tokens \in Estimates, Refused(r, tokens)
    PROVE  IInv'
  BY UncountedStep DEF Refused, Reject

\* An exact settlement gives back what was not used.
LEMMA DoneStep ==
    ASSUME IInv, NEW r \in Requests, Done(r)
    PROVE  IInv'
  <1>1. TypeOK /\ Sums /\ WithinCaps /\ Coherent(r)
    BY DEF IInv
  <1>2. PICK raises \in BOOLEAN :
           Settle(r, raises) /\ Push(r, IF raises THEN "error" ELSE "done")
    BY DEF Done
  <1>3. /\ r \in reservations /\ billed[r] <= reserved[r]
        /\ reservations' = reservations \ {r}
        /\ Count(r, billed[r] - reserved[r]) /\ Append(r, "settled", raises)
        /\ UNCHANGED reconciliationRequired
    BY <1>2 DEF Settle
  <1>4. /\ stream' = [stream EXCEPT ![r] = "over"] \/ stream' = [stream EXCEPT ![r] = "raised"]
        /\ stream[r] = "sent" /\ UNCHANGED <<reserved, billed>>
    BY DEF Done, At
  <1>5. /\ charge[r] = reserved[r] /\ lines[r] \cap Closings = {} /\ "open" \in lines[r]
        /\ charge[r] \in Nat /\ billed[r] \in Nat /\ reserved[r] \in Nat
    BY <1>1, <1>3, <1>4, Types DEF Coherent
  <1>6. billed[r] - reserved[r] \in Int /\ charge[r] + (billed[r] - reserved[r]) = billed[r]
    BY <1>5
  <1>7. /\ Sums' /\ charge' \in [Requests -> Nat]
        /\ runAccountedTokens' \in [Runs -> Int] /\ projectAccountedTokens' \in Int
    BY <1>1, <1>3, <1>5, <1>6, CountKeepsSums
  <1>8. WithinCaps'
    BY <1>1, <1>3, <1>5, Types DEF WithinCaps, Count
  <1>9. /\ charge'[r] = billed[r] /\ \A p \in Requests \ {r} : charge'[p] = charge[p]
    BY <1>1, <1>3, <1>6 DEF TypeOK, Count
  <1>10. "settled" \in LineNames
    BY DEF LineNames, Closings
  <1>11. /\ lines' \in [Requests -> SUBSET LineNames] /\ faults' \in 0..MaxFaults
         /\ \A p \in Requests \ {r} : lines'[p] = lines[p]
         /\ lines'[r] = lines[r] \/ lines'[r] = lines[r] \cup {"settled"}
    BY <1>1, <1>3, <1>10, AppendAdds
  <1>12. /\ stream' \in [Requests -> {"preparing", "sent", "raised", "over"}]
         /\ output' \in [Requests -> {"none", "done", "error"}]
         /\ reservations' \in SUBSET Requests
         /\ stream'[r] \in {"over", "raised"} /\ \A p \in Requests \ {r} : stream'[p] = stream[p]
    <2>1. (IF raises THEN "error" ELSE "done") \in {"none", "done", "error"}
      BY Zenon
    <2>2. output' \in [Requests -> {"none", "done", "error"}]
      BY <1>1, <1>2, <2>1 DEF TypeOK, Push
    <2> QED BY <1>1, <1>3, <1>4, <2>2 DEF TypeOK
  <1>13. TypeOK'
    BY <1>1, <1>3, <1>4, <1>7, <1>11, <1>12 DEF TypeOK, LineNames
  <1>14. OnlyOf(r)
    BY <1>3, <1>4, <1>9, <1>11, <1>12 DEF OnlyOf
  <1>15. Coherent(r)'
    <2>1. r \notin reservations' /\ billed'[r] = billed[r] /\ reserved'[r] = reserved[r]
      BY <1>3, <1>4
    <2>2. lines'[r] \cap Closings \subseteq {"settled"} /\ "settled" \in Closings
          /\ "open" \in lines'[r]
      BY <1>5, <1>11 DEF Closings
    <2> QED BY <1>3, <1>5, <1>9, <1>12, <2>1, <2>2 DEF Coherent
  <1> QED
    BY <1>7, <1>8, <1>13, <1>14, <1>15, OthersStayCoherent DEF IInv


\* A reservation that is charged in full stays counted, and nothing is admitted any more.
LEMMA ChargeStep ==
    ASSUME IInv, NEW r \in Requests, NEW line \in Closings \ {"settled"}, NEW raises,
           ChargeInFull(r, line, raises), stream[r] \in {"sent", "raised"},
           stream' = [stream EXCEPT ![r] = "over"] \/ stream' = [stream EXCEPT ![r] = "raised"],
           output' \in [Requests -> {"none", "done", "error"}], UNCHANGED <<reserved, billed>>
    PROVE  IInv'
  <1>1. TypeOK /\ Sums /\ WithinCaps /\ Coherent(r)
    BY DEF IInv
  <1>2. /\ r \in reservations /\ reservations' = reservations \ {r}
        /\ reconciliationRequired' = TRUE
        /\ Append(r, line, raises) /\ UNCHANGED <<sums, charge>>
    BY DEF ChargeInFull
  <1>3. /\ charge[r] = reserved[r] /\ lines[r] \cap Closings = {} /\ "open" \in lines[r]
        /\ charge[r] \in Nat /\ billed[r] \in Nat /\ reserved[r] \in Nat
    BY <1>1, <1>2, Types DEF Coherent
  <1>4. /\ lines' \in [Requests -> SUBSET LineNames] /\ faults' \in 0..MaxFaults
        /\ \A p \in Requests \ {r} : lines'[p] = lines[p]
        /\ lines'[r] = lines[r] \/ lines'[r] = lines[r] \cup {line}
    <2>1. line \in LineNames
      BY DEF LineNames
    <2> QED BY <1>1, <1>2, <2>1, AppendAdds
  <1>5. /\ stream' \in [Requests -> {"preparing", "sent", "raised", "over"}]
        /\ reservations' \in SUBSET Requests
        /\ stream'[r] \in {"over", "raised"} /\ \A p \in Requests \ {r} : stream'[p] = stream[p]
    BY <1>1, <1>2 DEF TypeOK
  <1>6. reconciliationRequired' \in BOOLEAN /\ (reconciliationRequired => reconciliationRequired')
    BY <1>2, Zenon
  <1>7. TypeOK'
    BY <1>1, <1>2, <1>4, <1>5, <1>6, Zenon DEF TypeOK, LineNames, sums
  <1>8. Sums' /\ WithinCaps'
    BY <1>1, <1>2, SumsUnchanged
  <1>9. OnlyOf(r)
    BY <1>2, <1>4, <1>5, <1>6 DEF OnlyOf
  <1>10. Coherent(r)'
    <2>1. r \notin reservations' /\ billed'[r] = billed[r] /\ reserved'[r] = reserved[r]
          /\ charge'[r] = charge[r]
      BY <1>2
    <2>2. lines'[r] \cap Closings \subseteq {line} /\ line \in Closings /\ "open" \in lines'[r]
          /\ "settled" \notin lines'[r]
      BY <1>3, <1>4 DEF Closings
    <2> QED BY <1>2, <1>3, <1>5, <2>1, <2>2 DEF Coherent
  <1> QED
    BY <1>7, <1>8, <1>9, <1>10, OthersStayCoherent DEF IInv

\* What a terminal event closed, the catch block leaves alone.
LEMMA QuietStep ==
    ASSUME IInv, NEW r \in Requests, NEW where \in {"raised", "over"},
           UNCHANGED <<reservations, sums, reconciliationRequired, lines, reserved, charge, billed,
                       faults>>,
           stream' = [stream EXCEPT ![r] = where],
           output' \in [Requests -> {"none", "done", "error"}],
           stream[r] \in {"sent", "raised"}
    PROVE  IInv'
  <1>1. TypeOK /\ Sums /\ WithinCaps /\ Coherent(r)
    BY DEF IInv
  <1>2. /\ stream' \in [Requests -> {"preparing", "sent", "raised", "over"}]
        /\ stream'[r] = where /\ \A p \in Requests \ {r} : stream'[p] = stream[p]
    BY <1>1 DEF TypeOK
  <1>3. TypeOK'
    BY <1>1, <1>2, Zenon DEF TypeOK, sums
  <1>4. Sums' /\ WithinCaps'
    BY <1>1, SumsUnchanged
  <1>5. OnlyOf(r)
    BY <1>2 DEF OnlyOf
  <1>6. Coherent(r)'
    BY <1>1, <1>2 DEF Coherent
  <1> QED
    BY <1>3, <1>4, <1>5, <1>6, OthersStayCoherent DEF IInv

\* Every step of the supervisor preserves the invariant.
LEMMA StepInv == IInv /\ [Next]_vars => IInv'
  <1> SUFFICES ASSUME IInv, [Next]_vars PROVE IInv'
    OBVIOUS
  <1>1. CASE UNCHANGED vars
    <2>1. TypeOK' /\ Sums' /\ WithinCaps'
      BY <1>1 DEF IInv, TypeOK, Sums, WithinCaps, RequestsOf, vars, sums
    <2>2. \A r \in Requests : Coherent(r)'
      BY <1>1 DEF IInv, Coherent, vars
    <2> QED BY <2>1, <2>2 DEF IInv
  <1>2. ASSUME NEW r \in Requests, NotPrepared(r) PROVE IInv'
    BY <1>2, NotPreparedStep
  <1>3. ASSUME NEW r \in Requests, NEW tokens \in Estimates, Refused(r, tokens) PROVE IInv'
    BY <1>3, RefusedStep
  <1>4. ASSUME NEW r \in Requests, NEW tokens \in Estimates, NEW cost \in Costs,
               Sent(r, tokens, cost)
        PROVE  IInv'
    BY <1>4, SentStep
  <1>5. ASSUME NEW r \in Requests, NEW tokens \in Estimates, NotRecorded(r, tokens) PROVE IInv'
    BY <1>5, NotRecordedStep
  <1>6. ASSUME NEW r \in Requests, Done(r) PROVE IInv'
    BY <1>6, DoneStep
  <1> DEFINE Errored(r) == output' = output \/ Push(r, "error")
  <1>7. ASSUME NEW r \in Requests, Errored(r)
        PROVE  output' \in [Requests -> {"none", "done", "error"}]
    <2>1. output \in [Requests -> {"none", "done", "error"}]
      BY DEF IInv, TypeOK
    <2> QED BY <1>7, <2>1 DEF Push
  <1>8. ASSUME NEW r \in Requests, DoneInvalid(r) PROVE IInv'
    <2>1. PICK raises \in BOOLEAN : ChargeInFull(r, "protocol_invalid", raises)
      BY <1>8 DEF DoneInvalid
    <2>2. /\ stream[r] \in {"sent", "raised"} /\ Errored(r) /\ UNCHANGED <<reserved, billed>>
          /\ stream' = [stream EXCEPT ![r] = "over"] \/ stream' = [stream EXCEPT ![r] = "raised"]
      BY <1>8 DEF DoneInvalid, At
    <2>3. "protocol_invalid" \in Closings \ {"settled"}
      BY DEF Closings
    <2> QED BY <1>7, <2>1, <2>2, <2>3, ChargeStep
  <1>9. ASSUME NEW r \in Requests, Uncertain(r) PROVE IInv'
    <2>1. PICK raises \in BOOLEAN : ChargeInFull(r, "charged_unverified", raises)
      BY <1>9 DEF Uncertain
    <2>2. /\ stream[r] \in {"sent", "raised"} /\ Errored(r) /\ UNCHANGED <<reserved, billed>>
          /\ stream' = [stream EXCEPT ![r] = "over"] \/ stream' = [stream EXCEPT ![r] = "raised"]
      BY <1>9 DEF Uncertain, Ends, At
    <2>3. "charged_unverified" \in Closings \ {"settled"}
      BY DEF Closings
    <2> QED BY <1>7, <2>1, <2>2, <2>3, ChargeStep
  <1>10. ASSUME NEW r \in Requests, Raised(r) PROVE IInv'
    <2>1. stream[r] = "sent" /\ stream' = [stream EXCEPT ![r] = "raised"] /\ Errored(r)
      BY <1>10 DEF Raised, At
    <2> QED BY <1>7, <1>10, <2>1, QuietStep DEF Raised
  <1>11. ASSUME NEW r \in Requests, Caught(r) PROVE IInv'
    <2>1. stream[r] = "raised" /\ stream' = [stream EXCEPT ![r] = "over"] /\ Errored(r)
          /\ UNCHANGED <<reserved, billed>>
      BY <1>11 DEF Caught, Ends, At
    <2>2. ASSUME NEW raises \in BOOLEAN, ChargeInFull(r, "charged_unverified", raises) PROVE IInv'
      <3>1. "charged_unverified" \in Closings \ {"settled"}
        BY DEF Closings
      <3> QED BY <1>7, <2>1, <2>2, <3>1, ChargeStep
    <2>3. CASE AlreadyClosed(r)
      BY <1>7, <2>1, <2>3, QuietStep DEF AlreadyClosed
    <2> QED BY <1>11, <2>2, <2>3 DEF Caught
  <1> QED
    BY <1>1, <1>2, <1>3, <1>4, <1>5, <1>6, <1>8, <1>9, <1>10, <1>11 DEF Next, Answered

-----------------------------------------------------------------------------
(* The theorems.                                                            *)

LEMMA Invariance == Spec => []IInv
  <1>1. Init => IInv
    BY InitInv
  <1>2. IInv /\ [Next]_vars => IInv'
    BY StepInv
  <1> QED BY <1>1, <1>2, PTL DEF Spec

\* The variables keep their types.
THEOREM TypeCorrect == Spec => []TypeOK
  <1>1. IInv => TypeOK
    BY DEF IInv
  <1> QED BY <1>1, Invariance, PTL

\* The counters are the sums over the requests and never exceed the caps.
THEOREM CountersExact == Spec => [](Sums /\ WithinCaps)
  <1>1. IInv => Sums /\ WithinCaps
    BY DEF IInv
  <1> QED BY <1>1, Invariance, PTL

\* What the Provider bills within the reservations never exceeds a cap.
THEOREM SpendingStaysWithinCaps == Spec => []SpendingWithinCaps
  <1>1. IInv => SpendingWithinCaps
    <2> SUFFICES ASSUME IInv PROVE SpendingWithinCaps
      OBVIOUS
    <2>1. TypeOK /\ Sums /\ WithinCaps
      BY DEF IInv
    <2>2. \A r \in Requests : /\ Covered[r] \in Nat /\ charge[r] \in Nat
                              /\ Covered[r] <= charge[r]
      <3> TAKE r \in Requests
      <3>1. billed[r] \in Nat /\ charge[r] \in Nat /\ reserved[r] \in Nat
        BY <2>1, Types
      <3>2. billed[r] <= reserved[r] => billed[r] <= charge[r]
        BY DEF IInv, Coherent
      <3> QED BY <3>1, <3>2 DEF Covered
    <2>3. Covered \in [Requests -> Nat] /\ charge \in [Requests -> Nat]
      BY <2>1, <2>2 DEF Covered, TypeOK
    <2>4. ASSUME NEW S \in SUBSET Requests
          PROVE  /\ Total(Covered, S) <= Total(charge, S)
                 /\ Total(Covered, S) \in Nat /\ Total(charge, S) \in Nat
      BY <2>2, <2>3, TotalMonotone, TotalType
    <2>5. Requests \in SUBSET Requests /\ \A x \in Runs : RequestsOf(x) \in SUBSET Requests
      BY DEF RequestsOf
    <2>6. RunCap \in Nat /\ ProjectCap \in Nat
      BY TokenAssumption
    <2>7. Total(Covered, Requests) <= ProjectCap
      BY <2>1, <2>4, <2>5, <2>6 DEF Sums, WithinCaps
    <2>8. \A x \in Runs : Total(Covered, RequestsOf(x)) <= RunCap
      BY <2>1, <2>4, <2>5, <2>6 DEF Sums, WithinCaps
    <2> QED BY <2>7, <2>8 DEF SpendingWithinCaps, RequestsOf
  <1> QED BY <1>1, Invariance, PTL

\* A process killed at any moment leaves a file that covers what was billed.
THEOREM FileAlwaysCovers == Spec => []FileCoversBilling
  <1>1. IInv => FileCoversBilling
    <2> SUFFICES ASSUME IInv, NEW r \in Requests PROVE Covered[r] <= FileCharge(r)
      BY DEF FileCoversBilling
    <2>1. billed[r] \in Nat /\ reserved[r] \in Nat
      BY Types DEF IInv
    <2>2. billed[r] # 0 => "open" \in lines[r]
      BY DEF IInv, Coherent
    <2> QED BY <2>1, <2>2 DEF Covered, FileCharge
  <1> QED BY <1>1, Invariance, PTL

\* A reservation is closed at most once, and only when it was opened.
THEOREM ClosesOnce == Spec => []ClosedOnce
  <1>1. IInv => ClosedOnce
    <2> SUFFICES ASSUME IInv, NEW r \in Requests
                 PROVE  /\ Cardinality(lines[r] \cap Closings) <= 1
                        /\ lines[r] \cap Closings # {} => "open" \in lines[r]
      BY DEF ClosedOnce
    <2>1. PICK c \in Closings : lines[r] \cap Closings \subseteq {c}
      BY DEF IInv, Coherent
    <2>2. Cardinality(lines[r] \cap Closings) <= Cardinality({c}) /\ Cardinality({c}) = 1
          /\ Cardinality(lines[r] \cap Closings) \in Nat
      BY <2>1, FS_Singleton, FS_Subset, FS_CardinalityType
    <2> QED BY <2>2 DEF IInv, Coherent
  <1> QED BY <1>1, Invariance, PTL

\* A bill above what is counted stops every later admission.
THEOREM OverrunsBlock == Spec => []OverrunBlocks
  <1>1. IInv => OverrunBlocks
    BY DEF IInv, Coherent, OverrunBlocks
  <1> QED BY <1>1, Invariance, PTL
=============================================================================
