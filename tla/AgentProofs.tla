------------------------------ MODULE AgentProofs ------------------------------
(* Theorems about one AgentHarness over one session, for any runs, messages, *)
(* turns, compactions, navigations and failures, and about the batch of tool *)
(* calls of a turn, for any number of calls.                                 *)
EXTENDS AgentHarness, AgentTools, SequenceTheorems, WellFoundedInduction, TLAPS
-----------------------------------------------------------------------------
(* Numbers: induction by the least counterexample.                           *)

\* A set of numbers has a least member.
LEMMA Least ==
    ASSUME NEW T, T \subseteq Nat, T # {}
    PROVE  \E n \in T : \A m \in T : n <= m
<1>1. IsWellFoundedOn(OpToRel(<, Nat), Nat)  BY NatLessThanWellFounded
<1>2. \E x \in T : \A y \in T : ~ (<<y, x>> \in OpToRel(<, Nat))  BY <1>1, WFMin, Zenon
<1>3. \A x, y \in T : y < x => <<y, x>> \in OpToRel(<, Nat)  BY DEF OpToRel
<1>4. \E x \in T : \A y \in T : ~ (y < x)  BY <1>2, <1>3, Zenon
<1> QED  BY <1>4

\* A set of numbers up to n has a greatest member.
LEMMA Greatest ==
    ASSUME NEW n \in Nat, NEW T, T \subseteq 1..n, T # {}
    PROVE  \E k \in T : \A j \in T : j <= k
<1> DEFINE U == {n - k : k \in T}
<1>1. U \subseteq Nat /\ U # {}
  <2>1. \A k \in T : n - k \in Nat  OBVIOUS
  <2> QED  BY <2>1, Zenon
<1>2. PICK u \in U : \A v \in U : u <= v  BY <1>1, Least
<1>3. PICK k \in T : u = n - k  BY <1>2
<1>4. \A j \in T : n - k <= n - j  BY <1>2, <1>3
<1> QED  BY <1>4

\* Every number up to n has what 0 has and each next number inherits.
LEMMA Upwards ==
    ASSUME NEW n \in Nat, NEW S, 0 \in S, \A i \in 0..(n - 1) : i \in S => i + 1 \in S
    PROVE  0..n \subseteq S
<1> DEFINE T == {i \in 0..n : i \notin S}
<1> SUFFICES ASSUME T # {} PROVE FALSE  OBVIOUS
<1>1. T \subseteq Nat  OBVIOUS
<1>2. PICK i \in T : \A j \in T : i <= j  BY <1>1, Least
<1>3. i # 0 /\ i - 1 \in 0..(n - 1)  BY <1>2
<1>4. i - 1 \in S  BY <1>2, <1>3
<1>5. (i - 1) + 1 \in S  BY <1>3, <1>4
<1> QED  BY <1>2, <1>3, <1>5
-----------------------------------------------------------------------------
(* Branches and the contexts built from them.                                *)

\* Every entry hangs on an earlier one and refers to an earlier one.
Forest(es) ==
    /\ es \in Seq(Entries)
    /\ \A i \in 1..Len(es) : es[i].parent < i /\ es[i].reference < i

\* Path, MessagesOf, Context and their parts, as functions of a file of entries es.
PathsOf(es) ==
    CHOOSE p : p = [i \in 0..Len(es) |-> IF i = 0 THEN <<>> ELSE Append(p[es[i].parent], i)]

Gathered(es, path) ==
    CHOOSE f : f = [k \in 0..Len(path) |->
                      IF k = 0 THEN <<>>
                      ELSE IF es[path[k]].kind = "message"
                      THEN Append(f[k - 1], es[path[k]].item) ELSE f[k - 1]]

GatheredAll(es, path) == Gathered(es, path)[Len(path)]

\* What an entry of a file is made of.
LEMMA Parents ==
    ASSUME NEW es, Forest(es), NEW i \in 1..Len(es)
    PROVE  /\ es[i] \in Entries /\ es[i].parent \in 0..(i - 1)
           /\ es[i].kind \in {"message", "compaction", "leaf"} /\ es[i].item \in Items
           /\ es[i].reference \in 0..(i - 1) /\ Len(es) \in Nat
<1>1. es[i] \in Entries /\ Len(es) \in Nat  BY DEF Forest
<1> QED  BY <1>1 DEF Forest, Entries

\* The recursive function of the branches of a file exists and is what its equation says.
LEMMA PathsAre ==
    ASSUME NEW es, Forest(es)
    PROVE  PathsOf(es) = [i \in 0..Len(es) |->
                            IF i = 0 THEN <<>> ELSE Append(PathsOf(es)[es[i].parent], i)]
<1> DEFINE Is(p, n) == p = [i \in 0..n |-> IF i = 0 THEN <<>> ELSE Append(p[es[i].parent], i)]
           S == {n \in Nat : \E p : Is(p, n)}
<1>0. Len(es) \in Nat  BY DEF Forest
<1>1. 0 \in S
  <2> DEFINE z == [i \in 0..0 |-> <<>>]
  <2>1. Is(z, 0)  OBVIOUS
  <2> QED  BY <2>1
<1>2. ASSUME NEW n \in 0..(Len(es) - 1), n \in S  PROVE n + 1 \in S
  <2>1. PICK p : Is(p, n)  BY <1>2
  <2> DEFINE q == [i \in 0..(n + 1) |->
                     IF i = n + 1 THEN Append(p[es[n + 1].parent], n + 1) ELSE p[i]]
             q2 == [i \in 0..(n + 1) |-> IF i = 0 THEN <<>> ELSE Append(q[es[i].parent], i)]
  <2>2. n + 1 \in 1..Len(es) /\ n \in Nat  BY <1>0, <1>2
  <2>3. ASSUME NEW i \in 0..(n + 1)  PROVE q[i] = q2[i]
    <3>1. CASE i = 0
      <4>1. p[0] = <<>>  BY <2>1, <2>2
      <4>2. q[0] = p[0]  BY <2>2
      <4>3. q2[0] = <<>>  BY <2>2
      <4> QED  BY <3>1, <4>1, <4>2, <4>3
    <3>2. CASE i # 0
      <4>1. i \in 1..Len(es)  BY <3>2, <2>2, <1>0
      <4>2. es[i].parent \in 0..(i - 1)  BY <4>1, Parents
      <4>3. es[i].parent \in 0..n /\ es[i].parent # n + 1  BY <4>2, <2>2
      <4>4. q[es[i].parent] = p[es[i].parent]  BY <4>3, <2>2
      <4>5. i # n + 1 => p[i] = Append(p[es[i].parent], i)
        <5>1. i # n + 1 => i \in 0..n  BY <2>2
        <5> QED  BY <2>1, <3>2, <5>1, Zenon
      <4> QED  BY <4>4, <4>5, <3>2
    <3> QED  BY <3>1, <3>2
  <2>4. Is(q, n + 1)  
    <3> HIDE DEF q
    <3>1. q = [i \in 0..(n + 1) |-> q[i]]  BY DEF q
    <3> QED BY <3>1, <2>3
  <2> HIDE DEF q, Is
  <2> QED  BY <2>4, <2>2
<1>3. 0..Len(es) \subseteq S  BY <1>0, <1>1, <1>2, Upwards
<1>4. \E p : Is(p, Len(es))  BY <1>0, <1>3
<1> QED  BY <1>4, Zenon DEF PathsOf

\* A branch holds numbers of entries.
LEMMA PathsTyped ==
    ASSUME NEW es, Forest(es), NEW j \in 0..Len(es)
    PROVE  PathsOf(es)[j] \in Seq(1..Len(es))
<1> DEFINE T == {i \in 0..Len(es) : PathsOf(es)[i] \notin Seq(1..Len(es))}
<1> SUFFICES ASSUME T # {} PROVE FALSE  OBVIOUS
<1>0. Len(es) \in Nat  BY DEF Forest
<1>1. PICK i \in T : \A m \in T : i <= m  
  <2>1. T \subseteq Nat  BY <1>0
  <2> QED  BY <2>1, Least
<1>2. PathsOf(es)[i] = IF i = 0 THEN <<>> ELSE Append(PathsOf(es)[es[i].parent], i)
  BY PathsAre, Zenon
<1>3. i # 0
  <2>1. <<>> \in Seq(1..Len(es))  OBVIOUS
  <2>2. PathsOf(es)[i] \notin Seq(1..Len(es))  OBVIOUS
  <2> QED  BY <1>2, <2>1, <2>2, Zenon
<1>4. i \in 1..Len(es)  BY <1>3, <1>0
<1>5. es[i].parent \in 0..(i - 1)  BY <1>4, Parents
<1>6. PathsOf(es)[es[i].parent] \in Seq(1..Len(es))
  <2> DEFINE k == es[i].parent
  <2>1. k \in 0..Len(es) /\ ~ (i <= k)  BY <1>4, <1>5, <1>0
  <2>2. k \notin T  BY <1>1, <2>1, Zenon
  <2> QED  BY <2>1, <2>2, Zenon
<1>7. \A s \in Seq(1..Len(es)) : Append(s, i) \in Seq(1..Len(es))  BY <1>4
<1>8. PathsOf(es)[i] \in Seq(1..Len(es))  BY <1>2, <1>3, <1>6, <1>7, Zenon
<1> QED  BY <1>8

\* The branches of two files are the same as far as the parents are.
LEMMA PathsAgree ==
    ASSUME NEW es, Forest(es), NEW e, Forest(Append(es, e)), NEW j \in 0..Len(es)
    PROVE  PathsOf(Append(es, e))[j] = PathsOf(es)[j]
<1> DEFINE et == Append(es, e)
           T == {i \in 0..Len(es) : PathsOf(et)[i] # PathsOf(es)[i]}
<1> SUFFICES ASSUME T # {} PROVE FALSE  OBVIOUS
<1>0. Len(es) \in Nat /\ Len(et) = Len(es) + 1 /\ \A i \in 1..Len(es) : et[i] = es[i]
  BY DEF Forest
<1> HIDE DEF et
<1>1. PICK i \in T : \A m \in T : i <= m  
  <2>1. T \subseteq Nat  BY <1>0
  <2> QED  BY <2>1, Least
<1>2. PathsOf(es)[i] = IF i = 0 THEN <<>> ELSE Append(PathsOf(es)[es[i].parent], i)
  BY PathsAre, Zenon
<1>3. Forest(et) BY DEF et
<1>4. PathsOf(et)[i] = IF i = 0 THEN <<>> ELSE Append(PathsOf(et)[et[i].parent], i)
  <2>1. i \in 0..Len(et)  BY <1>0
  <2> QED  BY <1>3, <2>1, PathsAre, Zenon
<1>5. i # 0  BY <1>2, <1>4
<1>6. i \in 1..Len(es) /\ et[i] = es[i]  BY <1>5, <1>0
<1>7. es[i].parent \in 0..(i - 1)  BY <1>6, Parents
<1>8. PathsOf(et)[es[i].parent] = PathsOf(es)[es[i].parent]  BY <1>1, <1>6, <1>7, <1>0
<1> QED  BY <1>2, <1>4, <1>5, <1>6, <1>8

\* An appended entry has the branch of its parent, and itself.
LEMMA PathOfNext ==
    ASSUME NEW es, Forest(es), NEW e, Forest(Append(es, e))
    PROVE  PathsOf(Append(es, e))[Len(es) + 1] = Append(PathsOf(es)[e.parent], Len(es) + 1)
<1> DEFINE et == Append(es, e)
           n == Len(es) + 1
<1>0. Len(es) \in Nat /\ Len(et) = n /\ et[n] = e  BY DEF Forest
<1>1. PathsOf(et)[n] = Append(PathsOf(et)[et[n].parent], n)
  <2>1. n \in 0..Len(et) /\ n # 0  BY <1>0
  <2> HIDE DEF n, et
  <2>2. Forest(et) BY DEF et
  <2>3. PathsOf(et) = [i \in 0..Len(et) |->
                            IF i = 0 THEN <<>> ELSE Append(PathsOf(et)[et[i].parent], i)]
    BY <2>2, PathsAre, Zenon
  <2> QED  BY <2>3, <2>1
<1>2. et[n].parent \in 0..Len(es)
  <2>1. n \in 1..Len(et)  BY <1>0
  <2>2. et[n].parent \in 0..(n - 1)  BY <2>1, Parents
  <2> QED  BY <2>2, <1>0
<1>3. PathsOf(et)[et[n].parent] = PathsOf(es)[et[n].parent]  BY <1>2, PathsAgree
<1> QED  BY <1>0, <1>1, <1>3

\* How the messages of a branch grow at its k-th entry.
GatherStep(es, path, f, k) ==
    IF k = 0 THEN <<>>
    ELSE IF es[path[k]].kind = "message" THEN Append(f[k - 1], es[path[k]].item) ELSE f[k - 1]

\* The recursive function of the messages of a branch exists and is what its equation says.
LEMMA GatheredIs ==
    ASSUME NEW es, NEW path, Len(path) \in Nat
    PROVE  Gathered(es, path) =
             [k \in 0..Len(path) |-> GatherStep(es, path, Gathered(es, path), k)]
<1> DEFINE Is(f, n) == f = [k \in 0..n |-> GatherStep(es, path, f, k)]
           S == {n \in Nat : \E f : Is(f, n)}
<1>1. 0 \in S
  <2> DEFINE z == [k \in 0..0 |-> <<>>]
  <2>1. Is(z, 0)  BY DEF GatherStep
  <2> QED  BY <2>1
<1>2. ASSUME NEW n \in 0..(Len(path) - 1), n \in S  PROVE n + 1 \in S
  <2>1. PICK f : Is(f, n)  BY <1>2
  <2> DEFINE g == [k \in 0..(n + 1) |-> IF k = n + 1 THEN GatherStep(es, path, f, k) ELSE f[k]]
  <2>2. ASSUME NEW k \in 0..(n + 1)  PROVE g[k] = GatherStep(es, path, g, k)
    <3>1. g[k] = GatherStep(es, path, f, k)
      <4>1. k # n + 1 => k \in 0..n  OBVIOUS
      <4> QED  BY <4>1, <2>1, Zenon
    <3>2. k # 0 => k - 1 \in 0..(n + 1) /\ k - 1 # n + 1  OBVIOUS
    <3>3. k # 0 => g[k - 1] = f[k - 1]  BY <3>2, Zenon
    <3> QED  BY <3>1, <3>3, Zenon DEF GatherStep
  <2>3. Is(g, n + 1)
    <3> HIDE DEF g
    <3>1. g = [k \in 0..(n + 1) |-> g[k]]  BY DEF g
    <3> QED  BY <3>1, <2>2
  <2> HIDE DEF g, Is
  <2> QED  BY <2>3
<1>3. 0..Len(path) \subseteq S  BY <1>1, <1>2, Upwards
<1>4. \E f : Is(f, Len(path))  BY <1>3
<1>5. Gathered(es, path) = CHOOSE f : Is(f, Len(path))  BY DEF Gathered, GatherStep
<1> QED  BY <1>4, <1>5, Zenon

\* The messages of a branch are items.
LEMMA GatheredTyped ==
    ASSUME NEW es, Forest(es), NEW path \in Seq(1..Len(es)), NEW k \in 0..Len(path)
    PROVE  Gathered(es, path)[k] \in Seq(Items)
<1> DEFINE G == Gathered(es, path)
           S == {j \in 0..Len(path) : G[j] \in Seq(Items)}
<1>0. Len(path) \in Nat /\ Len(es) \in Nat /\ \A j \in 1..Len(path) : path[j] \in 1..Len(es)
  BY DEF Forest
<1>1. \A j \in 0..Len(path) : G[j] = GatherStep(es, path, G, j)
  <2>1. G = [j \in 0..Len(path) |-> GatherStep(es, path, G, j)]  BY <1>0, GatheredIs
  <2> HIDE DEF G
  <2> QED  BY <2>1
<1> HIDE DEF G
<1>2. 0 \in S
  <2>1. G[0] = <<>>  BY <1>0, <1>1 DEF GatherStep
  <2>2. <<>> \in Seq(Items) /\ 0 \in 0..Len(path)  BY <1>0
  <2> QED  BY <2>1, <2>2, Zenon
<1>3. ASSUME NEW i \in 0..(Len(path) - 1), i \in S  PROVE i + 1 \in S
  <2>1. i + 1 \in 1..Len(path) /\ (i + 1) - 1 = i /\ G[i] \in Seq(Items)  BY <1>3, <1>0
  <2>2. es[path[i + 1]].item \in Items  BY <2>1, <1>0, Parents
  <2>3. G[i + 1] = IF es[path[i + 1]].kind = "message"
                   THEN Append(G[i], es[path[i + 1]].item) ELSE G[i]
    BY <2>1, <1>1, <1>0 DEF GatherStep
  <2>4. G[i] \in Seq(Items)  BY <2>1
  <2>5. \A x \in Items : Append(G[i], x) \in Seq(Items)  BY <2>4
  <2>6. G[i + 1] \in Seq(Items)  BY <2>2, <2>3, <2>4, <2>5, Zenon
  <2>7. i + 1 \in 0..Len(path)  BY <2>1
  <2> QED  BY <2>6, <2>7, Zenon
<1>4. 0..Len(path) \subseteq S  BY <1>0, <1>2, <1>3, Upwards
<1> QED  BY <1>4 DEF G

\* A message at the end of a branch comes at the end of its messages.
LEMMA GatherNext ==
    ASSUME NEW es, Forest(es), NEW e, e \in Entries, e.kind = "message",
           NEW path \in Seq(1..Len(es))
    PROVE  GatheredAll(Append(es, e), Append(path, Len(es) + 1))
             = Append(GatheredAll(es, path), e.item)
<1> DEFINE et == Append(es, e)
           m == Len(es) + 1
           pt == Append(path, m)
           G == Gathered(es, path)
           H == Gathered(et, pt)
           S == {j \in 0..Len(path) : H[j] = G[j]}
<1>0. /\ Len(path) \in Nat /\ Len(es) \in Nat /\ m \in Nat /\ es \in Seq(Entries)
      /\ Len(pt) = Len(path) + 1 /\ pt[Len(path) + 1] = m /\ et[m] = e
      /\ \A j \in 1..Len(path) : pt[j] = path[j] /\ path[j] \in 1..Len(es)
      /\ \A j \in 1..Len(es) : et[j] = es[j]
  BY DEF Forest
<1> HIDE DEF et, pt, m
<1>1. \A j \in 0..Len(path) : G[j] = GatherStep(es, path, G, j)
  <2>1. G = [j \in 0..Len(path) |-> GatherStep(es, path, G, j)]  BY <1>0, GatheredIs
  <2> HIDE DEF G
  <2> QED  BY <2>1
<1>2. \A j \in 0..Len(pt) : H[j] = GatherStep(et, pt, H, j)
  <2>0. Len(pt) \in Nat  BY <1>0
  <2>1. H = [j \in 0..Len(pt) |-> GatherStep(et, pt, H, j)]  BY <2>0, GatheredIs
  <2> HIDE DEF H
  <2> QED  BY <2>1
<1> HIDE DEF G, H
<1>3. 0 \in S
  <2>1. G[0] = <<>>  BY <1>0, <1>1 DEF GatherStep
  <2>2. H[0] = <<>>  BY <1>0, <1>2 DEF GatherStep
  <2> QED  BY <2>1, <2>2, <1>0
<1>4. ASSUME NEW i \in 0..(Len(path) - 1), i \in S  PROVE i + 1 \in S
  <2>1. i + 1 \in 1..Len(path) /\ (i + 1) - 1 = i /\ G[i] = H[i]  BY <1>4, <1>0
  <2>2. pt[i + 1] = path[i + 1] /\ et[path[i + 1]] = es[path[i + 1]]  BY <2>1, <1>0
  <2>3. G[i + 1] = IF es[path[i + 1]].kind = "message"
                   THEN Append(G[i], es[path[i + 1]].item) ELSE G[i]
    BY <2>1, <1>1, <1>0 DEF GatherStep
  <2>4. H[i + 1] = IF et[pt[i + 1]].kind = "message"
                   THEN Append(H[i], et[pt[i + 1]].item) ELSE H[i]
    BY <2>1, <1>2, <1>0 DEF GatherStep
  <2> QED  BY <2>1, <2>2, <2>3, <2>4
<1>5. 0..Len(path) \subseteq S  BY <1>0, <1>3, <1>4, Upwards
<1>6. H[Len(path)] = G[Len(path)]  BY <1>5, <1>0
<1>7. H[Len(path) + 1] = Append(H[Len(path)], e.item)
  <2>1. Len(path) + 1 \in 0..Len(pt) /\ Len(path) + 1 # 0 /\ (Len(path) + 1) - 1 = Len(path)
    BY <1>0
  <2> QED  BY <2>1, <1>0, <1>2 DEF GatherStep
<1> QED  BY <1>0, <1>6, <1>7 DEF G, H, GatheredAll, et, pt, m

LastOf(S) == CHOOSE k \in S : \A j \in S : j <= k

CompactionsOf(es, branch) == {k \in 1..Len(branch) : es[branch[k]].kind = "compaction"}
KeptOf(es, branch, c) == {k \in 1..(c - 1) : branch[k] = es[branch[c]].reference}
FirstOf(c, kept) == IF kept = {} THEN c ELSE CHOOSE k \in kept : TRUE
FirstKept(es, branch) ==
    LET c == LastOf(CompactionsOf(es, branch)) IN FirstOf(c, KeptOf(es, branch, c))

ContextOf(es, branch) ==
    IF CompactionsOf(es, branch) = {} THEN GatheredAll(es, branch)
    ELSE <<"summary">> \o GatheredAll(es, SubSeq(branch, FirstKept(es, branch), Len(branch)))

\* What the last compaction keeps starts on the branch, at the compaction at the latest.
LEMMA FirstKeptRange ==
    ASSUME NEW es, NEW branch, Len(branch) \in Nat, CompactionsOf(es, branch) # {}
    PROVE  LastOf(CompactionsOf(es, branch)) \in 1..Len(branch)
           /\ FirstKept(es, branch) \in 1..Len(branch)
<1> DEFINE C == CompactionsOf(es, branch)
           c == LastOf(C)
           K == KeptOf(es, branch, c)
<1>1. C \subseteq 1..Len(branch)  BY DEF CompactionsOf
<1>2. \E k \in C : \A j \in C : j <= k  BY <1>1, Greatest
<1>3. c \in C  
  <2> HIDE DEF C
  <2> QED BY <1>2, Zenon DEF LastOf
<1>4. K = {} \/ (CHOOSE k \in K : TRUE) \in K
  <2> HIDE DEF K
  <2> QED  BY Zenon
<1>5. K \subseteq 1..(c - 1)  BY DEF KeptOf
<1>6. c \in 1..Len(branch)  BY <1>1, <1>3
<1>7. FirstKept(es, branch) = FirstOf(c, K)  BY DEF FirstKept
<1> HIDE DEF K, c, C
<1>8. FirstOf(c, K) = c \/ FirstOf(c, K) \in K  BY <1>4, Zenon DEF FirstOf
<1>9. FirstOf(c, K) = c \/ FirstOf(c, K) \in 1..(c - 1)  BY <1>5, <1>8, Zenon
<1> HIDE DEF FirstOf
<1>10. FirstOf(c, K) \in 1..Len(branch)
  <2> DEFINE f == FirstOf(c, K)
  <2>1. f = c \/ f \in 1..(c - 1)  BY <1>9
  <2> HIDE DEF f
  <2>2. f \in 1..Len(branch)  BY <2>1, <1>6
  <2> QED  BY <2>2 DEF f
<1> QED  BY <1>6, <1>7, <1>10 DEF c, C

\* A message at the end of a branch comes at the end of the context built from it.
LEMMA ContextNext ==
    ASSUME NEW es, Forest(es), NEW e, e \in Entries, e.kind = "message",
           NEW branch \in Seq(1..Len(es))
    PROVE  ContextOf(Append(es, e), Append(branch, Len(es) + 1))
             = Append(ContextOf(es, branch), e.item)
<1> DEFINE et == Append(es, e)
           m == Len(es) + 1
           bt == Append(branch, m)
           C == CompactionsOf(es, branch)
           c == LastOf(C)
           f == FirstKept(es, branch)
           s == SubSeq(branch, f, Len(branch))
<1>0. /\ Len(branch) \in Nat /\ Len(es) \in Nat /\ m \in Nat /\ es \in Seq(Entries)
      /\ Len(bt) = Len(branch) + 1 /\ bt[Len(branch) + 1] = m /\ et[m] = e
      /\ \A j \in 1..Len(branch) : bt[j] = branch[j] /\ branch[j] \in 1..Len(es)
      /\ \A j \in 1..Len(es) : et[j] = es[j]
  BY DEF Forest
<1> HIDE DEF et, m, bt
<1>1. CompactionsOf(et, bt) = C
  <2>1. \A k \in 1..Len(branch) : et[bt[k]] = es[branch[k]]  BY <1>0
  <2>2. et[bt[Len(branch) + 1]].kind # "compaction"  BY <1>0
  <2>3. \A k : k \in 1..Len(bt) <=> k \in 1..Len(branch) \/ k = Len(branch) + 1  BY <1>0
  <2> QED  BY <2>1, <2>2, <2>3, Zenon DEF CompactionsOf
<1>2. GatheredAll(et, bt) = Append(GatheredAll(es, branch), e.item)
  BY GatherNext DEF et, bt, m
<1>3. CASE C = {}  BY <1>1, <1>2, <1>3, Zenon DEF ContextOf, et, bt, m
<1>4. CASE C # {}
  <2>1. c \in 1..Len(branch) /\ f \in 1..Len(branch)  BY <1>0, <1>4, FirstKeptRange
  <2>2. KeptOf(et, bt, c) = KeptOf(es, branch, c)
    <3> HIDE DEF c
    <3>1. et[bt[c]] = es[branch[c]] /\ \A k \in 1..(c - 1) : bt[k] = branch[k]  BY <1>0, <2>1
    <3> QED  BY <3>1, Zenon DEF KeptOf
  <2>3. FirstKept(et, bt) = f  BY <1>1, <2>2, Zenon DEF FirstKept
  <2> HIDE DEF f, c, C
  <2>4. SubSeq(bt, f, Len(bt)) = Append(s, m)
    <3>0. bt \in Seq(1..m) /\ m \in 1..m /\ branch \in Seq(1..m) /\ <<m>> \in Seq(1..m)
      BY <1>0 DEF bt, m
    <3>1. f \in 1..Len(bt) /\ Len(bt) \in f..Len(bt) /\ Len(bt) - 1 = Len(branch)
          /\ f \in 1..Len(branch) /\ Len(branch) \in 1..Len(branch)
      BY <1>0, <2>1
    <3>2. SubSeq(bt, f, Len(bt)) = SubSeq(bt, f, Len(bt) - 1) \o <<bt[Len(bt)]>>
      BY <3>0, <3>1, SubSeqRecursiveSecond
    <3>3. bt = branch \o <<m>>  BY <3>0, AppendIsConcat DEF bt
    <3>4. SubSeq(bt, f, Len(branch)) = s  BY <3>0, <3>1, <3>3, SubSeqOfConcat1
    <3>5. s \in Seq(1..m)
      <4>1. f \in Int /\ Len(branch) \in Int /\ \A i \in f..Len(branch) : branch[i] \in 1..m
        BY <1>0, <2>1 DEF m
      <4> QED  BY <4>1, SubSeqProperties
    <3> HIDE DEF s
    <3>6. s \o <<m>> = Append(s, m)  BY <3>0, <3>5, AppendIsConcat
    <3> QED  BY <1>0, <3>1, <3>2, <3>4, <3>6
  <2>5. s \in Seq(1..Len(es))  BY <1>0, <2>1
  <2> HIDE DEF s
  <2>6. GatheredAll(et, Append(s, m)) = Append(GatheredAll(es, s), e.item)
    BY <2>5, GatherNext DEF et, m
  <2>7. GatheredAll(es, s) \in Seq(Items)
    BY <2>5, GatheredTyped DEF GatheredAll
  <2>8. <<"summary">> \o Append(GatheredAll(es, s), e.item)
          = Append(<<"summary">> \o GatheredAll(es, s), e.item)
    <3> DEFINE g == GatheredAll(es, s)
               T == Items \cup {"summary"}
    <3>1. g \in Seq(T) /\ <<"summary">> \in Seq(T) /\ e.item \in T  BY <2>7 DEF Entries
    <3> HIDE DEF g, T
    <3>2. <<"summary">> \o Append(g, e.item) = Append(<<"summary">> \o g, e.item)  BY <3>1
    <3> QED  BY <3>2 DEF g
  <2>9. ContextOf(et, bt) = <<"summary">> \o GatheredAll(et, SubSeq(bt, f, Len(bt)))
    BY <1>1, <1>4, <2>3, Zenon DEF ContextOf, C
  <2>10. ContextOf(es, branch) = <<"summary">> \o GatheredAll(es, s)
    BY <1>4, Zenon DEF ContextOf, C, f, s
  <2>11. ContextOf(et, bt) = Append(ContextOf(es, branch), e.item)
    BY <2>4, <2>6, <2>8, <2>9, <2>10, Zenon
  <2> QED  BY <2>11 DEF et, bt, m
<1> QED  BY <1>3, <1>4

\* The context of a branch holds items and the summary.
LEMMA ContextTyped ==
    ASSUME NEW es, Forest(es), NEW branch \in Seq(1..Len(es))
    PROVE  ContextOf(es, branch) \in Seq(Items \cup {"summary"})
<1> DEFINE f == FirstKept(es, branch)
           s == SubSeq(branch, f, Len(branch))
           T == Items \cup {"summary"}
<1>1. GatheredAll(es, branch) \in Seq(T)
  <2>1. GatheredAll(es, branch) \in Seq(Items)  BY GatheredTyped DEF GatheredAll
  <2> QED  BY <2>1
<1>2. CASE CompactionsOf(es, branch) = {}  BY <1>1, <1>2, Zenon DEF ContextOf
<1>3. CASE CompactionsOf(es, branch) # {}
  <2>1. f \in 1..Len(branch)  BY <1>3, FirstKeptRange
  <2> HIDE DEF f
  <2>2. s \in Seq(1..Len(es))  BY <2>1
  <2> HIDE DEF s
  <2>3. GatheredAll(es, s) \in Seq(Items)  BY <2>2, GatheredTyped DEF GatheredAll
  <2>4. <<"summary">> \o GatheredAll(es, s) \in Seq(T)
    <3> DEFINE g == GatheredAll(es, s)
    <3>1. g \in Seq(T)  BY <2>3
    <3> HIDE DEF g
    <3>2. <<"summary">> \o g \in Seq(T)  BY <3>1
    <3> QED  BY <3>2 DEF g
  <2>5. ContextOf(es, branch) = <<"summary">> \o GatheredAll(es, s)
    BY <1>3, Zenon DEF ContextOf, f, s
  <2> QED  BY <2>4, <2>5
<1> QED  BY <1>2, <1>3
-----------------------------------------------------------------------------
(* The inductive invariant.                                                  *)

\* prompt has been called and has not returned.
Awake(r) == run[r].at \notin {"new", "over"}

\* Where a run holds messages to emit, where it appends, and where what it has gathered in
\* memory must be what the session would rebuild.
Holding == {"setup", "snapshot", "announced", "hook", "polled", "followed"} \cup Emitting
Writing == {"streaming", "tools", "failing"} \cup Emitting \cup Flushing
Reading == {"snapshot", "announced", "hook", "poll", "polled", "followup", "followed",
            "inject", "streaming", "tools"}

\* The locals of a run.
Locals == [at : Positions, todo : Seq(Messages), context : Seq(Items \cup {"summary"}),
           more : BOOLEAN, last : BOOLEAN, detached : BOOLEAN, failures : Nat, turns : Nat]

Types ==
    /\ run \in [Runs -> Locals]
    /\ steerQueue \in Seq(Messages) /\ followUpQueue \in Seq(Messages)
    /\ nextTurnQueue \in Seq(Messages) /\ pendingSessionWrites \in Seq(Messages)

\* The file is a forest, the leaf is one of its entries or its root, and a tool result hangs on
\* the assistant message that made its call.
Tree ==
    /\ Forest(entries) /\ leaf \in 0..Len(entries)
    /\ \A i \in 1..Len(entries) :
          entries[i].item = "tool" =>
              entries[i].parent # 0 /\ entries[entries[i].parent].item = "calls"

\* An append in progress goes to the leaf: nobody else has moved it since it began.
Writes ==
    /\ write \in [Tasks -> Entries \cup {None}]
    /\ \A t \in Tasks : write[t] # None =>
          write[t].parent = leaf /\ write[t].reference <= Len(entries)

\* What a run appends is what its position says.
Appending(r) ==
    /\ run[r].at \in Writing
    /\ write[r].kind = "message"
    /\ run[r].at \in Emitting => run[r].todo # <<>> /\ write[r].item = Head(run[r].todo)
    /\ run[r].at \in Flushing =>
          pendingSessionWrites # <<>> /\ write[r].item = Head(pendingSessionWrites)
    /\ run[r].at \in {"streaming", "tools", "failing"} => write[r].item \in OwnItems
    /\ write[r].item = "tool" => At(r, "tools")

\* The memory of the loop is the context of the branch, with what is still to be emitted.
Remembers(r) ==
    /\ run[r].at \in Reading => run[r].context = Context
    /\ At(r, "prompts") => run[r].context = Context \o run[r].todo

\* Only the run that the harness waits for is awake, and it is where its parts say.
RunOK(r) ==
    /\ Awake(r) => runPromise = r
    /\ write[r] # None => Appending(r)
    /\ At(r, "tools") => leaf # 0 /\ entries[leaf].item = "calls"
    /\ run[r].at \notin Holding => run[r].todo = <<>>
    /\ At(r, "announced") => run[r].todo # <<>>
    /\ Remembers(r)

\* The navigation is the last line of the file.
MovedLast ==
    entries[Len(entries)].kind = "leaf" /\ entries[Len(entries)].reference = leaf

\* The caller works on the session only while no run is awake; between a navigation and its
\* summary nothing is appended.
CallerOK ==
    /\ caller # "free" => runPromise = Nobody
    /\ write[Caller] # None =>
          /\ caller # "free"
          /\ write[Caller].kind = "leaf" <=> caller = "branch_summary"
          /\ write[Caller].item # "tool"
    /\ caller = "summarizing" => entries # <<>> /\ MovedLast

HarnessInv == Types /\ Tree /\ Writes /\ CallerOK /\ \A r \in Runs : RunOK(r)
-----------------------------------------------------------------------------
(* Sessions that grow.                                                       *)

\* The branch and the context of the session are those of its entries and leaf.
LEMMA BranchIs == Branch = PathsOf(entries)[leaf] /\ Context = ContextOf(entries, Branch)
<1>1. Branch = PathsOf(entries)[leaf]  BY Zenon DEF Branch, Path, PathsOf
<1>2. Context = ContextOf(entries, Branch)
  BY Zenon DEF Context, ContextOf, MessagesOf, Gathered, GatheredAll, LastOf, CompactionsOf,
     KeptOf, FirstOf, FirstKept
<1> QED  BY <1>1, <1>2

\* ... and of its next ones.
LEMMA BranchIsNext == Branch' = PathsOf(entries')[leaf'] /\ Context' = ContextOf(entries', Branch')
<1>1. Branch' = PathsOf(entries')[leaf']  BY Zenon DEF Branch, Path, PathsOf
<1>2. Context' = ContextOf(entries', Branch')
  BY Zenon DEF Context, ContextOf, MessagesOf, Gathered, GatheredAll, LastOf, CompactionsOf,
     KeptOf, FirstOf, FirstKept
<1> QED  BY <1>1, <1>2

\* A well-formed session gives a branch of entries and a context of items.
LEMMA TreeReads ==
    ASSUME Tree
    PROVE  Branch \in Seq(1..Len(entries)) /\ Context \in Seq(Items \cup {"summary"})
<1>1. Branch \in Seq(1..Len(entries))  BY BranchIs, PathsTyped DEF Tree
<1> QED  BY <1>1, BranchIs, ContextTyped DEF Tree

\* Without an append the branch and the context stay.
LEMMA SessionStays ==
    ASSUME Tree, UNCHANGED <<entries, leaf>>
    PROVE  Tree' /\ Branch' = Branch /\ Context' = Context
<1>1. Tree'  BY DEF Tree
<1>2. Branch' = Branch  BY BranchIs, BranchIsNext
<1> QED  BY <1>1, <1>2, BranchIs, BranchIsNext

\* An append that lands keeps the session well formed; a message is appended to the context.
LEMMA Landing ==
    ASSUME Tree, Writes, NEW t \in Tasks, Land(t),
           write[t].item = "tool" => leaf # 0 /\ entries[leaf].item = "calls"
    PROVE  /\ Tree'
           /\ entries' = Append(entries, write[t]) /\ write[t] \in Entries
           /\ write[t].kind # "leaf" =>
                 leaf' = Len(entries) + 1 /\ Branch' = Append(Branch, Len(entries) + 1)
           /\ write[t].kind = "message" => Context' = Append(Context, write[t].item)
<1> DEFINE e == write[t]
           n == Len(entries)
<1>0. /\ e \in Entries /\ entries \in Seq(Entries) /\ n \in Nat
      /\ e.parent = leaf /\ leaf \in 0..n /\ e.reference <= n
      /\ e.kind \in {"message", "compaction", "leaf"} /\ e.reference \in Nat
      /\ entries' = Append(entries, e)
      /\ leaf' = IF e.kind = "leaf" THEN e.reference ELSE n + 1
  BY DEF Tree, Writes, Land, Forest, Entries
<1>1. /\ entries' \in Seq(Entries) /\ Len(entries') = n + 1 /\ entries'[n + 1] = e
      /\ \A i \in 1..n : entries'[i] = entries[i]
  BY <1>0
<1> HIDE DEF e
<1>2. Forest(entries')
  <2> SUFFICES ASSUME NEW i \in 1..(n + 1)
               PROVE  entries'[i].parent < i /\ entries'[i].reference < i
    BY <1>1 DEF Forest
  <2>1. CASE i = n + 1  BY <2>1, <1>0, <1>1
  <2>2. CASE i \in 1..n  BY <2>2, <1>1 DEF Tree, Forest
  <2> QED  BY <2>1, <2>2, <1>0
<1>3. leaf' \in 0..Len(entries')  BY <1>0, <1>1
<1>4. ASSUME NEW i \in 1..Len(entries'), entries'[i].item = "tool"
      PROVE  entries'[i].parent # 0 /\ entries'[entries'[i].parent].item = "calls"
  <2>1. CASE i = n + 1
    <3>1. leaf # 0 /\ entries[leaf].item = "calls"  BY <2>1, <1>1, <1>4 DEF e
    <3>2. entries'[leaf] = entries[leaf]  BY <3>1, <1>0, <1>1
    <3> QED  BY <2>1, <3>1, <3>2, <1>0, <1>1
  <2>2. CASE i \in 1..n
    <3>1. entries[i].item = "tool" /\ entries'[i] = entries[i]  BY <2>2, <1>1, <1>4
    <3>2. entries[i].parent # 0 /\ entries[entries[i].parent].item = "calls"
      BY <2>2, <3>1 DEF Tree
    <3>3. entries[i].parent \in 0..(i - 1)  BY <2>2, Parents DEF Tree
    <3>4. entries'[entries[i].parent] = entries[entries[i].parent]
      BY <2>2, <3>2, <3>3, <1>0, <1>1
    <3> QED  BY <3>1, <3>2, <3>4
  <2>3. i = n + 1 \/ i \in 1..n  BY <1>0, <1>1, <1>4
  <2> QED  BY <2>1, <2>2, <2>3, Zenon
<1>5. Tree'  BY <1>2, <1>3, <1>4 DEF Tree
<1>6. ASSUME e.kind # "leaf"
      PROVE  leaf' = n + 1 /\ Branch' = Append(Branch, n + 1)
  <2>1. PathsOf(entries')[n + 1] = Append(PathsOf(entries)[e.parent], n + 1)
    BY <1>0, <1>2, PathOfNext DEF Tree
  <2> QED  BY <2>1, <1>6, <1>0, BranchIs, BranchIsNext
<1>7. ASSUME e.kind = "message"  PROVE Context' = Append(Context, e.item)
  <2>1. Branch \in Seq(1..n)  BY TreeReads
  <2>2. Branch' = Append(Branch, n + 1)  BY <1>6, <1>7
  <2>3. ContextOf(entries', Append(Branch, n + 1)) = Append(ContextOf(entries, Branch), e.item)
    BY <2>1, <1>0, <1>7, ContextNext DEF Tree
  <2> QED  BY <2>2, <2>3, BranchIs, BranchIsNext
<1> QED  BY <1>0, <1>5, <1>6, <1>7 DEF e
-----------------------------------------------------------------------------
(* A step of one run.                                                        *)

\* What the others of a running run are: asleep.
LEMMA Others ==
    ASSUME HarnessInv, HarnessAssumption, NEW r \in Runs, Awake(r)
    PROVE  /\ runPromise = r /\ caller = "free"
           /\ \A t \in Tasks \ {r} : write[t] = None
           /\ \A q \in Runs \ {r} : ~ Awake(q) /\ run[q].todo = <<>>
<1>1. runPromise = r /\ r # Nobody  BY DEF HarnessInv, RunOK, HarnessAssumption
<1>2. caller = "free" /\ write[Caller] = None  BY <1>1 DEF HarnessInv, CallerOK
<1>3. ASSUME NEW q \in Runs \ {r}  PROVE ~ Awake(q) /\ write[q] = None /\ run[q].todo = <<>>
  <2>1. ~ Awake(q)  BY <1>1 DEF HarnessInv, RunOK
  <2> QED  BY <2>1 DEF HarnessInv, RunOK, Awake, Appending, Writing, Holding, Emitting, Flushing
<1> QED  BY <1>1, <1>2, <1>3 DEF Tasks

\* Nothing is asked of a run that is asleep.
LEMMA Asleep ==
    ASSUME NEW q \in Runs, ~ Awake(q)', write'[q] = None, run'[q].todo = <<>>
    PROVE  RunOK(q)'
BY DEF RunOK, Awake, Remembers, At, Reading, Holding

\* A step that moves r alone keeps the invariant when it keeps r's part of it.
LEMMA Frame ==
    ASSUME HarnessInv, HarnessAssumption, NEW r \in Runs, Types', Tree', Writes', RunOK(r)',
           \A q \in Runs \ {r} : ~ Awake(q) /\ run[q].todo = <<>> /\ run'[q] = run[q],
           \A t \in Tasks \ {r} : write[t] = None /\ write'[t] = None,
           caller = "free", caller' = "free"
    PROVE  HarnessInv'
<1>1. CallerOK'  BY DEF CallerOK, HarnessAssumption, Tasks
<1>2. ASSUME NEW q \in Runs \ {r}  PROVE RunOK(q)'
  BY Asleep DEF Awake, Tasks
<1> QED  BY <1>1, <1>2 DEF HarnessInv

\* Where a run may go, with these locals, while it appends nothing.
MayBe(r, x) ==
    /\ x \in Locals
    /\ x.at \notin {"new", "over"} => runPromise' = r
    /\ x.at = "tools" => leaf # 0 /\ entries[leaf].item = "calls"
    /\ x.at \notin Holding => x.todo = <<>>
    /\ x.at = "announced" => x.todo # <<>>
    /\ x.at \in Reading => x.context = Context
    /\ x.at = "prompts" => x.context = Context \o x.todo

\* The queues hold messages.
QueuesTyped ==
    /\ steerQueue \in Seq(Messages) /\ followUpQueue \in Seq(Messages)
    /\ nextTurnQueue \in Seq(Messages) /\ pendingSessionWrites \in Seq(Messages)

\* A step that touches neither session nor caller keeps the invariant when r keeps its part.
LEMMA Moves ==
    ASSUME HarnessInv, HarnessAssumption, NEW r \in Runs, Awake(r), write[r] = None,
           UNCHANGED session, caller' = caller, QueuesTyped',
           NEW x, run' = [run EXCEPT ![r] = x], MayBe(r, x)
    PROVE  HarnessInv'
<1>1. /\ runPromise = r /\ caller = "free"
      /\ \A t \in Tasks \ {r} : write[t] = None
      /\ \A q \in Runs \ {r} : ~ Awake(q) /\ run[q].todo = <<>>
  BY Others
<1>2. entries' = entries /\ leaf' = leaf /\ write' = write  BY DEF session
<1>3. Tree' /\ Context' = Context  BY <1>2, SessionStays DEF HarnessInv
<1>4. Writes'  BY <1>2 DEF HarnessInv, Writes
<1>5. run \in [Runs -> Locals]  BY DEF HarnessInv, Types
<1>6. Types'  BY <1>5 DEF Types, QueuesTyped, MayBe
<1>7. run'[r] = x /\ \A q \in Runs \ {r} : run'[q] = run[q]  BY <1>5
<1>8. RunOK(r)'
  <2>1. write'[r] = None  BY <1>2
  <2> QED  BY <1>2, <1>3, <1>7, <2>1, Zenon DEF RunOK, MayBe, Awake, At, Remembers
<1> QED  BY <1>1, <1>2, <1>3, <1>4, <1>6, <1>7, <1>8, Frame

\* What the locals of a run are made of.
LEMMA LocalFields ==
    ASSUME NEW x \in Locals
    PROVE  /\ x.at \in Positions /\ x.todo \in Seq(Messages)
           /\ x.context \in Seq(Items \cup {"summary"}) /\ x.more \in BOOLEAN
           /\ x.last \in BOOLEAN /\ x.detached \in BOOLEAN /\ x.failures \in Nat /\ x.turns \in Nat
BY DEF Locals

\* The locals of a run that begins, fails or ends.
LEMMA IdleTyped ==
    ASSUME NEW where \in Positions, NEW k \in Nat, NEW b \in BOOLEAN
    PROVE  /\ [Idle(where) EXCEPT !.failures = k, !.last = b] \in Locals
           /\ [Idle(where) EXCEPT !.failures = k] \in Locals
           /\ Idle(where) \in Locals
<1>1. <<>> \in Seq(Messages) /\ <<>> \in Seq(Items \cup {"summary"})  OBVIOUS
<1> QED  BY <1>1 DEF Locals, Idle

\* First and Rest of a queue are its two parts.
LEMMA QueueParts ==
    ASSUME NEW S, NEW q \in Seq(S)
    PROVE  /\ First(q) = IF q = <<>> THEN <<>> ELSE <<Head(q)>>
           /\ Rest(q) = IF q = <<>> THEN <<>> ELSE Tail(q)
           /\ First(q) \in Seq(S) /\ Rest(q) \in Seq(S)
<1>1. CASE q = <<>>
  <2>1. Len(q) = 0 /\ <<>> \in Seq(S)  BY <1>1
  <2>2. SubSeq(q, 1, 0) = <<>> /\ SubSeq(q, 2, 0) = <<>>  BY SubSeqEmpty
  <2> QED  BY <1>1, <2>1, <2>2 DEF First, Rest
<1>2. CASE q # <<>>
  <2>1. Len(q) \in Nat /\ 1 \in 1..Len(q) /\ Head(q) = q[1] /\ q[1] \in S  BY <1>2
  <2>2. SubSeq(q, 1, 1) = SubSeq(q, 1, 0) \o <<q[1]>>  BY <2>1, SubSeqRecursiveSecond
  <2>3. SubSeq(q, 1, 0) = <<>>  BY SubSeqEmpty
  <2>4. First(q) = <<Head(q)>>
    <3>1. <<q[1]>> \in Seq(S)  BY <2>1
    <3> QED  BY <1>2, <2>1, <2>2, <2>3, <3>1, ConcatEmptySeq DEF First
  <2>5. Rest(q) = Tail(q)  BY <1>2, TailIsSubSeq DEF Rest
  <2>6. Tail(q) \in Seq(S)  BY <1>2, HeadTailProperties
  <2> QED  BY <1>2, <2>1, <2>4, <2>5, <2>6
<1> QED  BY <1>1, <1>2

\* What a poll takes, and leaves, holds messages.
LEMMA Taken ==
    ASSUME NEW S, NEW q \in Seq(S)
    PROVE  Drained(q) \in Seq(S) /\ Remaining(q) \in Seq(S)
BY QueueParts DEF Drained, Remaining

\* The steps of a run that append nothing keep the invariant.
LEMMA QuietSteps ==
    ASSUME HarnessInv, HarnessAssumption, NEW r \in Runs,
           \/ CreateTurnState(r) \/ TakeNextTurn(r) \/ Announced(r) \/ StartLoop(r) \/ SetupFails(r)
           \/ Poll(r) \/ PollFollowUp(r) \/ Polled(r) \/ PollFails(r) \/ Send(r) \/ ToolsAborted(r)
           \/ TurnEnded(r) \/ Prepared(r) \/ Raises(r) \/ AgentEnd(r) \/ Settled(r) \/ Returns(r)
    PROVE  HarnessInv'
<1> DEFINE x == run[r]
<1>0. x \in Locals /\ run \in [Runs -> Locals] /\ QueuesTyped
  BY DEF HarnessInv, Types, QueuesTyped
<1>1. /\ x.at \in Positions /\ x.todo \in Seq(Messages)
      /\ x.context \in Seq(Items \cup {"summary"}) /\ x.more \in BOOLEAN
      /\ x.last \in BOOLEAN /\ x.detached \in BOOLEAN /\ x.failures \in Nat /\ x.turns \in Nat
  BY <1>0, LocalFields
<1>2. RunOK(r)  BY DEF HarnessInv
<1>3. Context \in Seq(Items \cup {"summary"})  BY TreeReads DEF HarnessInv
<1>4. x.at \notin Writing => write[r] = None  BY <1>2 DEF RunOK, Appending
<1>5. <<>> \in Seq(Messages) /\ <<>> \in Seq(Items \cup {"summary"})  OBVIOUS
<1>a. CASE CreateTurnState(r)
  <2> DEFINE y == [x EXCEPT !.at = "snapshot", !.context = Context]
  <2>1. x.at = "setup" /\ run' = [run EXCEPT ![r] = y]
           /\ UNCHANGED <<session, control, pendingSessionWrites, queues, caller>>
    BY <1>a, <1>0 DEF CreateTurnState, At
  <2>2. y \in Locals /\ y.at = "snapshot" /\ y.todo = x.todo /\ y.context = Context
    BY <1>0, <1>1, <1>3 DEF Locals, Positions
  <2>3. Awake(r) /\ write[r] = None /\ runPromise = r
    BY <2>1, <1>2, <1>4 DEF Awake, Writing, Emitting, Flushing, RunOK
  <2>4. MayBe(r, y)  BY <2>1, <2>2, <2>3 DEF MayBe, Holding, Reading, control
  <2>5. QueuesTyped'  BY <1>0, <2>1 DEF queues, QueuesTyped
  <2> HIDE DEF y
  <2> QED  BY <2>1, <2>3, <2>4, <2>5, Moves
<1>b. CASE Announced(r)
  <2> DEFINE y == [x EXCEPT !.at = "hook"]
  <2>1. x.at = "announced" /\ run' = [run EXCEPT ![r] = y]
           /\ UNCHANGED <<session, control, pendingSessionWrites, queues, caller>>
    BY <1>b, <1>0 DEF Announced, At, Go
  <2>2. y \in Locals /\ y.at = "hook" /\ y.todo = x.todo /\ y.context = x.context
    BY <1>0, <1>1, <1>3, <1>5, <2>1 DEF Locals, Positions
  <2>3. Awake(r) /\ write[r] = None /\ runPromise = r
    BY <1>b, <2>1, <1>2, <1>4 DEF Awake, Writing, Emitting, Flushing, RunOK, Announced, AtRest,
       Emitted, Flushed
  <2>4. MayBe(r, y)
    BY <1>2, <2>1, <2>2, <2>3 DEF MayBe, Holding, Reading, control, RunOK, Remembers, At, Emitting
  <2>5. QueuesTyped'  BY <1>0, <2>1 DEF queues, QueuesTyped
  <2> HIDE DEF y
  <2> QED  BY <2>1, <2>3, <2>4, <2>5, Moves
<1>c. CASE Polled(r)
  <2> DEFINE y == [x EXCEPT !.at = "inject", !.detached = FALSE]
  <2>1. x.at \in {"polled", "followed"} /\ run' = [run EXCEPT ![r] = y]
           /\ UNCHANGED <<session, control, pendingSessionWrites, queues, caller>>
    BY <1>c, <1>0 DEF Polled, At, Go
  <2>2. y \in Locals /\ y.at = "inject" /\ y.todo = x.todo /\ y.context = x.context
    BY <1>0, <1>1, <1>3, <1>5, <2>1 DEF Locals, Positions
  <2>3. Awake(r) /\ write[r] = None /\ runPromise = r
    BY <1>c, <2>1, <1>2, <1>4 DEF Awake, Writing, Emitting, Flushing, RunOK, Polled, AtRest,
       Emitted, Flushed
  <2>4. MayBe(r, y)
    BY <1>2, <2>1, <2>2, <2>3 DEF MayBe, Holding, Reading, control, RunOK, Remembers, At, Emitting
  <2>5. QueuesTyped'  BY <1>0, <2>1 DEF queues, QueuesTyped
  <2> HIDE DEF y
  <2> QED  BY <2>1, <2>3, <2>4, <2>5, Moves
<1>d. CASE Send(r)
  <2> DEFINE y == [x EXCEPT !.at = "streaming"]
  <2>1. x.at = "inject" /\ x.todo = <<>> /\ run' = [run EXCEPT ![r] = y]
           /\ UNCHANGED <<session, control, pendingSessionWrites, queues, caller>>
    BY <1>d, <1>0 DEF Send, At, Go, Emitted
  <2>2. y \in Locals /\ y.at = "streaming" /\ y.todo = <<>> /\ y.context = x.context
    BY <1>0, <1>1, <1>3, <1>5, <2>1 DEF Locals, Positions
  <2>3. Awake(r) /\ write[r] = None /\ runPromise = r
    BY <1>d, <2>1, <1>2, <1>4 DEF Awake, Writing, Emitting, Flushing, RunOK, Send, AtRest,
       Emitted, Flushed
  <2>4. MayBe(r, y)
    BY <1>2, <2>1, <2>2, <2>3 DEF MayBe, Holding, Reading, control, RunOK, Remembers, At, Emitting
  <2>5. QueuesTyped'  BY <1>0, <2>1 DEF queues, QueuesTyped
  <2> HIDE DEF y
  <2> QED  BY <2>1, <2>3, <2>4, <2>5, Moves
<1>e. CASE ToolsAborted(r)
  <2> DEFINE y == [x EXCEPT !.at = "turn_end", !.more = TRUE]
  <2>1. x.at = "tools" /\ run' = [run EXCEPT ![r] = y]
           /\ UNCHANGED <<session, control, pendingSessionWrites, queues, caller>>
    BY <1>e, <1>0 DEF ToolsAborted, At, Go
  <2>2. y \in Locals /\ y.at = "turn_end" /\ y.todo = x.todo
    BY <1>0, <1>1, <1>3, <1>5, <2>1 DEF Locals, Positions
  <2>3. Awake(r) /\ write[r] = None /\ runPromise = r
    BY <1>e, <2>1, <1>2, <1>4 DEF Awake, Writing, Emitting, Flushing, RunOK, ToolsAborted, AtRest,
       Emitted, Flushed
  <2>4. MayBe(r, y)
    BY <1>2, <2>1, <2>2, <2>3 DEF MayBe, Holding, Reading, control, RunOK, Remembers, At, Emitting
  <2>5. QueuesTyped'  BY <1>0, <2>1 DEF queues, QueuesTyped
  <2> HIDE DEF y
  <2> QED  BY <2>1, <2>3, <2>4, <2>5, Moves
<1>f. CASE TurnEnded(r)
  <2> DEFINE y == [x EXCEPT !.at = IF x.last THEN "agent_end" ELSE "prepare"]
  <2>1. x.at = "turn_end" /\ run' = [run EXCEPT ![r] = y]
           /\ UNCHANGED <<session, control, pendingSessionWrites, queues, caller>>
    BY <1>f, <1>0 DEF TurnEnded, At, Go
  <2>2. y \in Locals /\ y.at \in {"agent_end", "prepare"} /\ y.todo = x.todo
    BY <1>0, <1>1, <1>3, <1>5, <2>1 DEF Locals, Positions
  <2>3. Awake(r) /\ write[r] = None /\ runPromise = r
    BY <1>f, <2>1, <1>2, <1>4 DEF Awake, Writing, Emitting, Flushing, RunOK, TurnEnded, AtRest,
       Emitted, Flushed
  <2>4. MayBe(r, y)
    BY <1>2, <2>1, <2>2, <2>3 DEF MayBe, Holding, Reading, control, RunOK, Remembers, At, Emitting
  <2>5. QueuesTyped'  BY <1>0, <2>1 DEF queues, QueuesTyped
  <2> HIDE DEF y
  <2> QED  BY <2>1, <2>3, <2>4, <2>5, Moves
<1>g. CASE Prepared(r)
  <2> DEFINE y == [x EXCEPT !.at = "poll", !.context = Context]
  <2>1. x.at = "prepare" /\ run' = [run EXCEPT ![r] = y]
           /\ UNCHANGED <<session, control, pendingSessionWrites, queues, caller>>
    BY <1>g, <1>0 DEF Prepared, At, Go
  <2>2. y \in Locals /\ y.at = "poll" /\ y.todo = x.todo /\ y.context = Context
    BY <1>0, <1>1, <1>3, <1>5, <2>1 DEF Locals, Positions
  <2>3. Awake(r) /\ write[r] = None /\ runPromise = r
    BY <1>g, <2>1, <1>2, <1>4 DEF Awake, Writing, Emitting, Flushing, RunOK, Prepared, AtRest,
       Emitted, Flushed
  <2>4. MayBe(r, y)
    BY <1>2, <2>1, <2>2, <2>3 DEF MayBe, Holding, Reading, control, RunOK, Remembers, At, Emitting
  <2>5. QueuesTyped'  BY <1>0, <2>1 DEF queues, QueuesTyped
  <2> HIDE DEF y
  <2> QED  BY <2>1, <2>3, <2>4, <2>5, Moves
<1>h. CASE Settled(r)
  <2> DEFINE y == [x EXCEPT !.at = "final"]
  <2>1. x.at = "settling" /\ run' = [run EXCEPT ![r] = y]
           /\ UNCHANGED <<session, control, pendingSessionWrites, queues, caller>>
    BY <1>h, <1>0 DEF Settled, At, Go
  <2>2. y \in Locals /\ y.at = "final" /\ y.todo = x.todo
    BY <1>0, <1>1, <1>3, <1>5, <2>1 DEF Locals, Positions
  <2>3. Awake(r) /\ write[r] = None /\ runPromise = r
    BY <1>h, <2>1, <1>2, <1>4 DEF Awake, Writing, Emitting, Flushing, RunOK, Settled, AtRest,
       Emitted, Flushed
  <2>4. MayBe(r, y)
    BY <1>2, <2>1, <2>2, <2>3 DEF MayBe, Holding, Reading, control, RunOK, Remembers, At, Emitting
  <2>5. QueuesTyped'  BY <1>0, <2>1 DEF queues, QueuesTyped
  <2> HIDE DEF y
  <2> QED  BY <2>1, <2>3, <2>4, <2>5, Moves
<1>i. CASE StartLoop(r)
  <2> DEFINE y == [x EXCEPT !.at = "prompts", !.more = TRUE, !.context = x.context \o x.todo]
  <2>1. /\ x.at = "hook" /\ run' = [run EXCEPT ![r] = y] /\ runPromise' = runPromise
        /\ UNCHANGED <<session, pendingSessionWrites, queues, caller>>
    BY <1>i, <1>0 DEF StartLoop, At
  <2>2. x.context \o x.todo \in Seq(Items \cup {"summary"})
    <3>1. x.todo \in Seq(Items \cup {"summary"})  BY <1>1 DEF Items
    <3> QED  BY <1>1, <3>1, ConcatProperties
  <2>3. y \in Locals /\ y.at = "prompts" /\ y.todo = x.todo /\ y.context = x.context \o x.todo
    BY <1>0, <1>1, <2>1, <2>2 DEF Locals, Positions
  <2>4. Awake(r) /\ write[r] = None /\ runPromise = r /\ x.context = Context
    BY <2>1, <1>2, <1>4 DEF Awake, Writing, Emitting, Flushing, RunOK, Remembers, Reading
  <2>5. MayBe(r, y)  BY <2>1, <2>3, <2>4 DEF MayBe, Holding, Reading, Emitting
  <2>6. QueuesTyped'  BY <1>0, <2>1 DEF queues, QueuesTyped
  <2> HIDE DEF y
  <2> QED  BY <2>1, <2>4, <2>5, <2>6, Moves
<1>j. CASE TakeNextTurn(r)
  <2> DEFINE y == [x EXCEPT !.at = IF nextTurnQueue = <<>> THEN "hook" ELSE "announced",
                            !.todo = nextTurnQueue \o x.todo]
  <2>1. /\ x.at = "snapshot" /\ run' = [run EXCEPT ![r] = y] /\ nextTurnQueue' = <<>>
        /\ UNCHANGED <<session, control, pendingSessionWrites, steerQueue, followUpQueue, caller>>
    BY <1>j, <1>0 DEF TakeNextTurn, At
  <2>2. /\ nextTurnQueue \o x.todo \in Seq(Messages)
        /\ nextTurnQueue # <<>> => nextTurnQueue \o x.todo # <<>>
    BY <1>0, <1>1, ConcatProperties, ConcatEqualIffEmpty DEF QueuesTyped
  <2>3. /\ y \in Locals /\ y.at \in {"hook", "announced"} /\ y.context = x.context
        /\ y.at = "announced" => y.todo # <<>>
    BY <1>0, <1>1, <2>1, <2>2 DEF Locals, Positions
  <2>4. Awake(r) /\ write[r] = None /\ runPromise = r /\ x.context = Context
    BY <2>1, <1>2, <1>4 DEF Awake, Writing, Emitting, Flushing, RunOK, Remembers, Reading
  <2>5. MayBe(r, y)  BY <2>1, <2>3, <2>4 DEF MayBe, Holding, Reading, Emitting, control
  <2>6. QueuesTyped'  BY <1>0, <1>5, <2>1 DEF QueuesTyped
  <2> HIDE DEF y
  <2> QED  BY <2>1, <2>4, <2>5, <2>6, Moves
<1>k. CASE Raises(r)
  <2> DEFINE w == IF x.failures = 0 THEN "failing" ELSE "final"
             y == [Idle(w) EXCEPT !.failures = x.failures + 1, !.last = TRUE]
  <2>1. /\ x.at \in Emitting \cup {"streaming", "tools", "turn_end", "prepare", "settling", "failing"}
        /\ UNCHANGED <<pendingSessionWrites, queues>>
        /\ run' = [run EXCEPT ![r] = y] /\ UNCHANGED <<session, control, caller>>
    BY <1>k, <1>0 DEF Raises, At, Throw
  <2>2. y \in Locals
    <3>1. w \in Positions  BY DEF Positions
    <3>2. x.failures + 1 \in Nat  BY <1>1
    <3> HIDE DEF w
    <3> QED  BY <3>1, <3>2, IdleTyped
  <2>3. y.at = w /\ y.todo = <<>>  BY DEF Idle
  <2>4. Awake(r) /\ write[r] = None /\ runPromise = r
    BY <1>k, <2>1, <1>2, <1>4 DEF Awake, Writing, Emitting, Flushing, RunOK, Raises, AtRest,
       Emitted, Flushed
  <2>5. MayBe(r, y)
    <3>1. y.at \in {"failing", "final"}  BY <2>3
    <3>2. runPromise' = runPromise  BY <2>1 DEF control
    <3> HIDE DEF w, y
    <3> QED  BY <2>2, <2>3, <2>4, <3>1, <3>2 DEF MayBe, Holding, Reading, Emitting
  <2>6. QueuesTyped'  BY <1>0, <2>1 DEF queues, QueuesTyped
  <2> HIDE DEF y
  <2> QED  BY <2>1, <2>4, <2>5, <2>6, Moves
<1>l. CASE PollFails(r)
  <2> DEFINE w == IF x.failures = 0 THEN "failing" ELSE "final"
             y == [Idle(w) EXCEPT !.failures = x.failures + 1, !.last = TRUE]
  <2>1. /\ x.at \in {"polled", "followed"} /\ UNCHANGED <<pendingSessionWrites, nextTurnQueue>>
        /\ \/ UNCHANGED steerQueue
           \/ steerQueue' = <<>> \o steerQueue \/ steerQueue' = x.todo \o steerQueue
        /\ \/ UNCHANGED followUpQueue
           \/ followUpQueue' = <<>> \o followUpQueue \/ followUpQueue' = x.todo \o followUpQueue
        /\ run' = [run EXCEPT ![r] = y] /\ UNCHANGED <<session, control, caller>>
    BY <1>l, <1>0 DEF PollFails, At, Throw
  <2>2. y \in Locals
    <3>1. w \in Positions  BY DEF Positions
    <3>2. x.failures + 1 \in Nat  BY <1>1
    <3> HIDE DEF w
    <3> QED  BY <3>1, <3>2, IdleTyped
  <2>3. y.at = w /\ y.todo = <<>>  BY DEF Idle
  <2>4. Awake(r) /\ write[r] = None /\ runPromise = r
    BY <1>l, <2>1, <1>2, <1>4 DEF Awake, Writing, Emitting, Flushing, RunOK, PollFails, AtRest,
       Emitted, Flushed
  <2>5. MayBe(r, y)
    <3>1. y.at \in {"failing", "final"}  BY <2>3
    <3>2. runPromise' = runPromise  BY <2>1 DEF control
    <3> HIDE DEF w, y
    <3> QED  BY <2>2, <2>3, <2>4, <3>1, <3>2 DEF MayBe, Holding, Reading, Emitting
  <2>6. QueuesTyped'  
    <3>1. \A q \in Seq(Messages) : x.todo \o q \in Seq(Messages) /\ <<>> \o q \in Seq(Messages)
      BY <1>1, <1>5, ConcatProperties
    <3> QED  BY <1>0, <2>1, <3>1 DEF QueuesTyped
  <2> HIDE DEF y
  <2> QED  BY <2>1, <2>4, <2>5, <2>6, Moves
<1>m. CASE Poll(r)
  <2> DEFINE d == Drained(steerQueue)
             w == IF d # <<>> THEN "polled" ELSE IF x.more THEN "inject" ELSE "followup"
             y == [x EXCEPT !.todo = d, !.at = w]
  <2>1. /\ (x.at = "poll" \/ (x.at = "prompts" /\ x.todo = <<>>)) /\ run' = [run EXCEPT ![r] = y]
        /\ steerQueue' = Remaining(steerQueue)
        /\ UNCHANGED <<session, control, pendingSessionWrites, followUpQueue, nextTurnQueue, caller>>
    BY <1>m, <1>0 DEF Poll, At, Emitted
  <2>2. d \in Seq(Messages) /\ steerQueue' \in Seq(Messages)  BY <1>0, <2>1, Taken DEF QueuesTyped
  <2>3. Awake(r) /\ write[r] = None /\ runPromise = r /\ x.context = Context
    <3>1. Awake(r) /\ write[r] = None /\ runPromise = r
      BY <1>m, <2>1, <1>2, <1>4 DEF Awake, Writing, Emitting, Flushing, RunOK, Poll, AtRest,
         Emitted, At
    <3>2. x.at = "prompts" => x.context = Context \o <<>>
      BY <2>1, <1>2 DEF RunOK, Remembers, At
    <3>3. Context \o <<>> = Context  BY <1>3, ConcatEmptySeq
    <3>4. x.at # "prompts" => x.context = Context  BY <2>1, <1>2 DEF RunOK, Remembers, Reading
    <3> QED  BY <3>1, <3>2, <3>3, <3>4
  <2> HIDE DEF d
  <2>4. y \in Locals /\ y.at = w /\ y.todo = d /\ y.context = x.context
    BY <1>0, <1>1, <2>1, <2>2 DEF Locals, Positions
  <2>5. MayBe(r, y)  BY <2>1, <2>3, <2>4 DEF MayBe, Holding, Reading, Emitting, control
  <2>6. QueuesTyped'  BY <1>0, <2>1, <2>2 DEF QueuesTyped
  <2> HIDE DEF y
  <2> QED  BY <2>1, <2>3, <2>5, <2>6, Moves
<1>n. CASE PollFollowUp(r)
  <2> DEFINE d == Drained(followUpQueue)
             w == IF d # <<>> THEN "followed" ELSE "agent_end"
             y == [x EXCEPT !.todo = d, !.at = w]
  <2>1. /\ x.at = "followup" /\ run' = [run EXCEPT ![r] = y]
        /\ followUpQueue' = Remaining(followUpQueue)
        /\ UNCHANGED <<session, control, pendingSessionWrites, steerQueue, nextTurnQueue, caller>>
    BY <1>n, <1>0 DEF PollFollowUp, At, Emitted
  <2>2. d \in Seq(Messages) /\ followUpQueue' \in Seq(Messages)
    BY <1>0, <2>1, Taken DEF QueuesTyped
  <2>3. Awake(r) /\ write[r] = None /\ runPromise = r /\ x.context = Context
    <3>1. Awake(r) /\ write[r] = None /\ runPromise = r
      BY <1>n, <2>1, <1>2, <1>4 DEF Awake, Writing, Emitting, Flushing, RunOK, PollFollowUp,
         AtRest, Emitted, At
    <3>2. x.at = "prompts" => x.context = Context \o <<>>
      BY <2>1, <1>2 DEF RunOK, Remembers, At
    <3>3. Context \o <<>> = Context  BY <1>3, ConcatEmptySeq
    <3>4. x.at # "prompts" => x.context = Context  BY <2>1, <1>2 DEF RunOK, Remembers, Reading
    <3> QED  BY <3>1, <3>2, <3>3, <3>4
  <2> HIDE DEF d
  <2>4. y \in Locals /\ y.at = w /\ y.todo = d /\ y.context = x.context
    BY <1>0, <1>1, <2>1, <2>2 DEF Locals, Positions
  <2>5. MayBe(r, y)  BY <2>1, <2>3, <2>4 DEF MayBe, Holding, Reading, Emitting, control
  <2>6. QueuesTyped'  BY <1>0, <2>1, <2>2 DEF QueuesTyped
  <2> HIDE DEF y
  <2> QED  BY <2>1, <2>3, <2>5, <2>6, Moves
<1>o. CASE AgentEnd(r)
  <2> DEFINE y == [Idle("settling") EXCEPT !.failures = x.failures]
  <2>1. /\ x.at = "agent_end" /\ run' = [run EXCEPT ![r] = y] /\ runPromise' = runPromise
        /\ UNCHANGED <<session, pendingSessionWrites, queues, caller>>
    BY <1>o, <1>0 DEF AgentEnd, At
  <2>2. y \in Locals /\ y.at = "settling" /\ y.todo = <<>>
    <3>1. "settling" \in Positions  BY DEF Positions
    <3>2. y \in Locals  BY <1>1, <3>1, IdleTyped
    <3> QED  BY <3>2 DEF Idle
  <2>3. Awake(r) /\ write[r] = None /\ runPromise = r
    BY <1>o, <2>1, <1>2 DEF Awake, RunOK, AgentEnd, Flushed, AtRest
  <2>4. MayBe(r, y)  BY <2>1, <2>2, <2>3 DEF MayBe, Holding, Reading, Emitting
  <2>5. QueuesTyped'  BY <1>0, <2>1 DEF queues, QueuesTyped
  <2> HIDE DEF y
  <2> QED  BY <2>1, <2>3, <2>4, <2>5, Moves
<1>p. CASE Returns(r)
  <2> DEFINE y == Idle("over")
  <2>1. /\ x.at = "final" /\ UNCHANGED <<pendingSessionWrites, queues>> /\ run' = [run EXCEPT ![r] = y]
        /\ UNCHANGED <<session, caller>>
    BY <1>p, <1>0 DEF Returns, At, Finish
  <2>2. y \in Locals /\ y.at = "over" /\ y.todo = <<>>
    <3>1. "over" \in Positions  BY DEF Positions
    <3> QED  BY <3>1, IdleTyped DEF Idle
  <2>3. Awake(r) /\ write[r] = None
    BY <1>p, <2>1, <1>2, <1>4 DEF Awake, RunOK, Writing, Emitting, Flushing, Returns, Flushed,
       AtRest
  <2>4. MayBe(r, y)  BY <2>2 DEF MayBe, Holding, Reading, Emitting
  <2>5. QueuesTyped'  BY <1>0, <2>1 DEF queues, QueuesTyped
  <2> HIDE DEF y
  <2> QED  BY <2>1, <2>3, <2>4, <2>5, Moves
<1>q. CASE SetupFails(r)
  <2> DEFINE y == Idle("over")
  <2>1. x.at \in {"setup", "snapshot", "announced", "hook"} /\ run' = [run EXCEPT ![r] = y]
    BY <1>q DEF SetupFails, Reject
  <2>2. UNCHANGED session /\ caller' = caller
        /\ UNCHANGED <<pendingSessionWrites, steerQueue, followUpQueue>>
    BY <1>q DEF SetupFails
  <2>3. nextTurnQueue' = IF x.at = "announced" THEN Front(x.todo) \o nextTurnQueue
                         ELSE nextTurnQueue
    BY <1>q DEF SetupFails, At
  <2>4. y \in Locals /\ y.at = "over" /\ y.todo = <<>>
    <3>1. "over" \in Positions  BY DEF Positions
    <3> QED  BY <3>1, IdleTyped DEF Idle
  <2>5. Awake(r) /\ write[r] = None
    BY <2>1, <1>2, <1>4 DEF Awake, RunOK, Writing, Emitting, Flushing
  <2>6. MayBe(r, y)  BY <2>4 DEF MayBe, Holding, Reading, Emitting
  <2>7. QueuesTyped'
    <3>1. x.at = "announced" => Front(x.todo) \in Seq(Messages)
      <4>1. x.at = "announced" => x.todo # <<>>  BY <1>2 DEF RunOK, At
      <4>2. x.todo # <<>> => \A i \in 1..(Len(x.todo) - 1) : x.todo[i] \in Messages  BY <1>1
      <4>3. x.todo # <<>> => Len(x.todo) - 1 \in Int  BY <1>1
      <4>4. x.todo # <<>> => SubSeq(x.todo, 1, Len(x.todo) - 1) \in Seq(Messages)
        BY <4>2, <4>3, SubSeqProperties
      <4> QED  BY <4>1, <4>4 DEF Front
    <3>2. x.at = "announced" => Front(x.todo) \o nextTurnQueue \in Seq(Messages)
      BY <3>1, <1>0, ConcatProperties DEF QueuesTyped
    <3>3. nextTurnQueue' \in Seq(Messages)  BY <1>0, <2>3, <3>2, Zenon DEF QueuesTyped
    <3> QED  BY <1>0, <2>2, <3>3, Zenon DEF QueuesTyped
  <2> HIDE DEF y
  <2>8. caller' = caller /\ UNCHANGED session  BY <2>2
  <2> QED  BY <2>1, <2>4, <2>5, <2>6, <2>7, <2>8, Moves
<1> QED
  BY <1>a, <1>b, <1>c, <1>d, <1>e, <1>f, <1>g, <1>h, <1>i, <1>j, <1>k, <1>l, <1>m, <1>n, <1>o,
     <1>p, <1>q
-----------------------------------------------------------------------------
(* Appends of a run.                                                         *)

\* The head of what is to be emitted moves to the context that is gathered.
LEMMA HeadMoves ==
    ASSUME NEW S, NEW c \in Seq(S), NEW q \in Seq(S), q # <<>>
    PROVE  c \o q = Append(c, Head(q)) \o Tail(q)
<1>1. Head(q) \in S /\ Tail(q) \in Seq(S) /\ <<Head(q)>> \in Seq(S)  BY HeadTailProperties
<1>2. q = <<Head(q)>> \o Tail(q)
  <2>1. Len(q) \in Nat /\ 1 \in 1..Len(q) /\ Len(q) \in 1..Len(q) /\ Head(q) = q[1]  OBVIOUS
  <2>2. SubSeq(q, 1, Len(q)) = <<q[1]>> \o SubSeq(q, 1 + 1, Len(q))
    BY <2>1, SubSeqRecursiveFirst
  <2>3. SubSeq(q, 1, Len(q)) = q  BY SubSeqFull
  <2>4. Tail(q) = SubSeq(q, 2, Len(q))  BY TailIsSubSeq
  <2>5. 1 + 1 = 2  OBVIOUS
  <2> QED  BY <2>1, <2>2, <2>3, <2>4, <2>5
<1>3. Append(c, Head(q)) = c \o <<Head(q)>>  BY <1>1, AppendIsConcat
<1>4. (c \o <<Head(q)>>) \o Tail(q) = c \o (<<Head(q)>> \o Tail(q))  BY <1>1, ConcatAssociative
<1> QED  BY <1>2, <1>3, <1>4

\* First takes the head.
LEMMA FirstItem ==
    ASSUME NEW S, NEW q \in Seq(S), NEW item \in ToSet(First(q))
    PROVE  q # <<>> /\ item = Head(q) /\ item \in S
<1>1. q # <<>>
  <2> SUFFICES ASSUME q = <<>> PROVE FALSE  OBVIOUS
  <2>1. First(q) = <<>>  BY QueueParts
  <2> QED  BY <2>1 DEF ToSet
<1>2. First(q) = <<Head(q)>> /\ Head(q) \in S  BY <1>1, QueueParts, HeadTailProperties
<1>3. item \in ToSet(<<Head(q)>>)  BY <1>2
<1> QED  BY <1>1, <1>2, <1>3 DEF ToSet

\* What Appends allows at each position.
LEMMA WhatAppends ==
    ASSUME QueuesTyped, NEW r \in Runs, run[r].todo \in Seq(Messages), NEW item \in Appends(r)
    PROVE  /\ run[r].at \in Writing /\ item \in Items
           /\ run[r].at \in Emitting => run[r].todo # <<>> /\ item = Head(run[r].todo) /\ item \in Messages
           /\ run[r].at \in Flushing =>
                 pendingSessionWrites # <<>> /\ item = Head(pendingSessionWrites) /\ item \in Messages
           /\ run[r].at \in {"streaming", "tools", "failing"} => item \in OwnItems
           /\ item = "tool" => At(r, "tools") \/ item \in Messages
<1> USE DEF At
<1>1. CASE run[r].at = "streaming"
  BY <1>1, Zenon DEF Appends, Writing, Emitting, Flushing, Items, OwnItems
<1>2. CASE run[r].at = "tools"
  BY <1>2 DEF Appends, Writing, Emitting, Flushing, Items, OwnItems
<1>3. CASE run[r].at = "failing"
  BY <1>3 DEF Appends, Writing, Emitting, Flushing, Items, OwnItems
<1>4. CASE run[r].at \in Emitting
  <2>1. Appends(r) = ToSet(First(run[r].todo))
    BY <1>4 DEF Appends, Emitting, Flushing
  <2>2. item \in ToSet(First(run[r].todo))  BY <2>1
  <2>3. run[r].todo # <<>> /\ item = Head(run[r].todo) /\ item \in Messages
    BY <2>2, FirstItem
  <2> QED  BY <1>4, <2>3 DEF Writing, Emitting, Flushing, Items
<1>5. CASE run[r].at \in Flushing
  <2>1. Appends(r) = ToSet(First(pendingSessionWrites))
    BY <1>5 DEF Appends, Emitting, Flushing
  <2>2. item \in ToSet(First(pendingSessionWrites))  BY <2>1
  <2>3. pendingSessionWrites # <<>> /\ item = Head(pendingSessionWrites) /\ item \in Messages
    BY <2>2, FirstItem DEF QueuesTyped
  <2> QED  BY <1>5, <2>3 DEF Writing, Emitting, Flushing, Items
<1>6. run[r].at \in Writing
  <2> SUFFICES ASSUME run[r].at \notin Writing PROVE FALSE  OBVIOUS
  <2>1. Appends(r) = {}  BY DEF Appends, Writing, Emitting, Flushing
  <2> QED  BY <2>1
<1> QED  BY <1>1, <1>2, <1>3, <1>4, <1>5, <1>6 DEF Writing

\* The invariant of runs and caller, as facts about one run.
LEMMA Everything ==
    ASSUME HarnessInv, NEW r \in Runs
    PROVE  /\ run[r] \in Locals /\ run \in [Runs -> Locals] /\ QueuesTyped
           /\ run[r].at \in Positions /\ run[r].todo \in Seq(Messages)
           /\ run[r].context \in Seq(Items \cup {"summary"}) /\ run[r].more \in BOOLEAN
           /\ run[r].last \in BOOLEAN /\ run[r].detached \in BOOLEAN
           /\ run[r].failures \in Nat /\ run[r].turns \in Nat
           /\ RunOK(r) /\ Context \in Seq(Items \cup {"summary"})
           /\ Tree /\ Writes /\ r \in Tasks
<1>1. run[r] \in Locals /\ run \in [Runs -> Locals] /\ QueuesTyped
  BY DEF HarnessInv, Types, QueuesTyped
<1>2. Context \in Seq(Items \cup {"summary"})  BY TreeReads DEF HarnessInv
<1> QED  BY <1>1, <1>2, LocalFields DEF HarnessInv, Tasks

\* An append that begins keeps the invariant.
LEMMA BeginStep ==
    ASSUME HarnessInv, HarnessAssumption, SessionAssumption, NEW r \in Runs, BeginAppend(r)
    PROVE  HarnessInv'
<1>1. PICK item \in Appends(r) : Begin(r, "message", item, 0)  BY DEF BeginAppend
<1>2. UNCHANGED <<control, pendingSessionWrites, queues, run, caller>>  BY DEF BeginAppend
<1>3. /\ run[r] \in Locals /\ run \in [Runs -> Locals] /\ QueuesTyped
      /\ run[r].todo \in Seq(Messages) /\ RunOK(r) /\ Tree /\ Writes /\ r \in Tasks
  BY Everything
<1>4. /\ run[r].at \in Writing /\ item \in Items
      /\ run[r].at \in Emitting => run[r].todo # <<>> /\ item = Head(run[r].todo) /\ item \in Messages
      /\ run[r].at \in Flushing =>
            pendingSessionWrites # <<>> /\ item = Head(pendingSessionWrites) /\ item \in Messages
      /\ run[r].at \in {"streaming", "tools", "failing"} => item \in OwnItems
      /\ item = "tool" => At(r, "tools") \/ item \in Messages
  BY <1>3, WhatAppends
<1>5. Awake(r)  BY <1>4 DEF Awake, Writing, Emitting, Flushing
<1>6. /\ runPromise = r /\ caller = "free"
      /\ \A t \in Tasks \ {r} : write[t] = None
      /\ \A q \in Runs \ {r} : ~ Awake(q) /\ run[q].todo = <<>>
  BY <1>5, Others
<1> DEFINE e == Entry("message", item, leaf, 0)
<1>7. e \in Entries /\ e.kind = "message" /\ e.item = item /\ e.parent = leaf /\ e.reference = 0
      /\ e # None /\ Len(entries) \in Nat
  BY <1>3, <1>4, Parents DEF Entry, Entries, Tree, Forest, SessionAssumption
<1>8. write \in [Tasks -> Entries \cup {None}]  BY <1>3 DEF Writes
<1> HIDE DEF e
<1>9. write' = [write EXCEPT ![r] = e] /\ entries' = entries /\ leaf' = leaf
  BY <1>1 DEF Begin, BeginAt, e
<1>10. write'[r] = e /\ \A t \in Tasks \ {r} : write'[t] = write[t]  BY <1>3, <1>8, <1>9
<1>11. Tree' /\ Context' = Context  BY <1>3, <1>9, SessionStays
<1>12. Writes'
  <2>1. write' \in [Tasks -> Entries \cup {None}]  BY <1>7, <1>8, <1>9
  <2> QED  BY <1>3, <1>6, <1>7, <1>9, <1>10, <2>1 DEF Writes
<1>13. Types'  BY <1>2, <1>3 DEF Types, QueuesTyped, queues
<1>14. ~ ("tool" \in Messages)  BY DEF SessionAssumption, OwnItems
<1>15. Appending(r)'
  BY <1>2, <1>4, <1>7, <1>10, <1>14 DEF Appending, At
<1>16. RunOK(r)'
  BY <1>2, <1>3, <1>9, <1>11, <1>15 DEF RunOK, Awake, At, Remembers, control
<1> QED  BY <1>2, <1>6, <1>10, <1>11, <1>12, <1>13, <1>16, Frame

\* An append that fails keeps the invariant.
LEMMA MissStep ==
    ASSUME HarnessInv, HarnessAssumption, NEW r \in Runs, AppendFails(r)
    PROVE  HarnessInv'
<1> DEFINE x == run[r]
           w == IF x.failures = 0 THEN "failing" ELSE "final"
           y == IF x.at = "final" THEN Idle("over")
                ELSE [Idle(w) EXCEPT !.failures = x.failures + 1, !.last = TRUE]
<1>1. /\ x \in Locals /\ run \in [Runs -> Locals] /\ QueuesTyped /\ x.failures \in Nat
      /\ RunOK(r) /\ Tree /\ Writes /\ r \in Tasks
  BY Everything
<1>2. /\ write[r] # None /\ write' = [write EXCEPT ![r] = None]
      /\ entries' = entries /\ leaf' = leaf
  BY DEF AppendFails, Miss
<1>3. run' = [run EXCEPT ![r] = y]
  BY DEF AppendFails, At, Finish, Throw
<1>4. /\ x.at # "final" => runPromise' = runPromise
      /\ caller' = caller /\ UNCHANGED <<pendingSessionWrites, queues>>
  BY DEF AppendFails, At, control
<1>5. Awake(r)  BY <1>1, <1>2 DEF RunOK, Awake, Appending, Writing, Emitting, Flushing
<1>6. /\ runPromise = r /\ caller = "free"
      /\ \A t \in Tasks \ {r} : write[t] = None
      /\ \A q \in Runs \ {r} : ~ Awake(q) /\ run[q].todo = <<>>
  BY <1>5, Others
<1>7. /\ y \in Locals /\ y.todo = <<>>
      /\ y.at = IF x.at = "final" THEN "over" ELSE w
  <2>1. w \in Positions /\ "over" \in Positions /\ x.failures + 1 \in Nat  BY <1>1 DEF Positions
  <2>2. /\ [Idle(w) EXCEPT !.failures = x.failures + 1, !.last = TRUE] \in Locals
        /\ Idle("over") \in Locals
    <3> HIDE DEF w
    <3> QED  BY <2>1, IdleTyped
  <2> QED  BY <2>2 DEF Idle
<1> HIDE DEF y
<1>8. run'[r] = y /\ \A q \in Runs \ {r} : run'[q] = run[q]  BY <1>1, <1>3
<1>9. write \in [Tasks -> Entries \cup {None}]  BY <1>1 DEF Writes
<1>10. write'[r] = None /\ \A t \in Tasks \ {r} : write'[t] = write[t]  BY <1>1, <1>2, <1>9
<1>11. Tree'  BY <1>1, <1>2, SessionStays
<1>12. Writes'
  <2>1. write' \in [Tasks -> Entries \cup {None}]  BY <1>2, <1>9
  <2> QED  BY <1>6, <1>10, <2>1 DEF Writes
<1>13. Types'  BY <1>1, <1>3, <1>4, <1>7 DEF Types, QueuesTyped, queues
<1>14. RunOK(r)'
  <2>1. run'[r].at \in {"failing", "final", "over"} /\ run'[r].todo = <<>>
    BY <1>7, <1>8
  <2>2. run'[r].at # "over" => runPromise' = r  BY <1>4, <1>6, <1>7, <1>8
  <2> QED  BY <1>10, <2>1, <2>2 DEF RunOK, Awake, At, Remembers, Reading, Holding, Emitting
<1> QED  BY <1>4, <1>6, <1>8, <1>10, <1>11, <1>12, <1>13, <1>14, Frame

\* The append of a run lands, whatever comes of it in the run.
LEMMA LandStep ==
    ASSUME HarnessInv, HarnessAssumption, NEW r \in Runs, Land(r)
    PROVE  /\ Awake(r) /\ runPromise = r /\ caller = "free" /\ Appending(r)
           /\ \A t \in Tasks \ {r} : write[t] = None /\ write'[t] = None
           /\ \A q \in Runs \ {r} : ~ Awake(q) /\ run[q].todo = <<>>
           /\ write[r] \in Entries /\ write'[r] = None
           /\ Tree' /\ Writes'
           /\ Context' = Append(Context, write[r].item)
           /\ Branch' = Append(Branch, Len(entries) + 1)
           /\ leaf' # 0 /\ entries'[leaf'] = write[r]
           /\ entries' = Append(entries, write[r]) /\ entries \in Seq(Entries)
<1>1. RunOK(r) /\ Tree /\ Writes /\ r \in Tasks  BY Everything
<1>2. write[r] # None /\ write' = [write EXCEPT ![r] = None]  BY DEF Land
<1>3. Appending(r)  BY <1>1, <1>2 DEF RunOK
<1>4. Awake(r)  BY <1>3 DEF Awake, Appending, Writing, Emitting, Flushing
<1>5. /\ runPromise = r /\ caller = "free"
      /\ \A t \in Tasks \ {r} : write[t] = None
      /\ \A q \in Runs \ {r} : ~ Awake(q) /\ run[q].todo = <<>>
  BY <1>4, Others
<1>6. write[r].item = "tool" => leaf # 0 /\ entries[leaf].item = "calls"
  BY <1>1, <1>3 DEF Appending, RunOK
<1>7. /\ Tree' /\ entries' = Append(entries, write[r]) /\ write[r] \in Entries
      /\ leaf' = Len(entries) + 1 /\ Branch' = Append(Branch, Len(entries) + 1)
      /\ Context' = Append(Context, write[r].item)
  BY <1>1, <1>3, <1>6, Landing DEF Appending
<1>8. entries \in Seq(Entries) /\ Len(entries) \in Nat  BY <1>1 DEF Tree, Forest
<1>9. entries'[leaf'] = write[r] /\ leaf' # 0  BY <1>7, <1>8
<1>10. write \in [Tasks -> Entries \cup {None}]  BY <1>1 DEF Writes
<1>11. write'[r] = None /\ \A t \in Tasks \ {r} : write'[t] = write[t]  BY <1>1, <1>2, <1>10
<1>12. Writes'
  <2>1. write' \in [Tasks -> Entries \cup {None}]  BY <1>2, <1>10
  <2> QED  BY <1>5, <1>11, <2>1 DEF Writes
<1> QED  BY <1>3, <1>4, <1>5, <1>7, <1>8, <1>9, <1>11, <1>12

\* An append that lands and is heard keeps the invariant.
LEMMA AppendStep ==
    ASSUME HarnessInv, HarnessAssumption, NEW r \in Runs, AppendLands(r)
    PROVE  HarnessInv'
<1> DEFINE x == run[r]
           item == write[r].item
           injected == [x EXCEPT !.context = Append(x.context, item)]
<1>1. /\ x \in Locals /\ run \in [Runs -> Locals] /\ QueuesTyped
      /\ x.at \in Positions /\ x.todo \in Seq(Messages)
      /\ x.context \in Seq(Items \cup {"summary"}) /\ x.turns \in Nat
      /\ RunOK(r) /\ Context \in Seq(Items \cup {"summary"})
  BY Everything
<1>2. Land(r) /\ UNCHANGED <<control, queues, caller>>  BY DEF AppendLands
<1>3. /\ Awake(r) /\ runPromise = r /\ caller = "free" /\ Appending(r)
      /\ \A t \in Tasks \ {r} : write[t] = None /\ write'[t] = None
      /\ \A q \in Runs \ {r} : ~ Awake(q) /\ run[q].todo = <<>>
      /\ write[r] \in Entries /\ write'[r] = None
      /\ Tree' /\ Writes' /\ Context' = Append(Context, item)
      /\ leaf' # 0 /\ entries'[leaf'] = write[r]
  BY <1>2, LandStep
<1>4. item \in Items \cup {"summary"}  BY <1>3 DEF Entries
<1>5. Append(x.context, item) \in Seq(Items \cup {"summary"})  BY <1>1, <1>4
<1>6. runPromise' = r /\ caller' = "free"  BY <1>2, <1>3 DEF control
<1> SUFFICES ASSUME NEW y, run' = [run EXCEPT ![r] = y], y \in Locals, QueuesTyped',
                    y.at = "tools" => item = "calls",
                    y.at \notin Holding => y.todo = <<>>,
                    y.at # "announced",
                    y.at \in Reading => y.context = Append(Context, item),
                    y.at = "prompts" => y.context = Append(Context, item) \o y.todo
             PROVE  HarnessInv'
  <2>a. CASE x.at \in Emitting
    <3> DEFINE y == [IF At(r, "inject") THEN injected ELSE x EXCEPT !.todo = Tail(@)]
    <3>1. run' = [run EXCEPT ![r] = y] /\ pendingSessionWrites' = pendingSessionWrites
      <4>1. x.at \notin Flushing /\ x.at \notin {"streaming", "tools", "failing"}
        BY <2>a DEF Emitting, Flushing
      <4> QED  BY <4>1, Zenon DEF AppendLands, At
    <3>2. x.todo # <<>> /\ item = Head(x.todo)  BY <2>a, <1>3 DEF Appending
    <3>3. Tail(x.todo) \in Seq(Messages)  BY <1>1, <3>2, HeadTailProperties
    <3>4. y \in Locals /\ y.at = x.at /\ y.todo = Tail(x.todo)
          /\ y.context = IF x.at = "inject" THEN Append(x.context, item) ELSE x.context
      <4>1. CASE At(r, "inject")
        <5>1. y = [injected EXCEPT !.todo = Tail(x.todo)]  BY <4>1, <1>1 DEF Locals
        <5> QED  BY <4>1, <5>1, <1>1, <1>5, <3>3 DEF Locals, At
      <4>2. CASE ~ At(r, "inject")
        <5>1. y = [x EXCEPT !.todo = Tail(x.todo)]  BY <4>2
        <5> QED  BY <4>2, <5>1, <1>1, <3>3 DEF Locals, At
      <4> QED  BY <4>1, <4>2
    <3>5. x.at = "inject" => x.context = Context
      BY <1>1 DEF RunOK, Remembers, Reading
    <3>6. x.at = "prompts" => x.context = Append(Context, item) \o Tail(x.todo)
      <4>1. x.at = "prompts" => x.context = Context \o x.todo  BY <1>1 DEF RunOK, Remembers, At
      <4>2. x.todo \in Seq(Items \cup {"summary"})  BY <1>1 DEF Items
      <4>3. Context \o x.todo = Append(Context, Head(x.todo)) \o Tail(x.todo)
        BY <1>1, <3>2, <4>2, HeadMoves
      <4> QED  BY <3>2, <4>1, <4>3
    <3>7. QueuesTyped'  BY <1>1, <1>2, <3>1 DEF QueuesTyped, queues
    <3> HIDE DEF y, injected, item
    <3> QED  BY <2>a, <3>1, <3>4, <3>5, <3>6, <3>7 DEF Emitting, Holding, Reading
  <2>b. CASE x.at \in Flushing
    <3>1. run' = run /\ pendingSessionWrites' = Rest(pendingSessionWrites)
      BY <2>b DEF AppendLands, Emitting, Flushing, At
    <3>2. run' = [run EXCEPT ![r] = x]  BY <1>1, <3>1
    <3>3. QueuesTyped'  BY <1>1, <1>2, <3>1, QueueParts DEF QueuesTyped, queues
    <3>4. x.todo = <<>>  BY <2>b, <1>1 DEF RunOK, Flushing, Holding, Emitting
    <3> HIDE DEF x
    <3> QED  BY <2>b, <1>1, <3>2, <3>3, <3>4 DEF Flushing, Holding, Reading, Emitting
  <2>c. CASE x.at = "streaming"
    <3> DEFINE y == [injected EXCEPT !.at = IF item = "calls" THEN "tools" ELSE "turn_end",
                                     !.turns = IF item = "calls" THEN x.turns + 1 ELSE x.turns,
                                     !.more = FALSE, !.last = item = "failure"]
    <3>1. run' = [run EXCEPT ![r] = y] /\ pendingSessionWrites' = pendingSessionWrites
      BY <2>c DEF AppendLands, Emitting, Flushing, At
    <3>2. x.todo = <<>> /\ x.context = Context
      BY <2>c, <1>1 DEF RunOK, Remembers, Reading, Holding, Emitting
    <3>3. y \in Locals /\ y.at = (IF item = "calls" THEN "tools" ELSE "turn_end")
          /\ y.todo = x.todo /\ y.context = Append(x.context, item)
      <4> DEFINE b == item = "failure"
      <4>0. b \in BOOLEAN /\ x.turns + 1 \in Nat  BY <1>1
      <4>1. injected \in Locals /\ injected.todo = x.todo
            /\ injected.context = Append(x.context, item)
        BY <1>1, <1>5 DEF Locals
      <4> HIDE DEF b, injected, item
      <4>2. CASE item = "calls"  BY <1>1, <4>0, <4>1, <4>2 DEF Locals, Positions, b
      <4>3. CASE item # "calls"  BY <1>1, <4>0, <4>1, <4>3 DEF Locals, Positions, b
      <4> QED  BY <4>2, <4>3
    <3>4. QueuesTyped'  BY <1>1, <1>2, <3>1 DEF QueuesTyped, queues
    <3> HIDE DEF y, injected, item
    <3> QED  BY <3>1, <3>2, <3>3, <3>4
  <2>d. CASE x.at = "tools"
    <3>1. PICK terminate \in BOOLEAN :
             run' = [run EXCEPT ![r] = [injected EXCEPT !.at = "turn_end", !.more = ~ terminate]]
      BY <2>d DEF AppendLands, Emitting, Flushing, At
    <3> DEFINE y == [injected EXCEPT !.at = "turn_end", !.more = ~ terminate]
    <3>2. pendingSessionWrites' = pendingSessionWrites
      BY <2>d DEF AppendLands, Emitting, Flushing, At
    <3>3. x.todo = <<>>  BY <2>d, <1>1 DEF RunOK, Holding, Emitting
    <3>4. y \in Locals /\ y.at = "turn_end" /\ y.todo = x.todo
      BY <1>1, <1>5 DEF Locals, Positions
    <3>5. QueuesTyped'  BY <1>1, <1>2, <3>2 DEF QueuesTyped, queues
    <3> HIDE DEF y, injected, item
    <3> QED  BY <3>1, <3>3, <3>4, <3>5 DEF y, Reading
  <2>e. CASE x.at = "failing"
    <3> DEFINE y == [x EXCEPT !.at = "turn_end"]
    <3>1. run' = [run EXCEPT ![r] = y] /\ pendingSessionWrites' = pendingSessionWrites
      BY <2>e DEF AppendLands, Emitting, Flushing, At, Go
    <3>3. x.todo = <<>>  BY <2>e, <1>1 DEF RunOK, Holding, Emitting
    <3>4. y \in Locals /\ y.at = "turn_end" /\ y.todo = x.todo
      BY <1>1 DEF Locals, Positions
    <3>5. QueuesTyped'  BY <1>1, <1>2, <3>1 DEF QueuesTyped, queues
    <3> HIDE DEF y, injected, item
    <3> QED  BY <3>1, <3>3, <3>4, <3>5 DEF Reading
  <2> QED  BY <1>3, <2>a, <2>b, <2>c, <2>d, <2>e DEF Appending, Writing
<1>7. run'[r] = y /\ \A q \in Runs \ {r} : run'[q] = run[q]  BY <1>1
<1>8. Types'  BY <1>1 DEF Types, QueuesTyped
<1>9. RunOK(r)'
  <2>1. y.at = "tools" => leaf' # 0 /\ entries'[leaf'].item = "calls"  BY <1>3
  <2>2. y.at \in Reading => y.context = Context'  BY <1>3
  <2>3. y.at = "prompts" => y.context = Context' \o y.todo  BY <1>3
  <2> QED  BY <1>3, <1>6, <1>7, <2>1, <2>2, <2>3, Zenon DEF RunOK, Awake, At, Remembers
<1> QED  BY <1>3, <1>6, <1>7, <1>8, <1>9, Frame

\* An append that lands while its listener raises keeps the invariant.
LEMMA UnheardStep ==
    ASSUME HarnessInv, HarnessAssumption, NEW r \in Runs, LandedUnheard(r)
    PROVE  HarnessInv'
<1> DEFINE x == run[r]
           w == IF x.failures = 0 THEN "failing" ELSE "final"
           y == [Idle(w) EXCEPT !.failures = x.failures + 1, !.last = TRUE]
<1>1. x \in Locals /\ run \in [Runs -> Locals] /\ QueuesTyped /\ x.failures \in Nat
  BY Everything
<1>2. /\ Land(r) /\ UNCHANGED <<control, pendingSessionWrites, queues, caller>>
      /\ run' = [run EXCEPT ![r] = y]
  BY DEF LandedUnheard, Throw
<1>3. /\ runPromise = r /\ caller = "free"
      /\ \A t \in Tasks \ {r} : write[t] = None /\ write'[t] = None
      /\ \A q \in Runs \ {r} : ~ Awake(q) /\ run[q].todo = <<>>
      /\ write'[r] = None /\ Tree' /\ Writes'
  BY <1>2, LandStep
<1>4. /\ y \in Locals /\ y.todo = <<>> /\ y.at = w
  <2>1. w \in Positions /\ x.failures + 1 \in Nat  BY <1>1 DEF Positions
  <2>2. [Idle(w) EXCEPT !.failures = x.failures + 1, !.last = TRUE] \in Locals
    <3> HIDE DEF w
    <3> QED  BY <2>1, IdleTyped
  <2> QED  BY <2>2 DEF Idle
<1> HIDE DEF y
<1>5. run'[r] = y /\ \A q \in Runs \ {r} : run'[q] = run[q]  BY <1>1, <1>2
<1>6. Types'  BY <1>1, <1>2, <1>4 DEF Types, QueuesTyped, queues
<1>7. RunOK(r)'
  <2>1. run'[r].at \in {"failing", "final"} /\ run'[r].todo = <<>> /\ runPromise' = r
    BY <1>2, <1>3, <1>4, <1>5 DEF control
  <2> QED  BY <1>3, <2>1 DEF RunOK, Awake, At, Remembers, Reading, Holding, Emitting
<1> QED  BY <1>2, <1>3, <1>5, <1>6, <1>7, Frame
-----------------------------------------------------------------------------
(* Callers.                                                                  *)

\* Without anybody to wait for, no run is awake.
LEMMA AllAsleep ==
    ASSUME HarnessInv, HarnessAssumption, runPromise = Nobody
    PROVE  \A q \in Runs : ~ Awake(q) /\ run[q].todo = <<>> /\ write[q] = None
<1> TAKE q \in Runs
<1>1. RunOK(q) /\ q # Nobody  BY DEF HarnessInv, HarnessAssumption
<1>2. ~ Awake(q)  BY <1>1 DEF RunOK
<1> QED
  BY <1>1, <1>2 DEF RunOK, Awake, Appending, Writing, Holding, Emitting, Flushing

\* What others do while runs go on leaves every run where it is.
LEMMA Around ==
    ASSUME HarnessInv, UNCHANGED session, runPromise' = runPromise, CallerOK', QueuesTyped',
           run' \in [Runs -> Locals],
           \A q \in Runs : /\ run'[q].at = run[q].at /\ run'[q].todo = run[q].todo
                           /\ run'[q].context = run[q].context,
           pendingSessionWrites # <<>> =>
              pendingSessionWrites' # <<>> /\ Head(pendingSessionWrites') = Head(pendingSessionWrites)
    PROVE  HarnessInv'
<1>1. entries' = entries /\ leaf' = leaf /\ write' = write  BY DEF session
<1>2. Tree' /\ Context' = Context  BY <1>1, SessionStays DEF HarnessInv
<1>3. Writes'  BY <1>1 DEF HarnessInv, Writes
<1>4. Types'  BY DEF Types, QueuesTyped
<1>5. ASSUME NEW q \in Runs  PROVE RunOK(q)'
  <2>1. RunOK(q)  BY DEF HarnessInv
  <2>2. Appending(q) => Appending(q)'  BY <1>1 DEF Appending, At
  <2>3. Remembers(q)'  BY <1>2, <2>1 DEF RunOK, Remembers, At
  <2> QED  BY <1>1, <2>1, <2>2, <2>3 DEF RunOK, Awake, At
<1> QED  BY <1>2, <1>3, <1>4, <1>5 DEF HarnessInv

\* Messages that callers submit to a busy harness keep the invariant.
LEMMA MessageSteps ==
    ASSUME HarnessInv, NEW m \in Messages,
           Steer(m) \/ FollowUp(m) \/ NextTurn(m) \/ Postpone(m)
    PROVE  HarnessInv'
<1>1. QueuesTyped /\ run \in [Runs -> Locals]  BY DEF HarnessInv, Types, QueuesTyped
<1>2. UNCHANGED <<session, control, run, caller>>  BY DEF Steer, FollowUp, NextTurn, Postpone
<1>3. QueuesTyped'
  <2>1. \A q \in Seq(Messages) : Append(q, m) \in Seq(Messages)  OBVIOUS
  <2>2. CASE Steer(m)  BY <1>1, <2>1, <2>2, Zenon DEF Steer, QueuesTyped
  <2>3. CASE FollowUp(m)  BY <1>1, <2>1, <2>3, Zenon DEF FollowUp, QueuesTyped
  <2>4. CASE NextTurn(m)  BY <1>1, <2>1, <2>4, Zenon DEF NextTurn, QueuesTyped
  <2>5. CASE Postpone(m)  BY <1>1, <2>1, <2>5, Zenon DEF Postpone, QueuesTyped, queues
  <2> QED  BY <2>2, <2>3, <2>4, <2>5
<1>4. CallerOK'  BY <1>2 DEF HarnessInv, CallerOK, MovedLast, control, session
<1>5. pendingSessionWrites # <<>> =>
         pendingSessionWrites' # <<>> /\ Head(pendingSessionWrites') = Head(pendingSessionWrites)
  <2>1. \/ pendingSessionWrites' = pendingSessionWrites
        \/ pendingSessionWrites' = Append(pendingSessionWrites, m)
    BY DEF Steer, FollowUp, NextTurn, Postpone
  <2>2. /\ Append(pendingSessionWrites, m) # <<>>
        /\ pendingSessionWrites # <<>> =>
              Head(Append(pendingSessionWrites, m)) = Head(pendingSessionWrites)
    BY <1>1, HeadTailAppend, AppendProperties DEF QueuesTyped
  <2> QED  BY <2>1, <2>2
<1>6. run' = run /\ runPromise' = runPromise /\ UNCHANGED session  BY <1>2 DEF control
<1> QED  BY <1>1, <1>3, <1>4, <1>5, <1>6, Around

\* An abort keeps the invariant.
LEMMA AbortStep ==
    ASSUME HarnessInv, Abort
    PROVE  HarnessInv'
<1>1. QueuesTyped /\ run \in [Runs -> Locals]  BY DEF HarnessInv, Types, QueuesTyped
<1>2. /\ UNCHANGED <<session, runPromise, pendingSessionWrites, nextTurnQueue, caller>>
      /\ steerQueue' = <<>> /\ followUpQueue' = <<>>
      /\ run' = [r \in Runs |-> [run[r] EXCEPT !.detached = run[r].at \in {"polled", "followed"}]]
  BY DEF Abort
<1>3. QueuesTyped'  BY <1>1, <1>2 DEF QueuesTyped
<1>4. CallerOK'  BY <1>2 DEF HarnessInv, CallerOK, MovedLast, session
<1>5. ASSUME NEW q \in Runs
      PROVE  /\ run'[q] \in Locals /\ run'[q].at = run[q].at /\ run'[q].todo = run[q].todo
             /\ run'[q].context = run[q].context
  <2> DEFINE b == run[q].at \in {"polled", "followed"}
  <2>1. b \in BOOLEAN  OBVIOUS
  <2>2. run'[q] = [run[q] EXCEPT !.detached = b]  BY <1>2
  <2> HIDE DEF b
  <2>3. run[q] \in Locals  BY <1>1
  <2> QED  BY <2>1, <2>2, <2>3 DEF Locals
<1>6. run' \in [Runs -> Locals]  BY <1>2, <1>5
<1> QED  BY <1>2, <1>3, <1>4, <1>5, <1>6, Around

\* A compaction or navigation that starts keeps the invariant.
LEMMA StructuralStep ==
    ASSUME HarnessInv, HarnessAssumption, ~ Reentrant,
           NEW operation \in {"compaction", "branch_summary"}, StartStructural(operation)
    PROVE  HarnessInv'
<1>1. QueuesTyped /\ run \in [Runs -> Locals]  BY DEF HarnessInv, Types, QueuesTyped
<1>2. /\ runPromise = Nobody /\ caller = "free" /\ caller' = operation
      /\ UNCHANGED <<session, runPromise, pendingSessionWrites, queues, run>>
  BY DEF StartStructural, Quiet
<1>3. QueuesTyped'  BY <1>1, <1>2 DEF QueuesTyped, queues
<1>4. CallerOK'  BY <1>2 DEF HarnessInv, CallerOK, MovedLast, session
<1> QED  BY <1>1, <1>2, <1>3, <1>4, Around

\* A call of prompt keeps the invariant.
LEMMA PromptStep ==
    ASSUME HarnessInv, HarnessAssumption, ~ Reentrant, NEW r \in Runs, NEW m \in Messages,
           Prompt(r, m)
    PROVE  HarnessInv'
<1> DEFINE x == run[r]
           y == [x EXCEPT !.at = "setup", !.todo = <<m>>]
<1>1. x \in Locals /\ run \in [Runs -> Locals] /\ QueuesTyped /\ Tree /\ Writes  BY Everything
<1>2. /\ runPromise = Nobody /\ caller = "free" /\ runPromise' = r
      /\ UNCHANGED <<session, pendingSessionWrites, queues, caller>>
      /\ run' = [run EXCEPT ![r] = y]
  BY <1>1 DEF Prompt, Quiet
<1>3. \A q \in Runs : ~ Awake(q) /\ run[q].todo = <<>> /\ write[q] = None  BY <1>2, AllAsleep
<1>4. write[Caller] = None  BY <1>2 DEF HarnessInv, CallerOK
<1>5. entries' = entries /\ leaf' = leaf /\ write' = write  BY <1>2 DEF session
<1>6. Tree'  BY <1>1, <1>5, SessionStays
<1>7. Writes'  BY <1>1, <1>5 DEF Writes
<1>8. y \in Locals /\ y.at = "setup"
  <2>1. <<m>> \in Seq(Messages) /\ "setup" \in Positions  BY DEF Positions
  <2> QED  BY <1>1, <2>1 DEF Locals
<1> HIDE DEF y
<1>9. run'[r] = y /\ \A q \in Runs \ {r} : run'[q] = run[q]  BY <1>1, <1>2
<1>10. Types'  BY <1>1, <1>2, <1>8 DEF Types, QueuesTyped, queues
<1>11. RunOK(r)'
  BY <1>2, <1>3, <1>5, <1>8, <1>9 DEF RunOK, Awake, At, Remembers, Reading, Holding
<1>12. \A t \in Tasks \ {r} : write[t] = None /\ write'[t] = None
  BY <1>3, <1>4, <1>5 DEF Tasks
<1> QED  BY <1>2, <1>3, <1>6, <1>7, <1>9, <1>10, <1>11, <1>12, Frame

\* What the caller does while every run is asleep.
LEMMA CallerFrame ==
    ASSUME HarnessInv, HarnessAssumption, runPromise = Nobody, run' = run,
           UNCHANGED <<pendingSessionWrites, queues>>,
           Tree', Writes', CallerOK', \A q \in Runs : write'[q] = write[q]
    PROVE  HarnessInv'
<1>1. \A q \in Runs : ~ Awake(q) /\ run[q].todo = <<>> /\ write[q] = None  BY AllAsleep
<1>2. ASSUME NEW q \in Runs PROVE RunOK(q)'  BY <1>1, Asleep DEF Awake
<1>3. Types'  BY DEF HarnessInv, Types, queues
<1> QED  BY <1>2, <1>3 DEF HarnessInv

\* While callers await each operation, the entry a summary hangs on is still the leaf.
LEMMA SummaryBegins ==
    ASSUME HarnessInv, Summarize
    PROVE  Begin(Caller, "message", "branch_summary", 0)
<1> DEFINE n == Len(entries)
           S == {i \in DOMAIN entries : entries[i].kind = "leaf"}
<1>1. entries \in Seq(Entries) /\ entries # <<>> /\ MovedLast
  BY DEF Summarize, HarnessInv, CallerOK, Tree, Forest
<1>2. n \in S /\ S \subseteq 1..n /\ n \in Nat  BY <1>1 DEF MovedLast
<1>3. Max(S) = CHOOSE x \in S : \A y \in S : x >= y  BY Zenon DEF Max
<1>4. \E x \in S : \A y \in S : x >= y  BY <1>2
<1>5. Max(S) \in S /\ \A y \in S : Max(S) >= y  BY <1>3, <1>4, Zenon
<1>6. Max(S) = n
  <2>1. Max(S) \in 1..n /\ Max(S) >= n  BY <1>2, <1>5, Zenon
  <2> HIDE DEF S
  <2> QED  BY <1>2, <2>1
<1>7. MovedTo = leaf  BY <1>1, <1>6 DEF MovedTo, MovedLast
<1> QED  BY <1>7 DEF Summarize, Begin

\* The caller begins an append.
LEMMA CallerBegins ==
    ASSUME HarnessInv, HarnessAssumption, SessionAssumption, runPromise = Nobody,
           NEW kind \in {"message", "compaction", "leaf"}, NEW item \in Items, item # "tool",
           NEW reference \in 0..Len(entries), Begin(Caller, kind, item, reference),
           run' = run, runPromise' = runPromise, UNCHANGED <<pendingSessionWrites, queues>>,
           caller' # "free", kind = "leaf" <=> caller' = "branch_summary",
           caller' = "summarizing" => caller = "summarizing"
    PROVE  HarnessInv'
<1> DEFINE e == Entry(kind, item, leaf, reference)
<1>1. Tree /\ Writes /\ write \in [Tasks -> Entries \cup {None}] /\ Caller \in Tasks
  BY DEF HarnessInv, Writes, Tasks
<1>2. Len(entries) \in Nat /\ leaf \in Nat /\ reference \in Nat /\ reference <= Len(entries)
  BY <1>1 DEF Tree, Forest
<1>3. e \in Entries /\ e.kind = kind /\ e.item = item /\ e.parent = leaf /\ e.reference = reference
  BY <1>2 DEF Entry, Entries
<1>4. write' = [write EXCEPT ![Caller] = e] /\ entries' = entries /\ leaf' = leaf  BY DEF Begin, BeginAt
<1> HIDE DEF e
<1>5. write'[Caller] = e /\ \A t \in Tasks \ {Caller} : write'[t] = write[t]  BY <1>1, <1>4
<1>6. Tree'  BY <1>1, <1>4, SessionStays
<1>7. Writes'
  <2>1. write' \in [Tasks -> Entries \cup {None}]  BY <1>1, <1>3, <1>4
  <2> QED  BY <1>1, <1>2, <1>3, <1>4, <1>5, <2>1 DEF Writes
<1>8. CallerOK'  BY <1>3, <1>4, <1>5 DEF CallerOK, MovedLast, HarnessInv
<1>9. \A q \in Runs : write'[q] = write[q]  BY <1>5 DEF Tasks, HarnessAssumption
<1> QED  BY <1>6, <1>7, <1>8, <1>9, CallerFrame

\* The caller's appends that begin keep the invariant.
LEMMA CallerBeginSteps ==
    ASSUME HarnessInv, HarnessAssumption, SessionAssumption, ~ Reentrant,
           (\E m \in Messages : AppendNow(m)) \/ Compact \/ NavigateTree \/ Summarize
    PROVE  HarnessInv'
<1>0. Tree /\ CallerOK /\ Branch \in Seq(1..Len(entries)) /\ Len(entries) \in Nat
  BY TreeReads DEF HarnessInv, Tree, Forest
<1>1. ASSUME NEW m \in Messages, AppendNow(m)  PROVE HarnessInv'
  <2>1. /\ runPromise = Nobody /\ caller' = "appending" /\ Begin(Caller, "message", m, 0)
        /\ run' = run /\ runPromise' = runPromise /\ UNCHANGED <<pendingSessionWrites, queues>>
    BY <1>1 DEF AppendNow, Quiet, control
  <2>2. m \in Items /\ m # "tool" /\ 0 \in 0..Len(entries)
    BY <1>0 DEF SessionAssumption, Items, OwnItems
  <2> QED  BY <2>1, <2>2, CallerBegins
<1>2. CASE Compact
  <2>1. PICK i \in ToSet(Branch) : Begin(Caller, "compaction", "none", i)  BY <1>2 DEF Compact
  <2>2. /\ caller = "compaction" /\ caller' = caller /\ run' = run
        /\ runPromise' = runPromise /\ UNCHANGED <<pendingSessionWrites, queues>>
    BY <1>2 DEF Compact, control
  <2>3. i \in 0..Len(entries)  BY <1>0, <2>1 DEF ToSet
  <2>4. "none" \in Items  BY DEF Items, OwnItems
  <2>5. runPromise = Nobody  BY <1>0, <2>2 DEF CallerOK
  <2> QED  BY <2>1, <2>2, <2>3, <2>4, <2>5, CallerBegins
<1>3. CASE NavigateTree
  <2>1. PICK i \in DOMAIN entries \ {leaf} :
           Begin(Caller, "leaf", "none", IF entries[i].item \in Messages THEN entries[i].parent ELSE i)
    BY <1>3 DEF NavigateTree
  <2>2. /\ caller = "branch_summary" /\ caller' = caller /\ run' = run
        /\ runPromise' = runPromise /\ UNCHANGED <<pendingSessionWrites, queues>>
    BY <1>3 DEF NavigateTree, control
  <2>3. i \in 1..Len(entries)  BY <1>0, <2>1 DEF Tree, Forest
  <2>4. entries[i].parent \in 0..(i - 1)  BY <1>0, <2>3, Parents DEF Tree
  <2>5. (IF entries[i].item \in Messages THEN entries[i].parent ELSE i) \in 0..Len(entries)
    BY <1>0, <2>3, <2>4
  <2>6. "none" \in Items  BY DEF Items, OwnItems
  <2>7. runPromise = Nobody  BY <1>0, <2>2 DEF CallerOK
  <2> QED  BY <2>1, <2>2, <2>5, <2>6, <2>7, CallerBegins
<1>4. CASE Summarize
  <2>1. /\ caller = "summarizing" /\ Begin(Caller, "message", "branch_summary", 0)
        /\ caller' = caller /\ run' = run
        /\ runPromise' = runPromise /\ UNCHANGED <<pendingSessionWrites, queues>>
    BY <1>4, SummaryBegins DEF Summarize, control
  <2>2. "branch_summary" \in Items /\ 0 \in 0..Len(entries)  BY <1>0 DEF Items, OwnItems
  <2>3. runPromise = Nobody  BY <1>0, <2>1 DEF CallerOK
  <2> QED  BY <2>1, <2>2, <2>3, CallerBegins
<1> QED  BY <1>1, <1>2, <1>3, <1>4

\* The caller's appends that land or fail keep the invariant.
LEMMA CallerEndSteps ==
    ASSUME HarnessInv, HarnessAssumption, CallerLands \/ CallerFails
    PROVE  HarnessInv'
<1>1. Tree /\ Writes /\ CallerOK /\ write \in [Tasks -> Entries \cup {None}] /\ Caller \in Tasks
  BY DEF HarnessInv, Writes, Tasks
<1>2. caller # "free" /\ runPromise = Nobody
  <2>1. write[Caller] # None \/ caller \in {"compaction", "branch_summary"}
    BY DEF CallerLands, CallerFails, Land, Miss
  <2> QED  BY <1>1, <2>1 DEF CallerOK
<1>3. /\ run' = run /\ runPromise' = runPromise /\ UNCHANGED <<pendingSessionWrites, queues>>
  BY DEF CallerLands, CallerFails, CallerEnds, control
<1>4. Tree'
  <2>1. CASE Land(Caller)
    <3>1. write[Caller] # None  BY <2>1 DEF Land
    <3>2. write[Caller].item # "tool"  BY <1>1, <3>1 DEF CallerOK
    <3> QED  BY <1>1, <2>1, <3>2, Landing
  <2>2. CASE UNCHANGED <<entries, leaf>>  BY <1>1, <2>2, SessionStays
  <2> QED  BY <2>1, <2>2 DEF CallerLands, CallerFails, Miss, session
<1>5. write'[Caller] = None /\ write' = [write EXCEPT ![Caller] = None]
  BY <1>1 DEF CallerLands, CallerFails, Land, Miss, session
<1>6. \A q \in Runs : write'[q] = write[q] /\ write[q] = None
  BY <1>1, <1>2, <1>5, AllAsleep DEF Tasks, HarnessAssumption
<1>7. Writes'
  <2>1. write' \in [Tasks -> Entries \cup {None}]  BY <1>1, <1>5
  <2> QED  BY <1>5, <1>6, <2>1 DEF Writes, Tasks
<1>8. CallerOK'
  <2>1. caller' # "summarizing" => CallerOK'  BY <1>2, <1>3, <1>5 DEF CallerOK
  <2>2. ASSUME caller' = "summarizing"  PROVE CallerOK'
    <3>1. CallerLands /\ caller = "branch_summary"
      BY <2>2 DEF CallerLands, CallerFails, CallerEnds
    <3>2. write[Caller] # None /\ write[Caller].kind = "leaf"
      BY <1>1, <3>1 DEF CallerLands, Land, CallerOK
    <3>3. /\ entries' = Append(entries, write[Caller]) /\ leaf' = write[Caller].reference
          /\ entries \in Seq(Entries) /\ write[Caller] \in Entries
      BY <1>1, <3>1, <3>2 DEF CallerLands, Land, Tree, Forest
    <3>4. entries' # <<>> /\ entries'[Len(entries')] = write[Caller]
      BY <3>3, AppendProperties
    <3> QED  BY <1>2, <1>3, <1>5, <3>2, <3>3, <3>4 DEF CallerOK, MovedLast
  <2> QED  BY <2>1, <2>2
<1> QED  BY <1>2, <1>3, <1>4, <1>6, <1>7, <1>8, CallerFrame
-----------------------------------------------------------------------------
(* The invariant, and what follows from it.                                  *)

\* The invariant holds at first.
LEMMA HarnessInit ==
    ASSUME HarnessAssumption, Init
    PROVE  HarnessInv
<1>1. /\ entries = <<>> /\ leaf = 0 /\ write = [t \in Tasks |-> None]
      /\ runPromise = Nobody /\ pendingSessionWrites = <<>>
      /\ steerQueue = <<>> /\ followUpQueue = <<>> /\ nextTurnQueue = <<>>
      /\ run = [r \in Runs |-> Idle("new")] /\ caller = "free"
  BY DEF Init, SessionInit
<1>2. Tree  BY <1>1 DEF Tree, Forest
<1>3. Writes  BY <1>1 DEF Writes
<1>4. Types
  <2>1. Idle("new") \in Locals
    <3>1. "new" \in Positions  BY DEF Positions
    <3> QED  BY <3>1, IdleTyped
  <2> QED  BY <1>1, <2>1 DEF Types
<1>5. ASSUME NEW q \in Runs  PROVE RunOK(q)
  <2>1. run[q] = Idle("new") /\ write[q] = None  BY <1>1 DEF Tasks
  <2>2. run[q].at = "new" /\ run[q].todo = <<>>  BY <2>1 DEF Idle
  <2> QED  BY <2>1, <2>2 DEF RunOK, Awake, At, Remembers, Reading, Holding
<1>6. CallerOK  BY <1>1 DEF CallerOK, Tasks
<1> QED  BY <1>2, <1>3, <1>4, <1>5, <1>6 DEF HarnessInv

\* Every step keeps the invariant.
LEMMA HarnessSteps ==
    ASSUME HarnessInv, HarnessAssumption, SessionAssumption, ~ Reentrant, [Next]_vars
    PROVE  HarnessInv'
<1>1. ASSUME NEW r \in Runs, Step(r)  PROVE HarnessInv'
  BY <1>1, QuietSteps, BeginStep, AppendStep, UnheardStep, MissStep DEF Step
<1>2. ASSUME UNCHANGED vars  PROVE HarnessInv'
  <2>1. /\ UNCHANGED session /\ runPromise' = runPromise /\ caller' = caller
        /\ run' = run /\ UNCHANGED <<pendingSessionWrites, queues>>
    BY <1>2 DEF vars, control
  <2>2. CallerOK' /\ QueuesTyped' /\ run' \in [Runs -> Locals]
    BY <2>1 DEF HarnessInv, CallerOK, MovedLast, Types, QueuesTyped, queues, session
  <2> QED  BY <2>1, <2>2, Around
<1> QED
  BY <1>1, <1>2, PromptStep, MessageSteps, AbortStep, StructuralStep, CallerBeginSteps,
     CallerEndSteps DEF Next

\* When callers await each operation before the next (the README of the package asks them to),
\* at most one of runs and caller is at work on the session, and each finds it as it left it.
LEMMA HarnessHolds == ~ Reentrant => (Spec => []HarnessInv)
<1> SUFFICES ASSUME ~ Reentrant  PROVE Spec => []HarnessInv  OBVIOUS
<1>1. Init => HarnessInv  BY HarnessInit, HarnessAssumption
<1>2. HarnessInv /\ [Next]_vars => HarnessInv'
  BY HarnessSteps, HarnessAssumption, SessionAssumption
<1> QED  BY <1>1, <1>2, PTL DEF Spec

\* What agent-loop.ts gathers in memory is, at each call of the Provider, what buildContext would
\* rebuild from the session, and no tool result is separated from its call: for any runs, messages,
\* turns and failures, as long as callers await each operation before the next one.
THEOREM ContextIsTheBranch == ~ Reentrant => (Spec => []ContextIsBranch)
<1> SUFFICES ASSUME ~ Reentrant  PROVE Spec => []ContextIsBranch  OBVIOUS
<1>1. Spec => []HarnessInv  BY HarnessHolds
<1>2. HarnessInv => ContextIsBranch
  BY DEF HarnessInv, RunOK, Remembers, Reading, Tree, ContextIsBranch, At
<1> QED  BY <1>1, <1>2, PTL

\* Who is at work on the session: a run between its prompt and its end, or the caller.
AtWork == {r \in Runs : Awake(r)} \cup (IF caller = "free" THEN {} ELSE {Caller})

\* There is one of them at most; no other appends, and what it appends hangs on the leaf.
OneAtWork ==
    /\ \A t, u \in AtWork : t = u
    /\ \A t \in Tasks : write[t] # None => t \in AtWork /\ write[t].parent = leaf

\* No append is lost to another one and no branch forks by accident: through prompts,
\* compactions, navigations and session writes one task at a time holds the session (phase and
\* runPromise), as long as callers await each operation before the next one.
THEOREM SessionHasOneWriter == ~ Reentrant => (Spec => []OneAtWork)
<1> SUFFICES ASSUME ~ Reentrant  PROVE Spec => []OneAtWork  OBVIOUS
<1>1. Spec => []HarnessInv  BY HarnessHolds
<1>2. ASSUME HarnessInv  PROVE OneAtWork
  <2>1. ASSUME NEW t \in AtWork, NEW u \in AtWork  PROVE t = u
    <3>1. \A r \in Runs : Awake(r) => runPromise = r /\ r # Nobody
      BY <1>2, HarnessAssumption DEF HarnessInv, RunOK
    <3>2. caller # "free" => runPromise = Nobody  BY <1>2 DEF HarnessInv, CallerOK
    <3> QED  BY <2>1, <3>1, <3>2 DEF AtWork
  <2>2. ASSUME NEW t \in Tasks, write[t] # None  PROVE t \in AtWork /\ write[t].parent = leaf
    <3>1. write[t].parent = leaf  BY <1>2, <2>2 DEF HarnessInv, Writes
    <3>2. CASE t \in Runs
      <4>1. run[t].at \in Writing  BY <1>2, <2>2, <3>2 DEF HarnessInv, RunOK, Appending
      <4>2. Awake(t)  BY <4>1 DEF Awake, Writing, Emitting, Flushing
      <4> QED  BY <3>1, <3>2, <4>2 DEF AtWork
    <3>3. CASE t = Caller
      BY <1>2, <2>2, <3>1, <3>3 DEF HarnessInv, CallerOK, AtWork
    <3> QED  BY <3>2, <3>3 DEF Tasks
  <2> QED  BY <2>1, <2>2 DEF OneAtWork
<1> QED  BY <1>1, <1>2, PTL

\* What the steps do to the session.
LEMMA FileSteps ==
    ASSUME [Next]_vars
    PROVE  UNCHANGED <<entries, leaf>> \/ \E t \in Tasks : Land(t)
<1>1. ASSUME NEW r \in Runs, Step(r), ~ UNCHANGED <<entries, leaf>>  PROVE Land(r) /\ r \in Tasks
  BY <1>1 DEF Step, CreateTurnState, TakeNextTurn, Announced, StartLoop, SetupFails, BeginAppend,
     AppendLands, LandedUnheard, AppendFails, Poll, PollFollowUp, Polled, PollFails, Send,
     ToolsAborted, TurnEnded, Prepared, Raises, AgentEnd, Settled, Returns, session, Begin, BeginAt, Miss, Tasks
<1>2. CallerLands => Land(Caller) /\ Caller \in Tasks  BY DEF CallerLands, Tasks
<1>3. UNCHANGED vars \/ CallerFails \/ Compact \/ NavigateTree \/ Summarize \/ Abort
        => UNCHANGED <<entries, leaf>>
  BY DEF vars, session, CallerFails, Compact, NavigateTree, Summarize, Abort, Begin, BeginAt, Miss
<1>4. ASSUME NEW m \in Messages,
             Steer(m) \/ FollowUp(m) \/ NextTurn(m) \/ Postpone(m) \/ AppendNow(m)
               \/ \E r \in Runs : Prompt(r, m)
      PROVE  UNCHANGED <<entries, leaf>>
  BY <1>4 DEF Steer, FollowUp, NextTurn, Postpone, AppendNow, Prompt, Begin, BeginAt, session
<1>5. ASSUME NEW operation, StartStructural(operation)  PROVE UNCHANGED <<entries, leaf>>
  BY <1>5 DEF StartStructural, session
<1> QED  BY <1>1, <1>2, <1>3, <1>4, <1>5 DEF Next

\* Only navigateTree takes entries out of the branch: appends of runs, flushes, setters and
\* compactions extend it, for any number of them, failed appends included.
THEOREM BranchOnlyGrows == ~ Reentrant => (Spec => BranchGrows)
<1> SUFFICES ASSUME ~ Reentrant  PROVE Spec => BranchGrows  OBVIOUS
<1>1. Spec => []HarnessInv  BY HarnessHolds
<1>2. ASSUME HarnessInv, [Next]_vars
      PROVE  IsPrefix(Branch, Branch') \/ caller = "branch_summary"
  <2>0. /\ Tree /\ Writes /\ Branch \in Seq(1..Len(entries)) /\ Len(entries) \in Nat
    BY <1>2, TreeReads DEF HarnessInv, Tree, Forest
  <2>1. CASE UNCHANGED <<entries, leaf>>
    <3>1. Branch' = Branch  BY <2>0, <2>1, SessionStays
    <3>2. IsPrefix(Branch, Branch)  BY <2>0 DEF IsPrefix
    <3> QED  BY <3>1, <3>2
  <2>2. ASSUME NEW t \in Tasks, Land(t), write[t].kind # "leaf"
        PROVE  IsPrefix(Branch, Branch')
    <3>1. Land(t) /\ write[t].kind # "leaf"  BY <2>2
    <3>2. write[t].item = "tool" => leaf # 0 /\ entries[leaf].item = "calls"
      BY <1>2, <3>1 DEF Land, HarnessInv, RunOK, Appending, CallerOK, Tasks
    <3>3. Branch' = Append(Branch, Len(entries) + 1)  BY <2>0, <3>1, <3>2, Landing
    <3> DEFINE n == Len(entries) + 1
               b == Branch
    <3>4. n \in 1..n /\ b \in Seq(1..n)  BY <2>0
    <3> HIDE DEF n, b
    <3>5. IsPrefix(b, Append(b, n))
      <4>1. /\ Append(b, n) = b \o <<n>> /\ <<n>> \in Seq(1..n)
            /\ Len(Append(b, n)) = Len(b) + 1 /\ Len(b) \in Nat
        BY <3>4, AppendIsConcat
      <4>2. SubSeq(Append(b, n), 1, Len(b)) = SubSeq(b, 1, Len(b))
        <5>1. CASE b = <<>>  BY <5>1, <4>1, SubSeqEmpty
        <5>2. CASE b # <<>>
          <6>1. 1 \in 1..Len(b) /\ Len(b) \in 1..Len(b)  BY <3>4, <5>2
          <6> QED  BY <3>4, <4>1, <6>1, SubSeqOfConcat1
        <5> QED  BY <5>1, <5>2
      <4> QED  BY <4>1, <4>2 DEF IsPrefix
    <3> QED  BY <3>3, <3>5 DEF n, b
  <2>3. ASSUME NEW t \in Tasks, Land(t), write[t].kind = "leaf"
        PROVE  caller = "branch_summary"
    <3>1. write[t] # None  BY <2>3 DEF Land
    <3> QED  BY <1>2, <2>3, <3>1 DEF HarnessInv, RunOK, Appending, CallerOK, Tasks
  <2> QED  BY <1>2, <2>1, <2>2, <2>3, FileSteps
<1> QED  BY <1>1, <1>2, PTL DEF Spec, BranchGrows

\* ReopenSameLeaf with the type that its proof needs.
LeafInv == ReopenSameLeaf /\ \E S : entries \in Seq(S)

\* The leaf in memory follows the last entry, whoever appends.
LEMMA LeafSteps ==
    ASSUME LeafInv, [Next]_vars
    PROVE  LeafInv'
<1>1. PICK S : entries \in Seq(S)  BY DEF LeafInv
<1>2. CASE UNCHANGED <<entries, leaf>>
  BY <1>2 DEF LeafInv, ReopenSameLeaf, leafIdAfterEntry
<1>3. ASSUME NEW t \in Tasks, Land(t)  PROVE LeafInv'
  <2> DEFINE e == write[t]
             T == S \cup {e}
             n == Len(entries) + 1
  <2>1. /\ entries' = Append(entries, e)
        /\ leaf' = IF e.kind = "leaf" THEN e.reference ELSE n
    BY <1>3 DEF Land
  <2>2. entries \in Seq(T) /\ e \in T  BY <1>1
  <2> HIDE DEF e, T
  <2>3. /\ entries' \in Seq(T) /\ entries' # <<>> /\ Len(entries') = n /\ entries'[n] = e
    BY <2>1, <2>2, AppendProperties
  <2>4. ReopenSameLeaf'
    BY <2>1, <2>3 DEF ReopenSameLeaf, leafIdAfterEntry
  <2> QED  BY <2>3, <2>4 DEF LeafInv
<1> QED  BY <1>2, <1>3, FileSteps

\* A session that is opened again from its file has the leaf that memory had
\* (leafIdAfterEntry replayed over the file): whoever appends, and whether callers await or not.
THEOREM ReopensAtTheSameLeaf == Spec => []ReopenSameLeaf
<1>1. Init => LeafInv
  <2>1. ASSUME Init  PROVE entries = <<>> /\ leaf = 0  BY <2>1 DEF Init, SessionInit
  <2>2. <<>> \in Seq({})  OBVIOUS
  <2> QED  BY <2>1, <2>2 DEF LeafInv, ReopenSameLeaf
<1>2. LeafInv /\ [Next]_vars => LeafInv'  BY LeafSteps
<1>3. LeafInv => ReopenSameLeaf  BY DEF LeafInv
<1> QED  BY <1>1, <1>2, <1>3, PTL DEF Spec
-----------------------------------------------------------------------------
(* Sequences that exchange items.                                            *)

\* No message is in two places of H, or in one and in U.
Once(H, U) ==
    \A a, b \in Holders : \A i \in 1..Len(H[a]), j \in 1..Len(H[b]) :
        H[a][i] \in Messages =>
            /\ H[a][i] \notin U
            /\ H[a][i] = H[b][j] => a = b /\ i = j

\* Every message is somewhere.
Kept(H, U) ==
    \A m \in Messages \ U : \E a \in Holders : \E i \in 1..Len(H[a]) : H[a][i] = m

\* Everybody holds a sequence of items.
AllSeq(H) == \A a \in Holders : H[a] \in Seq(Items)

\* A message leaves U for the end of one sequence.
LEMMA PutLast ==
    ASSUME NEW H, NEW K, NEW U, AllSeq(H), Once(H, U), NEW a \in Holders, NEW m \in U, m \in Messages,
           K[a] = Append(H[a], m), \A b \in Holders \ {a} : K[b] = H[b]
    PROVE  Once(K, U \ {m}) /\ (Kept(H, U) => Kept(K, U \ {m}))
<1>1. H[a] \in Seq(Items) /\ Len(H[a]) \in Nat /\ m \in Items  BY DEF AllSeq, Items
<1>2. /\ Len(K[a]) = Len(H[a]) + 1 /\ K[a][Len(H[a]) + 1] = m
      /\ \A i \in 1..Len(H[a]) : K[a][i] = H[a][i]
  BY <1>1, AppendProperties
<1>3. ASSUME NEW b \in Holders, NEW j \in 1..Len(K[b])
      PROVE  (b = a /\ j = Len(H[a]) + 1 /\ K[b][j] = m) \/ (j \in 1..Len(H[b]) /\ K[b][j] = H[b][j])
  <2>1. CASE b # a
    <3>1. K[b] = H[b]  BY <2>1
    <3> QED  BY <1>3, <3>1
  <2>2. CASE b = a
    <3>1. j \in 1..Len(H[a]) + 1  BY <1>2, <1>3, <2>2
    <3>2. j \in 1..Len(H[a]) \/ j = Len(H[a]) + 1  BY <1>1, <3>1
    <3> QED  BY <1>2, <2>2, <3>2
  <2> QED  BY <2>1, <2>2
<1>4. \A b \in Holders : \A j \in 1..Len(H[b]) : H[b][j] # m  BY DEF Once
<1>5. Once(K, U \ {m})
  <2> SUFFICES ASSUME NEW b \in Holders, NEW c \in Holders, NEW i \in 1..Len(K[b]),
                      NEW j \in 1..Len(K[c]), K[b][i] \in Messages
               PROVE  /\ K[b][i] \notin U \ {m}
                      /\ K[b][i] = K[c][j] => b = c /\ i = j
    BY DEF Once
  <2>1. (b = a /\ i = Len(H[a]) + 1 /\ K[b][i] = m) \/ (i \in 1..Len(H[b]) /\ K[b][i] = H[b][i])
    BY <1>3
  <2>2. (c = a /\ j = Len(H[a]) + 1 /\ K[c][j] = m) \/ (j \in 1..Len(H[c]) /\ K[c][j] = H[c][j])
    BY <1>3
  <2>3. CASE b = a /\ i = Len(H[a]) + 1 /\ K[b][i] = m
    <3>1. K[c][j] = m => c = a /\ j = Len(H[a]) + 1  BY <1>4, <2>2, Zenon
    <3> QED  BY <2>3, <3>1, Zenon
  <2>4. CASE i \in 1..Len(H[b]) /\ K[b][i] = H[b][i]
    <3>1. H[b][i] \notin U /\ H[b][i] # m  BY <1>4, <2>4 DEF Once
    <3>2. CASE K[c][j] = m  BY <2>4, <3>1, <3>2
    <3>3. CASE j \in 1..Len(H[c]) /\ K[c][j] = H[c][j]  BY <2>4, <3>1, <3>3 DEF Once
    <3> QED  BY <2>2, <3>2, <3>3
  <2> QED  BY <2>1, <2>3, <2>4
<1>6. ASSUME Kept(H, U)  PROVE Kept(K, U \ {m})
  <2> SUFFICES ASSUME NEW x \in Messages, x \notin U \ {m}
               PROVE  \E b \in Holders : \E i \in 1..Len(K[b]) : K[b][i] = x
    BY DEF Kept
  <2>1. CASE x = m  BY <2>1, <1>1, <1>2
  <2>2. CASE x # m
    <3>1a. PICK b \in Holders : \E i \in 1..Len(H[b]) : H[b][i] = x  BY <1>6, <2>2 DEF Kept
    <3>1. PICK i \in 1..Len(H[b]) : H[b][i] = x  BY <3>1a
    <3>2. i \in 1..Len(K[b]) /\ K[b][i] = x  BY <1>1, <1>2, <3>1
    <3> QED  BY <3>2
  <2> QED  BY <2>1, <2>2
<1> QED  BY <1>5, <1>6

\* The first of one sequence becomes the last of another.
LEMMA MoveHead ==
    ASSUME NEW H, NEW K, NEW U, AllSeq(H), Once(H, U), NEW a \in Holders, NEW b \in Holders, a # b,
           H[a] # <<>>, K[a] = Tail(H[a]), K[b] = Append(H[b], Head(H[a])),
           \A c \in Holders \ {a, b} : K[c] = H[c]
    PROVE  Once(K, U) /\ (Kept(H, U) => Kept(K, U))
<1>1. /\ H[a] \in Seq(Items) /\ Len(H[a]) \in Nat /\ H[b] \in Seq(Items) /\ Len(H[b]) \in Nat
      /\ H[a][1] = Head(H[a]) /\ Head(H[a]) \in Items /\ 1 \in 1..Len(H[a])
  BY DEF AllSeq
<1>2. /\ Len(K[b]) = Len(H[b]) + 1 /\ K[b][Len(H[b]) + 1] = Head(H[a])
      /\ \A i \in 1..Len(H[b]) : K[b][i] = H[b][i]
  BY <1>1, AppendProperties
<1>3. Len(K[a]) = Len(H[a]) - 1 /\ \A i \in 1..Len(K[a]) : K[a][i] = H[a][i + 1]
  BY <1>1, HeadTailProperties
\* Where what is at a place of K was in H.
<1> DEFINE Was(c, j, d, k) == IF c = a THEN d = a /\ k = j + 1
                              ELSE IF c = b /\ j = Len(H[b]) + 1 THEN d = a /\ k = 1
                              ELSE d = c /\ k = j
<1>4. ASSUME NEW c \in Holders, NEW j \in 1..Len(K[c])
      PROVE  \E d \in Holders : \E k \in 1..Len(H[d]) : Was(c, j, d, k) /\ H[d][k] = K[c][j]
  <2>1. CASE c = a
    <3>0. Len(K[a]) = Len(H[a]) - 1 /\ j \in 1..Len(K[a])  BY <1>3, <2>1
    <3> DEFINE n == Len(H[a])
               p == Len(K[a])
    <3>01. n \in Nat /\ p = n - 1 /\ j \in 1..p  BY <1>1, <3>0
    <3> HIDE DEF n, p
    <3>02. j + 1 \in 1..n  BY <3>01
    <3>1. j + 1 \in 1..Len(H[a])  BY <3>02 DEF n
    <3> QED  BY <1>3, <2>1, <3>1
  <2>2. CASE c = b /\ j = Len(H[b]) + 1
    <3>1. Was(c, j, a, 1) /\ H[a][1] = K[c][j]  BY <2>2, <1>1, <1>2
    <3> QED  BY <3>1, <1>1
  <2>3. CASE c = b /\ j # Len(H[b]) + 1
    <3>1. j \in 1..Len(H[c])  BY <1>1, <1>2, <2>3
    <3> QED  BY <1>2, <2>3, <3>1
  <2>4. CASE c \notin {a, b}  BY <2>4
  <2> QED  BY <2>1, <2>2, <2>3, <2>4
<1>5. ASSUME NEW c \in Holders, NEW j \in 1..Len(K[c]), NEW e \in Holders, NEW l \in 1..Len(K[e]),
             NEW d, NEW k, Was(c, j, d, k), Was(e, l, d, k)
      PROVE  c = e /\ j = l
  <2>1. CASE c = a /\ e = a  BY <1>5, <2>1, <1>1, <1>3
  <2>2. CASE c = a /\ e # a
    <3>1. d = a /\ k = j + 1  BY <1>5, <2>2
    <3>2. j + 1 # 1  BY <1>1, <1>3, <2>2
    <3> QED  BY <1>5, <2>2, <3>1, <3>2
  <2>3. CASE c # a /\ e = a
    <3>1. d = a /\ k = l + 1  BY <1>5, <2>3
    <3>2. l + 1 # 1  BY <1>1, <1>3, <2>3
    <3> QED  BY <1>5, <2>3, <3>1, <3>2
  <2>4. CASE c # a /\ e # a  BY <1>5, <2>4
  <2> QED  BY <2>1, <2>2, <2>3, <2>4
<1>6. Once(K, U)
  <2> SUFFICES ASSUME NEW c \in Holders, NEW e \in Holders, NEW j \in 1..Len(K[c]),
                      NEW l \in 1..Len(K[e]), K[c][j] \in Messages
               PROVE  /\ K[c][j] \notin U
                      /\ K[c][j] = K[e][l] => c = e /\ j = l
    BY DEF Once
  <2> HIDE DEF Was
  <2>1. PICK d \in Holders : \E k \in 1..Len(H[d]) : Was(c, j, d, k) /\ H[d][k] = K[c][j]  BY <1>4
  <2>2. PICK k \in 1..Len(H[d]) : Was(c, j, d, k) /\ H[d][k] = K[c][j]  BY <2>1
  <2>3. PICK f \in Holders : \E n \in 1..Len(H[f]) : Was(e, l, f, n) /\ H[f][n] = K[e][l]  BY <1>4
  <2>4. PICK n \in 1..Len(H[f]) : Was(e, l, f, n) /\ H[f][n] = K[e][l]  BY <2>3
  <2>5. K[c][j] \notin U  BY <2>2 DEF Once
  <2>6. K[c][j] = K[e][l] => d = f /\ k = n  BY <2>2, <2>4 DEF Once
  <2> QED  BY <1>5, <2>2, <2>4, <2>5, <2>6
<1>7. ASSUME Kept(H, U)  PROVE Kept(K, U)
  <2> SUFFICES ASSUME NEW x \in Messages, x \notin U
               PROVE  \E c \in Holders : \E i \in 1..Len(K[c]) : K[c][i] = x
    BY DEF Kept
  <2>1a. PICK c \in Holders : \E i \in 1..Len(H[c]) : H[c][i] = x  BY <1>7 DEF Kept
  <2>1. PICK i \in 1..Len(H[c]) : H[c][i] = x  BY <2>1a
  <2>2. CASE c = a /\ i = 1  BY <2>1, <2>2, <1>1, <1>2
  <2>3. CASE c = a /\ i # 1
    <3>1. i - 1 \in 1..Len(K[a]) /\ (i - 1) + 1 = i  BY <2>1, <2>3, <1>1, <1>3
    <3>2. K[a][i - 1] = x  BY <3>1, <2>1, <2>3, <1>3
    <3> QED  BY <3>1, <3>2
  <2>4. CASE c = b
    <3>1. i \in 1..Len(K[b]) /\ K[b][i] = x  BY <2>1, <2>4, <1>1, <1>2
    <3> QED  BY <3>1
  <2>5. CASE c \notin {a, b}  BY <2>1, <2>5
  <2> QED  BY <2>2, <2>3, <2>4, <2>5
<1> QED  BY <1>6, <1>7

\* A whole sequence is put before another.
LEMMA MoveAll ==
    ASSUME NEW H, NEW K, NEW U, AllSeq(H), Once(H, U), NEW a \in Holders, NEW b \in Holders, a # b,
           K[a] = <<>>, K[b] = H[a] \o H[b], \A c \in Holders \ {a, b} : K[c] = H[c]
    PROVE  Once(K, U) /\ (Kept(H, U) => Kept(K, U))
<1>1. /\ H[a] \in Seq(Items) /\ Len(H[a]) \in Nat /\ H[b] \in Seq(Items) /\ Len(H[b]) \in Nat
      /\ Len(K[a]) = 0
  BY DEF AllSeq
<1>2. /\ Len(K[b]) = Len(H[a]) + Len(H[b])
      /\ \A i \in 1..(Len(H[a]) + Len(H[b])) :
            K[b][i] = IF i <= Len(H[a]) THEN H[a][i] ELSE H[b][i - Len(H[a])]
  <2> DEFINE s == H[a]
             u == H[b]
  <2>1. s \in Seq(Items) /\ u \in Seq(Items)  BY <1>1
  <2> HIDE DEF s, u
  <2>2. /\ Len(s \o u) = Len(s) + Len(u)
        /\ \A i \in 1..(Len(s) + Len(u)) :
              (s \o u)[i] = IF i <= Len(s) THEN s[i] ELSE u[i - Len(s)]
    BY <2>1, ConcatProperties
  <2>3. K[b] = s \o u  BY DEF s, u
  <2> QED  BY <2>2, <2>3 DEF s, u
<1> DEFINE Was(c, j, d, k) == IF c = b THEN IF j <= Len(H[a]) THEN d = a /\ k = j
                                            ELSE d = b /\ k = j - Len(H[a])
                              ELSE d = c /\ k = j
<1>4. ASSUME NEW c \in Holders, NEW j \in 1..Len(K[c])
      PROVE  \E d \in Holders : \E k \in 1..Len(H[d]) : Was(c, j, d, k) /\ H[d][k] = K[c][j]
  <2>1. CASE c = b /\ j <= Len(H[a])
    <3>1. j \in 1..Len(H[a]) /\ K[c][j] = H[a][j]  BY <1>1, <1>2, <2>1
    <3> QED  BY <2>1, <3>1
  <2>2. CASE c = b /\ ~ (j <= Len(H[a]))
    <3> DEFINE n == Len(H[a])
               p == Len(H[b])
    <3>2. n \in Nat /\ p \in Nat /\ j \in 1..(n + p) /\ ~ (j <= n)  BY <1>1, <1>2, <2>2
    <3>3. \A i \in 1..(n + p) : K[b][i] = IF i <= n THEN H[a][i] ELSE H[b][i - n]  BY <1>2
    <3> HIDE DEF n, p
    <3>4. j - n \in 1..p  BY <3>2
    <3>5. K[c][j] = H[b][j - n]  BY <2>2, <3>2, <3>3
    <3>1. j - Len(H[a]) \in 1..Len(H[b]) /\ K[c][j] = H[b][j - Len(H[a])]  BY <3>4, <3>5 DEF n, p
    <3> QED  BY <2>2, <3>1
  <2>3. CASE c = a  BY <2>3, <1>1
  <2>4. CASE c \notin {a, b}  BY <2>4
  <2> QED  BY <2>1, <2>2, <2>3, <2>4
<1>5. ASSUME NEW c \in Holders, NEW j \in 1..Len(K[c]), NEW e \in Holders, NEW l \in 1..Len(K[e]),
             NEW d, NEW k, Was(c, j, d, k), Was(e, l, d, k)
      PROVE  c = e /\ j = l
  <2>1. c # a /\ e # a  BY <1>1
  <2>2. CASE c = b /\ e = b  
    <3>1. j \in 1..(Len(H[a]) + Len(H[b])) /\ l \in 1..(Len(H[a]) + Len(H[b]))  BY <2>2, <1>2
    <3> QED  BY <1>5, <2>2, <3>1, <1>1
  <2>3. CASE c = b /\ e # b  BY <1>5, <2>1, <2>3
  <2>4. CASE c # b /\ e = b  BY <1>5, <2>1, <2>4
  <2>5. CASE c # b /\ e # b  BY <1>5, <2>5
  <2> QED  BY <2>2, <2>3, <2>4, <2>5
<1>6. Once(K, U)
  <2> SUFFICES ASSUME NEW c \in Holders, NEW e \in Holders, NEW j \in 1..Len(K[c]),
                      NEW l \in 1..Len(K[e]), K[c][j] \in Messages
               PROVE  /\ K[c][j] \notin U
                      /\ K[c][j] = K[e][l] => c = e /\ j = l
    BY DEF Once
  <2> HIDE DEF Was
  <2>1. PICK d \in Holders : \E k \in 1..Len(H[d]) : Was(c, j, d, k) /\ H[d][k] = K[c][j]  BY <1>4
  <2>2. PICK k \in 1..Len(H[d]) : Was(c, j, d, k) /\ H[d][k] = K[c][j]  BY <2>1
  <2>3. PICK f \in Holders : \E n \in 1..Len(H[f]) : Was(e, l, f, n) /\ H[f][n] = K[e][l]  BY <1>4
  <2>4. PICK n \in 1..Len(H[f]) : Was(e, l, f, n) /\ H[f][n] = K[e][l]  BY <2>3
  <2>5. K[c][j] \notin U  BY <2>2 DEF Once
  <2>6. K[c][j] = K[e][l] => d = f /\ k = n  BY <2>2, <2>4 DEF Once
  <2> QED  BY <1>5, <2>2, <2>4, <2>5, <2>6
<1>7. ASSUME Kept(H, U)  PROVE Kept(K, U)
  <2> SUFFICES ASSUME NEW x \in Messages, x \notin U
               PROVE  \E c \in Holders : \E i \in 1..Len(K[c]) : K[c][i] = x
    BY DEF Kept
  <2>1a. PICK c \in Holders : \E i \in 1..Len(H[c]) : H[c][i] = x  BY <1>7 DEF Kept
  <2>1. PICK i \in 1..Len(H[c]) : H[c][i] = x  BY <2>1a
  <2>2. CASE c = a
    <3> DEFINE n == Len(H[a])
               p == Len(H[b])
    <3>2. n \in Nat /\ p \in Nat /\ i \in 1..n /\ Len(K[b]) = n + p  BY <1>1, <1>2, <2>1, <2>2
    <3>3. \A k \in 1..(n + p) : K[b][k] = IF k <= n THEN H[a][k] ELSE H[b][k - n]  BY <1>2
    <3> HIDE DEF n, p
    <3>4. i \in 1..(n + p) /\ i <= n  BY <3>2
    <3>1. i \in 1..Len(K[b]) /\ K[b][i] = x  BY <3>2, <3>3, <3>4, <2>1, <2>2
    <3> QED  BY <3>1
  <2>3. CASE c = b
    <3>1. i + Len(H[a]) \in 1..Len(K[b]) /\ ~ (i + Len(H[a]) <= Len(H[a]))
          /\ (i + Len(H[a])) - Len(H[a]) = i
      <4> DEFINE n == Len(H[a])
                 p == Len(H[b])
      <4>1. n \in Nat /\ p \in Nat /\ i \in 1..p /\ Len(K[b]) = n + p  BY <1>1, <1>2, <2>1, <2>3
      <4> HIDE DEF n, p
      <4>2. i + n \in 1..(n + p) /\ ~ (i + n <= n) /\ (i + n) - n = i  BY <4>1
      <4> QED  BY <4>1, <4>2 DEF n
    <3>2. K[b][i + Len(H[a])] = x  BY <3>1, <2>1, <2>3, <1>2
    <3> QED  BY <3>1, <3>2
  <2>4. CASE c \notin {a, b}  BY <2>1, <2>4
  <2> QED  BY <2>2, <2>3, <2>4
<1> QED  BY <1>6, <1>7

\* Sequences lose their ends.
LEMMA Cut ==
    ASSUME NEW H, NEW K, NEW U, Once(H, U),
           \A c \in Holders : \A i \in 1..Len(K[c]) : i \in 1..Len(H[c]) /\ K[c][i] = H[c][i]
    PROVE  Once(K, U)
BY DEF Once

\* Something that is no message is put at the end of a sequence.
LEMMA PutOther ==
    ASSUME NEW H, NEW K, NEW U, AllSeq(H), Once(H, U), NEW a \in Holders, NEW e \in Items \ Messages,
           K[a] = Append(H[a], e), \A c \in Holders \ {a} : K[c] = H[c]
    PROVE  Once(K, U) /\ (Kept(H, U) => Kept(K, U))
<1>1. H[a] \in Seq(Items) /\ Len(H[a]) \in Nat  BY DEF AllSeq
<1>2. /\ Len(K[a]) = Len(H[a]) + 1 /\ K[a][Len(H[a]) + 1] = e
      /\ \A i \in 1..Len(H[a]) : K[a][i] = H[a][i]
  BY <1>1, AppendProperties
<1>3. ASSUME NEW b \in Holders, NEW j \in 1..Len(K[b])
      PROVE  K[b][j] \in Messages => j \in 1..Len(H[b]) /\ K[b][j] = H[b][j]
  BY <1>1, <1>2, SMTT(15)
<1>4. \A b \in Holders : \A j \in 1..Len(H[b]) : j \in 1..Len(K[b]) /\ K[b][j] = H[b][j]
  BY <1>1, <1>2
<1>5. Once(K, U)  BY <1>3 DEF Once
<1>6. Kept(H, U) => Kept(K, U)  BY <1>4 DEF Kept
<1> QED  BY <1>5, <1>6

\* Two sequences are handed back.
LEMMA HandBack ==
    ASSUME NEW H, NEW K, NEW U, AllSeq(H), Once(H, U), NEW a \in Holders, NEW b \in Holders,
           K[a] = <<>>, K[b] = <<>>, \A c \in Holders \ {a, b} : K[c] = H[c]
    PROVE  LET V == U \cup ToSet(H[a]) \cup ToSet(H[b])
           IN  Once(K, V) /\ (Kept(H, U) => Kept(K, V))
<1> DEFINE V == U \cup ToSet(H[a]) \cup ToSet(H[b])
<1>1. Len(K[a]) = 0 /\ Len(K[b]) = 0  OBVIOUS
<1>2. /\ ToSet(H[a]) = {H[a][i] : i \in 1..Len(H[a])}
      /\ ToSet(H[b]) = {H[b][i] : i \in 1..Len(H[b])}
  BY DEF AllSeq, ToSet
<1>3. Once(K, V)
  <2> SUFFICES ASSUME NEW c \in Holders, NEW e \in Holders, NEW j \in 1..Len(K[c]),
                      NEW l \in 1..Len(K[e]), K[c][j] \in Messages
               PROVE  /\ K[c][j] \notin V
                      /\ K[c][j] = K[e][l] => c = e /\ j = l
    BY DEF Once
  <2>1. c \notin {a, b} /\ e \notin {a, b}  BY <1>1
  <2>2. j \in 1..Len(H[c]) /\ K[c][j] = H[c][j] /\ l \in 1..Len(H[e]) /\ K[e][l] = H[e][l]
    BY <2>1
  <2>3. \A i \in 1..Len(H[a]) : H[c][j] # H[a][i]  BY <2>1, <2>2 DEF Once
  <2>4. \A i \in 1..Len(H[b]) : H[c][j] # H[b][i]  BY <2>1, <2>2 DEF Once
  <2>5. K[c][j] \notin V  BY <1>2, <2>2, <2>3, <2>4 DEF Once
  <2> QED  BY <2>2, <2>5 DEF Once
<1>4. ASSUME Kept(H, U)  PROVE Kept(K, V)
  <2> SUFFICES ASSUME NEW x \in Messages, x \notin V
               PROVE  \E c \in Holders : \E i \in 1..Len(K[c]) : K[c][i] = x
    BY DEF Kept
  <2>1a. PICK c \in Holders : \E i \in 1..Len(H[c]) : H[c][i] = x  BY <1>4 DEF Kept
  <2>1. PICK i \in 1..Len(H[c]) : H[c][i] = x  BY <2>1a
  <2>2. c \notin {a, b}  BY <1>2, <2>1
  <2> QED  BY <2>1, <2>2
<1> QED  BY <1>3, <1>4
-----------------------------------------------------------------------------
(* Messages of the harness.                                                  *)

\* What the file holds, and what the caller is appending.
HeldItems(es) == [i \in 1..Len(es) |-> es[i].item]
InHand == IF write[Caller] = None THEN <<>> ELSE <<write[Caller].item>>

\* What each holder holds.
LEMMA HeldIs ==
    ASSUME HarnessAssumption
    PROVE  /\ Held["steering"] = steerQueue /\ Held["followUp"] = followUpQueue
           /\ Held["nextTurn"] = nextTurnQueue /\ Held["postponed"] = pendingSessionWrites
           /\ Held["caller"] = InHand /\ Held["session"] = HeldItems(entries)
           /\ \A r \in Runs : Held[r] = run[r].todo
<1>1. \A r \in Runs : r \in Holders /\ r \notin Elsewhere  BY DEF HarnessAssumption, Holders
<1>2. \A r \in Runs : Held[r] = run[r].todo  BY <1>1 DEF Held, Elsewhere
<1> QED  BY <1>2 DEF Held, Holders, Elsewhere, InHand, HeldItems

\* ... and holds next.
LEMMA HeldIsNext ==
    ASSUME HarnessAssumption
    PROVE  /\ Held'["steering"] = steerQueue' /\ Held'["followUp"] = followUpQueue'
           /\ Held'["nextTurn"] = nextTurnQueue' /\ Held'["postponed"] = pendingSessionWrites'
           /\ Held'["caller"] = InHand' /\ Held'["session"] = HeldItems(entries')
           /\ \A r \in Runs : Held'[r] = run'[r].todo
<1>1. \A r \in Runs : r \in Holders /\ r \notin Elsewhere  BY DEF HarnessAssumption, Holders
<1>2. \A r \in Runs : Held'[r] = run'[r].todo  BY <1>1 DEF Held, Elsewhere
<1> QED  BY <1>2 DEF Held, Holders, Elsewhere, InHand, HeldItems

\* The holders are different.
LEMMA HoldersAre ==
    /\ {"steering", "followUp", "nextTurn", "postponed", "caller", "session"} \subseteq Holders
    /\ Runs \subseteq Holders
    /\ \A c \in Holders : c \in Runs \/ c \in {"steering", "followUp", "nextTurn", "postponed", "caller", "session"}
BY DEF Holders, Elsewhere

\* An entry at the end of the file has its item at the end of the items.
LEMMA ItemsAppended ==
    ASSUME NEW es \in Seq(Entries), NEW e \in Entries
    PROVE  HeldItems(es) \in Seq(Items) /\ HeldItems(Append(es, e)) = Append(HeldItems(es), e.item)
<1>1. Len(es) \in Nat /\ e.item \in Items /\ \A i \in 1..Len(es) : es[i].item \in Items
  <2>1. \A i \in 1..Len(es) : es[i] \in Entries  OBVIOUS
  <2>2. \A d \in Entries : d.item \in Items  BY DEF Entries
  <2> QED  BY <2>1, <2>2
<1> DEFINE a == HeldItems(Append(es, e))
           b == Append(HeldItems(es), e.item)
<1>2. HeldItems(es) \in Seq(Items) /\ Len(HeldItems(es)) = Len(es)  BY <1>1 DEF HeldItems
<1>3. /\ Len(Append(es, e)) = Len(es) + 1 /\ Append(es, e)[Len(es) + 1] = e
      /\ \A i \in 1..Len(es) : Append(es, e)[i] = es[i]
  BY AppendProperties
<1>4. a \in Seq(Items) /\ Len(a) = Len(es) + 1 /\ \A i \in 1..(Len(es) + 1) : a[i] = Append(es, e)[i].item
  <2>1. \A i \in 1..(Len(es) + 1) : Append(es, e)[i].item \in Items
    <3> TAKE i \in 1..(Len(es) + 1)
    <3>1. i \in 1..Len(es) \/ i = Len(es) + 1  BY <1>1
    <3> QED  BY <1>1, <1>3, <3>1
  <2>2. a = [i \in 1..(Len(es) + 1) |-> Append(es, e)[i].item]  BY <1>3 DEF HeldItems
  <2> QED  BY <1>1, <2>1, <2>2
<1>5. /\ b \in Seq(Items) /\ Len(b) = Len(es) + 1 /\ b[Len(es) + 1] = e.item
      /\ \A i \in 1..Len(es) : b[i] = es[i].item
  <2>1. \A i \in 1..Len(es) : HeldItems(es)[i] = es[i].item  BY DEF HeldItems
  <2> QED  BY <1>1, <1>2, <2>1, AppendProperties
<1>6. \A i \in 1..Len(a) : a[i] = b[i]
  <2> SUFFICES ASSUME NEW i \in 1..(Len(es) + 1)  PROVE a[i] = b[i]  BY <1>4
  <2> HIDE DEF a, b
  <2>1. CASE i \in 1..Len(es)  BY <2>1, <1>3, <1>4, <1>5
  <2>2. CASE i = Len(es) + 1  BY <2>2, <1>3, <1>4, <1>5
  <2> QED  BY <2>1, <2>2, <1>1
<1>7. a = b
  <2> HIDE DEF a, b
  <2> QED  BY <1>4, <1>5, <1>6, SeqEqual
<1> QED  BY <1>2, <1>7

\* Everybody holds a sequence.
LEMMA HeldTyped ==
    ASSUME HarnessInv, HarnessAssumption
    PROVE  AllSeq(Held)
<1>1. \A r \in Runs : Held[r] \in Seq(Items)
  <2>1. \A r \in Runs : run[r].todo \in Seq(Messages)  BY Everything
  <2> QED  BY <2>1, HeldIs DEF Items
<1>2. /\ steerQueue \in Seq(Items) /\ followUpQueue \in Seq(Items)
      /\ nextTurnQueue \in Seq(Items) /\ pendingSessionWrites \in Seq(Items)
  BY DEF HarnessInv, Types, Items
<1>3. InHand \in Seq(Items)
  <2>1. write[Caller] = None \/ write[Caller].item \in Items
    BY DEF HarnessInv, Writes, Tasks, Entries
  <2> QED  BY <2>1 DEF InHand
<1>4. HeldItems(entries) \in Seq(Items)
  <2>1. Len(entries) \in Nat /\ \A i \in 1..Len(entries) : entries[i].item \in Items
    BY Parents DEF HarnessInv, Tree, Forest
  <2> QED  BY <2>1 DEF HeldItems
<1> QED  BY <1>1, <1>2, <1>3, <1>4, HeldIs, HoldersAre DEF AllSeq

\* The inductive form of DeliveredOnce.
Delivered ==
    /\ Once(Held, unused)
    /\ faults \in Nat
    /\ faults = 0 => Kept(Held, unused)

\* A step that moves no message keeps it.
LEMMA SameHeld ==
    ASSUME Delivered, unused' = unused, faults' = faults, \A c \in Holders : Held'[c] = Held[c]
    PROVE  Delivered'
<1>1. Once(Held', unused)  BY DEF Delivered, Once
<1>2. Kept(Held, unused) => Kept(Held', unused)  BY DEF Kept
<1> QED  BY <1>1, <1>2 DEF Delivered

\* A step that fails may lose messages, never double them.
LEMMA FaultyCut ==
    ASSUME Delivered, unused' = unused, Fault,
           \A c \in Holders : Held'[c] = Held[c] \/ Held'[c] = <<>>
    PROVE  Delivered'
<1>1. \A c \in Holders : \A i \in 1..Len(Held'[c]) : i \in 1..Len(Held[c]) /\ Held'[c][i] = Held[c][i]
  <2> TAKE c \in Holders
  <2>1. CASE Held'[c] = <<>>
    <3>1. Len(Held'[c]) = 0  BY <2>1
    <3> QED  BY <3>1
  <2> QED  BY <2>1
<1>2. Once(Held', unused)  BY <1>1, Cut DEF Delivered
<1>3. faults' \in Nat /\ faults' # 0  BY DEF Delivered, Fault
<1> QED  BY <1>2, <1>3 DEF Delivered

\* A step that is no failure must keep every message.
LEMMA KeptStep ==
    ASSUME Delivered, faults' = faults,
           Once(Held', unused') /\ (Kept(Held, unused) => Kept(Held', unused'))
    PROVE  Delivered'
BY DEF Delivered

\* ... a failure need not.
LEMMA FaultStep ==
    ASSUME Delivered, Fault, Once(Held', unused')
    PROVE  Delivered'
<1>1. faults' \in Nat /\ faults' # 0  BY DEF Delivered, Fault
<1> QED  BY <1>1 DEF Delivered

\* What a run drops with the loop's error is dropped; nothing else changes.
LEMMA StillSteps ==
    ASSUME HarnessInv, HarnessAssumption, Delivered, NEW r \in Runs,
           \/ CreateTurnState(r) \/ Announced(r) \/ StartLoop(r) \/ BeginAppend(r) \/ Polled(r)
           \/ Send(r) \/ ToolsAborted(r) \/ TurnEnded(r) \/ Prepared(r) \/ AgentEnd(r)
           \/ Settled(r) \/ Returns(r)
    PROVE  Delivered'
<1>0. run \in [Runs -> Locals] /\ r \in Tasks /\ Caller # r /\ write \in [Tasks -> Entries \cup {None}]
      /\ RunOK(r)
  BY Everything DEF HarnessAssumption, Writes, Tasks
<1>1. UNCHANGED <<entries, pendingSessionWrites, queues, unused, bounds>>
  BY DEF CreateTurnState, Announced, StartLoop, BeginAppend, Polled, Send, ToolsAborted, TurnEnded,
     Prepared, AgentEnd, Settled, Returns, session, Begin, BeginAt
<1>2. write'[Caller] = write[Caller]
  <2>1. BeginAppend(r) => write'[Caller] = write[Caller]  BY <1>0 DEF BeginAppend, Begin, BeginAt
  <2> QED  BY <2>1 DEF CreateTurnState, Announced, StartLoop, Polled, Send, ToolsAborted, TurnEnded,
     Prepared, AgentEnd, Settled, Returns, session
<1>3. \A q \in Runs : run'[q].todo = run[q].todo
  <2>1. CASE CreateTurnState(r) \/ Announced(r) \/ StartLoop(r) \/ BeginAppend(r) \/ Polled(r)
           \/ Send(r) \/ ToolsAborted(r) \/ TurnEnded(r) \/ Prepared(r) \/ Settled(r)
    <3>1. \/ run' = run
          \/ \E where : run' = [run EXCEPT ![r].at = where]
          \/ \E where, context : run' = [run EXCEPT ![r].at = where, ![r].context = context]
          \/ \E where, more : run' = [run EXCEPT ![r].at = where, ![r].more = more]
          \/ \E where, detached : run' = [run EXCEPT ![r].at = where, ![r].detached = detached]
          \/ \E where, more, context :
                run' = [run EXCEPT ![r].at = where, ![r].more = more, ![r].context = context]
      BY <2>1, <1>0 DEF CreateTurnState, Announced, StartLoop, BeginAppend, Polled, Send,
         ToolsAborted, TurnEnded, Prepared, Settled, Go
    <3>2. run[r] \in Locals  BY <1>0
    <3>3. run'[r].todo = run[r].todo /\ \A q \in Runs \ {r} : run'[q] = run[q]
      <4>1. CASE run' = run  BY <4>1
      <4>2. CASE \E where : run' = [run EXCEPT ![r].at = where]  BY <4>2, <3>2, <1>0 DEF Locals
      <4>3. CASE \E where, context : run' = [run EXCEPT ![r].at = where, ![r].context = context]
        BY <4>3, <3>2, <1>0 DEF Locals
      <4>4. CASE \E where, more : run' = [run EXCEPT ![r].at = where, ![r].more = more]
        BY <4>4, <3>2, <1>0 DEF Locals
      <4>5. CASE \E where, detached :
                   run' = [run EXCEPT ![r].at = where, ![r].detached = detached]
        BY <4>5, <3>2, <1>0 DEF Locals
      <4>6. CASE \E where, more, context :
                   run' = [run EXCEPT ![r].at = where, ![r].more = more, ![r].context = context]
        BY <4>6, <3>2, <1>0 DEF Locals
      <4> QED  BY <3>1, <4>1, <4>2, <4>3, <4>4, <4>5, <4>6
    <3> QED  BY <3>3
  <2>2. CASE AgentEnd(r) \/ Returns(r)
    <3>1. run[r].todo = <<>>
      BY <2>2, <1>0 DEF AgentEnd, Returns, RunOK, At, Holding, Emitting
    <3>2. run'[r].todo = <<>> /\ \A q \in Runs \ {r} : run'[q] = run[q]
      BY <2>2, <1>0 DEF AgentEnd, Returns, Finish, Idle
    <3> QED  BY <3>1, <3>2
  <2> QED  BY <2>1, <2>2
<1>4. InHand' = InHand  BY <1>2 DEF InHand
<1>5. \A c \in Holders : Held'[c] = Held[c]
  BY <1>1, <1>3, <1>4, HeldIs, HeldIsNext, HoldersAre DEF queues
<1> QED  BY <1>1, <1>5, SameHeld DEF bounds

\* Errors leave nothing to emit.
LEMMA Thrown ==
    ASSUME NEW r \in Runs, run \in [Runs -> Locals], Throw(r)
    PROVE  run'[r].todo = <<>> /\ \A q \in Runs \ {r} : run'[q] = run[q]
BY DEF Throw, Idle

\* Errors and ends of a run may drop what it holds.
LEMMA DropSteps ==
    ASSUME HarnessInv, HarnessAssumption, Delivered, NEW r \in Runs,
           Raises(r) \/ AppendFails(r) \/ (SetupFails(r) /\ ~ At(r, "announced"))
    PROVE  Delivered'
<1>0. run \in [Runs -> Locals] /\ r \in Tasks /\ Caller # r /\ write \in [Tasks -> Entries \cup {None}]
  BY Everything DEF HarnessAssumption, Writes, Tasks
<1>1. UNCHANGED <<entries, pendingSessionWrites, queues, unused>> /\ Fault
  BY DEF Raises, AppendFails, SetupFails, session, queues, Miss, At
<1>2. InHand' = InHand
  <2>1. Miss(r) => write'[Caller] = write[Caller]  BY <1>0 DEF Miss
  <2>2. UNCHANGED session => write'[Caller] = write[Caller]  BY DEF session
  <2> QED  BY <2>1, <2>2 DEF Raises, AppendFails, SetupFails, InHand
<1>3. run'[r].todo = <<>> /\ \A q \in Runs \ {r} : run'[q] = run[q]
  <2>1. CASE Throw(r)  BY <2>1, <1>0, Thrown
  <2>2. CASE run' = [run EXCEPT ![r] = Idle("over")]  BY <2>2, <1>0 DEF Idle
  <2> QED  BY <2>1, <2>2 DEF Raises, AppendFails, SetupFails, Reject, Finish
<1>4. \A c \in Holders : Held'[c] = Held[c] \/ Held'[c] = <<>>
  BY <1>1, <1>2, <1>3, HeldIs, HeldIsNext, HoldersAre DEF queues
<1> QED  BY <1>1, <1>4, FaultyCut

\* A run is none of the other holders.
LEMMA RunsAreNot ==
    ASSUME HarnessAssumption, NEW r \in Runs
    PROVE  r \notin {"steering", "followUp", "nextTurn", "postponed", "caller", "session"} /\ r # Caller
BY DEF HarnessAssumption, Elsewhere

\* One run's messages change, and one queue.
LEMMA PollStep ==
    ASSUME HarnessInv, HarnessAssumption, Delivered, NEW r \in Runs, Poll(r) \/ PollFollowUp(r)
    PROVE  Delivered'
<1> DEFINE x == run[r]
<1>0. run \in [Runs -> Locals] /\ x \in Locals /\ RunOK(r) /\ QueuesTyped /\ AllSeq(Held)
  BY Everything, HeldTyped
<1>1. x.todo = <<>>
  BY <1>0 DEF Poll, PollFollowUp, Emitted, RunOK, At, Holding, Emitting
<1>2. PICK a \in {"steering", "followUp"} :
         /\ run'[r].todo = Drained(Held[a]) /\ Held'[a] = Remaining(Held[a])
         /\ \A b \in {"steering", "followUp"} \ {a} : Held'[b] = Held[b]
  <2>1. CASE Poll(r)
    <3>1. run'[r].todo = Drained(steerQueue)
      <4> DEFINE d == Drained(steerQueue)
                 w == IF d # <<>> THEN "polled" ELSE IF x.more THEN "inject" ELSE "followup"
      <4>1. run' = [run EXCEPT ![r].todo = d, ![r].at = w]  BY <2>1 DEF Poll
      <4> HIDE DEF d, w
      <4> QED  BY <4>1, <1>0 DEF Locals, d
    <3> QED  BY <2>1, <3>1, HeldIs, HeldIsNext DEF Poll
  <2>2. CASE PollFollowUp(r)
    <3>1. run'[r].todo = Drained(followUpQueue)
      <4> DEFINE d == Drained(followUpQueue)
                 w == IF d # <<>> THEN "followed" ELSE "agent_end"
      <4>1. run' = [run EXCEPT ![r].todo = d, ![r].at = w]  BY <2>2 DEF PollFollowUp
      <4> HIDE DEF d, w
      <4> QED  BY <4>1, <1>0 DEF Locals, d
    <3> QED  BY <2>2, <3>1, HeldIs, HeldIsNext DEF PollFollowUp
  <2> QED  BY <2>1, <2>2
<1>3. /\ \A q \in Runs \ {r} : run'[q] = run[q]
      /\ UNCHANGED <<session, pendingSessionWrites, nextTurnQueue, unused, bounds>>
  BY <1>0 DEF Poll, PollFollowUp
<1>4. InHand' = InHand  BY <1>3 DEF session, InHand
<1>5. \A c \in Holders \ {a, r} : Held'[c] = Held[c]
  BY <1>2, <1>3, <1>4, HeldIs, HeldIsNext, HoldersAre DEF session
<1>6. a \in Holders /\ r \in Holders /\ a # r /\ Held[r] = <<>> /\ Held'[r] = Drained(Held[a])
  BY <1>1, <1>2, HoldersAre, RunsAreNot, HeldIs, HeldIsNext
<1>7. Held[a] \in Seq(Items)  BY <1>0, <1>6 DEF AllSeq
<1>8. CASE Held[a] = <<>>
  <2>1. Drained(Held[a]) = <<>> /\ Remaining(Held[a]) = <<>>
    BY <1>7, <1>8, QueueParts DEF Drained, Remaining
  <2>2. \A c \in Holders : Held'[c] = Held[c]  BY <1>2, <1>5, <1>6, <1>8, <2>1
  <2> QED  BY <1>3, <2>2, SameHeld DEF bounds
<1>9. CASE Held[a] # <<>> /\ OneAtATime
  <2>1. Drained(Held[a]) = <<Head(Held[a])>> /\ Remaining(Held[a]) = Tail(Held[a])
    BY <1>7, <1>9, QueueParts DEF Drained, Remaining
  <2>2. Held'[r] = Append(Held[r], Head(Held[a]))  BY <1>6, <2>1
  <2>3. Once(Held', unused) /\ (Kept(Held, unused) => Kept(Held', unused))
    <3>1. Held'[a] = Tail(Held[a]) /\ \A c \in Holders \ {a, r} : Held'[c] = Held[c]
      BY <1>2, <1>5, <2>1
    <3> QED  BY <1>0, <1>6, <1>9, <2>2, <3>1, MoveHead DEF Delivered
  <2> QED  BY <1>3, <2>3, KeptStep DEF bounds
<1>10. CASE ~ OneAtATime
  <2>1. Drained(Held[a]) = Held[a] /\ Remaining(Held[a]) = <<>>  BY <1>10 DEF Drained, Remaining
  <2>2. Held'[r] = Held[a] \o Held[r]  BY <1>6, <1>7, <2>1, ConcatEmptySeq
  <2>3. Once(Held', unused) /\ (Kept(Held, unused) => Kept(Held', unused))
    <3>1. Held'[a] = <<>> /\ \A c \in Holders \ {a, r} : Held'[c] = Held[c]  BY <1>2, <1>5, <2>1
    <3> QED  BY <1>0, <1>6, <2>2, <3>1, MoveAll DEF Delivered
  <2> QED  BY <1>3, <2>3, KeptStep DEF bounds
<1> QED  BY <1>8, <1>9, <1>10

\* A run takes the next-turn messages.
LEMMA TakeStep ==
    ASSUME HarnessInv, HarnessAssumption, Delivered, NEW r \in Runs, TakeNextTurn(r)
    PROVE  Delivered'
<1>0. run \in [Runs -> Locals] /\ run[r] \in Locals /\ AllSeq(Held)  BY Everything, HeldTyped
<1>1. /\ run'[r].todo = nextTurnQueue \o run[r].todo /\ \A q \in Runs \ {r} : run'[q] = run[q]
      /\ nextTurnQueue' = <<>>
  <2> DEFINE w == IF nextTurnQueue = <<>> THEN "hook" ELSE "announced"
             d == nextTurnQueue \o run[r].todo
  <2>1. run' = [run EXCEPT ![r].at = w, ![r].todo = d] /\ nextTurnQueue' = <<>>
    BY DEF TakeNextTurn
  <2> HIDE DEF w, d
  <2> QED  BY <2>1, <1>0 DEF Locals, d
<1>2. /\ UNCHANGED <<session, pendingSessionWrites, steerQueue, followUpQueue, unused, bounds>>
      /\ InHand' = InHand
  BY DEF TakeNextTurn, session, InHand
<1>3. /\ Held'["nextTurn"] = <<>> /\ Held'[r] = Held["nextTurn"] \o Held[r]
      /\ "nextTurn" \in Holders /\ r \in Holders /\ r # "nextTurn"
  BY <1>1, HeldIs, HeldIsNext, HoldersAre, RunsAreNot
<1>4. \A c \in Holders \ {"nextTurn", r} : Held'[c] = Held[c]
  BY <1>1, <1>2, HeldIs, HeldIsNext, HoldersAre DEF session
<1>5. Once(Held', unused) /\ (Kept(Held, unused) => Kept(Held', unused))
  BY <1>0, <1>3, <1>4, MoveAll DEF Delivered
<1> QED  BY <1>2, <1>5, KeptStep DEF bounds

\* A poll whose listener raises puts its messages back at the head of the queue, or loses them.
LEMMA PutBackStep ==
    ASSUME HarnessInv, HarnessAssumption, Delivered, NEW r \in Runs, PollFails(r)
    PROVE  Delivered'
<1>0. run \in [Runs -> Locals] /\ AllSeq(Held) /\ QueuesTyped /\ run[r].todo \in Seq(Messages)
  BY Everything, HeldTyped
<1>1. /\ UNCHANGED <<session, pendingSessionWrites, nextTurnQueue, unused>> /\ Fault
      /\ InHand' = InHand /\ Throw(r)
  BY DEF PollFails, session, InHand
<1>2. run'[r].todo = <<>> /\ \A q \in Runs \ {r} : run'[q] = run[q]  BY <1>0, <1>1, Thrown
<1>3. PICK a \in {"steering", "followUp"} :
         /\ Held'[a] = Held[a] \/ Held'[a] = Held[r] \o Held[a]
         /\ \A b \in {"steering", "followUp"} \ {a} : Held'[b] = Held[b]
  <2>1. <<>> \o steerQueue = steerQueue /\ <<>> \o followUpQueue = followUpQueue
    BY <1>0, ConcatEmptySeq DEF QueuesTyped
  <2>2. CASE UNCHANGED followUpQueue
             /\ (steerQueue' = <<>> \o steerQueue \/ steerQueue' = run[r].todo \o steerQueue)
    BY <2>1, <2>2, HeldIs, HeldIsNext
  <2>3. CASE UNCHANGED steerQueue
             /\ (followUpQueue' = <<>> \o followUpQueue \/ followUpQueue' = run[r].todo \o followUpQueue)
    BY <2>1, <2>3, HeldIs, HeldIsNext
  <2> QED  BY <2>2, <2>3 DEF PollFails
<1>4. /\ a \in Holders /\ r \in Holders /\ r # a /\ Held'[r] = <<>>
  BY <1>2, <1>3, HeldIsNext, HoldersAre, RunsAreNot
<1>5. \A c \in Holders \ {a, r} : Held'[c] = Held[c]
  BY <1>1, <1>2, <1>3, HeldIs, HeldIsNext, HoldersAre DEF session
<1>6. CASE Held'[a] = Held[a]
  <2>1. \A c \in Holders : Held'[c] = Held[c] \/ Held'[c] = <<>>  BY <1>4, <1>5, <1>6
  <2> QED  BY <1>1, <2>1, FaultyCut
<1>7. CASE Held'[a] = Held[r] \o Held[a]
  <2>1. \A c \in Holders \ {r, a} : Held'[c] = Held[c]  BY <1>5
  <2>2. Once(Held, unused)  BY DEF Delivered
  <2>3. Once(Held', unused)
    <3>1. AllSeq(Held)  BY <1>0
    <3>2. ASSUME NEW b \in Holders, r # b, r \in Holders, Held'[r] = <<>>,
                 Held'[b] = Held[r] \o Held[b], \A c \in Holders \ {r, b} : Held'[c] = Held[c]
          PROVE  Once(Held', unused) /\ (Kept(Held, unused) => Kept(Held', unused))
      BY <2>2, <3>1, <3>2, MoveAll
    <3> QED  BY <1>4, <1>7, <2>1, <3>2, Zenon
  <2> QED  BY <1>1, <2>3, FaultStep
<1> QED  BY <1>3, <1>6, <1>7

\* So does a prompt whose announcement raises.
LEMMA AnnounceFails ==
    ASSUME HarnessInv, HarnessAssumption, Delivered, NEW r \in Runs, SetupFails(r), At(r, "announced")
    PROVE  Delivered'
<1> DEFINE todo == run[r].todo
           kept == Front(todo)
           K == [c \in Holders |-> IF c = r THEN kept ELSE Held[c]]
<1>0. run \in [Runs -> Locals] /\ AllSeq(Held) /\ todo \in Seq(Messages) /\ todo # <<>>
  BY Everything, HeldTyped DEF RunOK
<1>1. /\ UNCHANGED <<session, pendingSessionWrites, steerQueue, followUpQueue, unused>> /\ Fault
      /\ InHand' = InHand /\ run' = [run EXCEPT ![r] = Idle("over")]
      /\ nextTurnQueue' = kept \o nextTurnQueue
  BY DEF SetupFails, Reject, session, InHand
<1>2. run'[r].todo = <<>> /\ \A q \in Runs \ {r} : run'[q] = run[q]  BY <1>0, <1>1 DEF Idle
<1>3. /\ kept \in Seq(Messages) /\ Len(kept) = Len(todo) - 1 /\ Len(todo) \in Nat /\ Len(todo) # 0
      /\ \A i \in 1..Len(kept) : kept[i] = todo[i]
  <2>1. Len(todo) \in Nat /\ Len(todo) # 0 /\ Len(todo) - 1 \in Int /\ 1 \in Int
        /\ \A i \in 1..(Len(todo) - 1) : todo[i] \in Messages
    BY <1>0
  <2> DEFINE s == SubSeq(todo, 1, Len(todo) - 1)
             n == Len(todo)
  <2>2. /\ s \in Seq(Messages) /\ Len(s) = IF 1 <= n - 1 THEN (n - 1) - 1 + 1 ELSE 0
        /\ \A i \in 1..((n - 1) - 1 + 1) : s[i] = todo[1 + i - 1]
    BY <2>1, SubSeqProperties
  <2> HIDE DEF s, n
  <2>3. n \in Nat /\ n # 0  BY <2>1 DEF n
  <2>4. Len(s) = n - 1  BY <2>2, <2>3
  <2>5. \A i \in 1..(n - 1) : s[i] = todo[i]
    <3> TAKE i \in 1..(n - 1)
    <3>1. i \in 1..((n - 1) - 1 + 1) /\ 1 + i - 1 = i  BY <2>3
    <3> QED  BY <2>2, <3>1
  <2>6. kept = s  BY DEF Front, s
  <2> QED  BY <2>1, <2>2, <2>4, <2>5, <2>6 DEF n
<1> HIDE DEF kept
<1>4. r \in Holders /\ "nextTurn" \in Holders /\ r # "nextTurn" /\ Held[r] = todo
  BY HoldersAre, RunsAreNot, HeldIs
<1>5. K[r] = kept /\ \A c \in Holders \ {r} : K[c] = Held[c]  BY <1>4
<1>6. AllSeq(K)  BY <1>0, <1>3, <1>5 DEF AllSeq, Items
<1>7. Once(K, unused)
  <2>1. \A c \in Holders : \A i \in 1..Len(K[c]) : i \in 1..Len(Held[c]) /\ K[c][i] = Held[c][i]
    BY <1>3, <1>4, <1>5
  <2> QED  BY <2>1, Cut DEF Delivered
<1> HIDE DEF K
<1>8. Held'[r] = <<>> /\ Held'["nextTurn"] = K[r] \o K["nextTurn"]
  BY <1>1, <1>2, <1>4, <1>5, HeldIs, HeldIsNext
<1>9. \A c \in Holders \ {r, "nextTurn"} : Held'[c] = K[c]
  BY <1>1, <1>2, <1>5, HeldIs, HeldIsNext, HoldersAre DEF session
<1>10. Once(Held', unused)
  <2> DEFINE b == "nextTurn"
  <2>1. r \in Holders /\ b \in Holders /\ r # b  BY <1>4
  <2>2. Held'[r] = <<>> /\ Held'[b] = K[r] \o K[b]  BY <1>8
  <2>3. \A c \in Holders \ {r, b} : Held'[c] = K[c]  BY <1>9
  <2> HIDE DEF b
  <2> QED  BY <1>6, <1>7, <2>1, <2>2, <2>3, MoveAll, ZenonT(90)
<1> QED  BY <1>1, <1>10, FaultStep

\* What an append of a run that lands adds to the session.
LEMMA LandedItem ==
    ASSUME HarnessInv, HarnessAssumption, NEW r \in Runs, Land(r)
    PROVE  /\ Held'["session"] = Append(Held["session"], write[r].item)
           /\ InHand' = InHand /\ Appending(r) /\ write[r].item \in Items
<1>1. /\ Appending(r) /\ write[r] \in Entries /\ entries' = Append(entries, write[r])
      /\ entries \in Seq(Entries)
      /\ \A t \in Tasks \ {r} : write[t] = None /\ write'[t] = None
  BY LandStep
<1>2. Held'["session"] = Append(Held["session"], write[r].item)
  BY <1>1, ItemsAppended, HeldIs, HeldIsNext
<1>3. Caller \in Tasks \ {r}  BY RunsAreNot DEF Tasks
<1>4. write[r].item \in Items  BY <1>1 DEF Entries
<1> QED  BY <1>1, <1>2, <1>3, <1>4 DEF InHand

\* An append that lands moves its message from its holder to the session.
LEMMA LandedOnce ==
    ASSUME HarnessInv, HarnessAssumption, SessionAssumption, Delivered, NEW r \in Runs, AppendLands(r)
    PROVE  Delivered'
<1> DEFINE x == run[r]
           item == write[r].item
<1>0. run \in [Runs -> Locals] /\ x \in Locals /\ RunOK(r) /\ AllSeq(Held) /\ QueuesTyped
      /\ x.todo \in Seq(Messages) /\ Once(Held, unused)
  BY Everything, HeldTyped DEF Delivered
<1>1. Land(r) /\ UNCHANGED <<queues, unused, bounds>>  BY DEF AppendLands
<1>2. /\ Held'["session"] = Append(Held["session"], item)
      /\ InHand' = InHand /\ Appending(r) /\ item \in Items
  BY <1>1, LandedItem
<1>3. "session" \in Holders /\ "postponed" \in Holders /\ r \in Holders /\ r # "session"
  BY HoldersAre, RunsAreNot
<1>4. CASE x.at \in Emitting
  <2>1. x.todo # <<>> /\ item = Head(x.todo)  BY <1>2, <1>4 DEF Appending
  <2>2. UNCHANGED pendingSessionWrites
    BY <1>4 DEF AppendLands, Emitting, Flushing, At
  <2>3. run'[r].todo = Tail(x.todo) /\ \A q \in Runs \ {r} : run'[q] = run[q]
    <3> DEFINE y == [IF At(r, "inject") THEN [x EXCEPT !.context = Append(@, item)] ELSE x
                     EXCEPT !.todo = Tail(@)]
    <3>1. run' = [run EXCEPT ![r] = y]
      <4>1. x.at \notin Flushing /\ x.at \notin {"streaming", "tools", "failing"}
        BY <1>4 DEF Emitting, Flushing
      <4> QED  BY <1>4, <4>1, Zenon DEF AppendLands, At
    <3>2. y.todo = Tail(x.todo)
      <4>1. CASE At(r, "inject")  BY <4>1, <1>0 DEF Locals
      <4>2. CASE ~ At(r, "inject")  BY <4>2, <1>0 DEF Locals
      <4> QED  BY <4>1, <4>2
    <3> HIDE DEF y
    <3> QED  BY <3>1, <3>2, <1>0
  <2>4. Held[r] # <<>> /\ Held'[r] = Tail(Held[r])
        /\ Held'["session"] = Append(Held["session"], Head(Held[r]))
    BY <1>2, <2>1, <2>3, HeldIs, HeldIsNext
  <2>5. \A c \in Holders \ {r, "session"} : Held'[c] = Held[c]
    BY <1>1, <1>2, <2>2, <2>3, HeldIs, HeldIsNext, HoldersAre DEF queues
  <2>6. Once(Held', unused) /\ (Kept(Held, unused) => Kept(Held', unused))
    <3>1. AllSeq(Held) /\ Once(Held, unused)  BY <1>0
    <3> QED  BY <1>3, <2>4, <2>5, <3>1, MoveHead
  <2> QED  BY <1>1, <2>6, KeptStep DEF bounds
<1>5. CASE x.at \in Flushing
  <2>1. pendingSessionWrites # <<>> /\ item = Head(pendingSessionWrites)
    BY <1>2, <1>5 DEF Appending
  <2>2. run' = run /\ pendingSessionWrites' = Rest(pendingSessionWrites)
    BY <1>5 DEF AppendLands, Emitting, Flushing, At
  <2>3. pendingSessionWrites' = Tail(pendingSessionWrites)
    BY <1>0, <2>1, <2>2, QueueParts DEF QueuesTyped
  <2>4. Held["postponed"] # <<>> /\ Held'["postponed"] = Tail(Held["postponed"])
        /\ Held'["session"] = Append(Held["session"], Head(Held["postponed"]))
    BY <1>2, <2>1, <2>3, HeldIs, HeldIsNext
  <2>5. \A c \in Holders \ {"postponed", "session"} : Held'[c] = Held[c]
    BY <1>1, <1>2, <2>2, HeldIs, HeldIsNext, HoldersAre DEF queues
  <2>6. Once(Held', unused) /\ (Kept(Held, unused) => Kept(Held', unused))
    <3>1. AllSeq(Held) /\ Once(Held, unused)  BY <1>0
    <3> QED  BY <1>3, <2>4, <2>5, <3>1, MoveHead
  <2> QED  BY <1>1, <2>6, KeptStep DEF bounds
<1>6. CASE x.at \in {"streaming", "tools", "failing"}
  <2>1. item \in Items \ Messages  BY <1>2, <1>6 DEF Appending, SessionAssumption
  <2>2. UNCHANGED pendingSessionWrites
    BY <1>6 DEF AppendLands, Emitting, Flushing, At
  <2>3. x.todo = <<>>  BY <1>0, <1>6 DEF RunOK, Holding, Emitting
  <2>4. run'[r].todo = <<>> /\ \A q \in Runs \ {r} : run'[q] = run[q]
    <3> DEFINE injected == [x EXCEPT !.context = Append(@, item)]
    <3>2. CASE x.at = "streaming"
      <4> DEFINE y == [injected EXCEPT !.at = IF item = "calls" THEN "tools" ELSE "turn_end",
                                       !.turns = IF item = "calls" THEN @ + 1 ELSE @,
                                       !.more = FALSE, !.last = item = "failure"]
      <4>1. run' = [run EXCEPT ![r] = y]  BY <3>2 DEF AppendLands, Emitting, Flushing, At
      <4>2. y.todo = <<>>  BY <1>0, <2>3 DEF Locals
      <4> HIDE DEF y
      <4> QED  BY <4>1, <4>2, <1>0
    <3>3. CASE x.at = "tools"
      <4>1. PICK terminate \in BOOLEAN :
               run' = [run EXCEPT ![r] = [injected EXCEPT !.at = "turn_end", !.more = ~ terminate]]
        BY <3>3 DEF AppendLands, Emitting, Flushing, At
      <4> DEFINE y == [injected EXCEPT !.at = "turn_end", !.more = ~ terminate]
      <4>2. y.todo = <<>>  BY <1>0, <2>3 DEF Locals
      <4>3. run' = [run EXCEPT ![r] = y]  BY <4>1
      <4> HIDE DEF y
      <4> QED  BY <4>2, <4>3, <1>0
    <3>4. CASE x.at = "failing"
      <4>1. run' = [run EXCEPT ![r].at = "turn_end"]
        BY <3>4 DEF AppendLands, Emitting, Flushing, At, Go
      <4> QED  BY <4>1, <1>0, <2>3 DEF Locals
    <3> QED  BY <1>6, <3>2, <3>3, <3>4
  <2>5. \A c \in Holders \ {"session"} : Held'[c] = Held[c]
    BY <1>1, <1>2, <2>2, <2>3, <2>4, HeldIs, HeldIsNext, HoldersAre DEF queues
  <2>6. Once(Held', unused) /\ (Kept(Held, unused) => Kept(Held', unused))
    <3>1. AllSeq(Held) /\ Once(Held, unused)  BY <1>0
    <3> QED  BY <1>2, <1>3, <2>1, <2>5, <3>1, PutOther
  <2> QED  BY <1>1, <2>6, KeptStep DEF bounds
<1> QED  BY <1>2, <1>4, <1>5, <1>6 DEF Appending, Writing

\* ... also when its listener raises, and the rest of the batch is lost.
LEMMA UnheardOnce ==
    ASSUME HarnessInv, HarnessAssumption, SessionAssumption, Delivered, NEW r \in Runs,
           LandedUnheard(r)
    PROVE  Delivered'
<1> DEFINE x == run[r]
           item == write[r].item
           H == Held
           K == [c \in Holders |-> IF c = "session" THEN Append(H["session"], item)
                                   ELSE IF c = r /\ x.at \in Emitting THEN Tail(H[r]) ELSE H[c]]
<1>0. run \in [Runs -> Locals] /\ RunOK(r) /\ AllSeq(Held) /\ Once(Held, unused)
      /\ x.todo \in Seq(Messages)
  BY Everything, HeldTyped DEF Delivered
<1>1. /\ Land(r) /\ UNCHANGED <<pendingSessionWrites, queues, unused>> /\ Fault /\ Throw(r)
      /\ x.at \notin Flushing
  BY DEF LandedUnheard
<1>2. /\ Held'["session"] = Append(Held["session"], item)
      /\ InHand' = InHand /\ Appending(r) /\ item \in Items
  BY <1>1, LandedItem
<1>3. "session" \in Holders /\ r \in Holders /\ r # "session"  BY HoldersAre, RunsAreNot
<1>4. run'[r].todo = <<>> /\ \A q \in Runs \ {r} : run'[q] = run[q]  BY <1>0, <1>1, Thrown
<1>5. \A c \in Holders : c # "session" => Held'[c] = Held[c] \/ Held'[c] = <<>>
  BY <1>1, <1>2, <1>4, HeldIs, HeldIsNext, HoldersAre DEF queues
<1>6. Held'[r] = <<>> /\ \A c \in Holders : c # "session" /\ c # r => Held'[c] = Held[c]
  BY <1>1, <1>2, <1>4, HeldIs, HeldIsNext, HoldersAre DEF queues
<1>7. /\ K["session"] = Append(Held["session"], item)
      /\ K[r] = IF x.at \in Emitting THEN Tail(Held[r]) ELSE Held[r]
      /\ \A c \in Holders : c # "session" /\ c # r => K[c] = Held[c]
  BY <1>3
<1> HIDE DEF K, H
<1>8. Once(K, unused) /\ (Kept(Held, unused) => Kept(K, unused))
  <2>0. AllSeq(Held) /\ Once(Held, unused)  BY <1>0
  <2>1. CASE x.at \in Emitting
    <3>1. Held[r] # <<>> /\ item = Head(Held[r])  BY <1>2, <2>1, HeldIs DEF Appending
    <3>2. K[r] = Tail(Held[r]) /\ K["session"] = Append(Held["session"], Head(Held[r]))
      BY <1>7, <2>1, <3>1
    <3>3. \A c \in Holders \ {r, "session"} : K[c] = Held[c]  BY <1>7
    <3> QED  BY <1>3, <2>0, <3>1, <3>2, <3>3, MoveHead
  <2>2. CASE x.at \notin Emitting
    <3>1. item \in Items \ Messages
      BY <1>1, <1>2, <2>2 DEF Appending, Writing, SessionAssumption
    <3>2. \A c \in Holders \ {"session"} : K[c] = Held[c]  BY <1>7, <2>2
    <3>3. K["session"] = Append(Held["session"], item)  BY <1>7
    <3> QED  BY <1>3, <2>0, <3>1, <3>2, <3>3, PutOther
  <2> QED  BY <2>1, <2>2
<1>9. \A c \in Holders : \A i \in 1..Len(Held'[c]) : i \in 1..Len(K[c]) /\ Held'[c][i] = K[c][i]
  <2> TAKE c \in Holders
  <2>1. CASE c = r
    <3>1. Len(Held'[c]) = 0  BY <2>1, <1>6
    <3> QED  BY <3>1
  <2>2. CASE c # r  BY <2>2, <1>2, <1>6, <1>7
  <2> QED  BY <2>1, <2>2
<1>10. Once(Held', unused)  BY <1>8, <1>9, Cut
<1> QED  BY <1>1, <1>10, FaultStep

\* A submitted message goes to one place.
LEMMA SubmitOnce ==
    ASSUME HarnessInv, HarnessAssumption, SessionAssumption, ~ Reentrant, Delivered,
           NEW m \in Messages,
           \/ Steer(m) \/ FollowUp(m) \/ NextTurn(m) \/ Postpone(m) \/ AppendNow(m)
           \/ \E r \in Runs : Prompt(r, m)
    PROVE  Delivered'
<1>0. /\ AllSeq(Held) /\ Once(Held, unused) /\ run \in [Runs -> Locals] /\ CallerOK
      /\ write \in [Tasks -> Entries \cup {None}]
  BY HeldTyped DEF Delivered, HarnessInv, Types, Writes
<1>1. m \in unused /\ unused' = unused \ {m} /\ UNCHANGED <<entries, bounds>>
  BY DEF Steer, FollowUp, NextTurn, Postpone, AppendNow, Prompt, Submit, session, Begin, BeginAt
<1>2. SUFFICES ASSUME NEW a \in Holders, Held'[a] = Append(Held[a], m),
                      \A c \in Holders \ {a} : Held'[c] = Held[c]
               PROVE  Delivered'
  <2>a. CASE Steer(m)
    <3>1. InHand' = InHand /\ Held'["steering"] = Append(Held["steering"], m)
      BY <2>a, HeldIs, HeldIsNext DEF Steer, session, InHand
    <3>2. \A c \in Holders \ {"steering"} : Held'[c] = Held[c]
      BY <2>a, <3>1, HeldIs, HeldIsNext, HoldersAre DEF Steer, session
    <3> QED  BY <1>2, <3>1, <3>2, HoldersAre
  <2>b. CASE FollowUp(m)
    <3>1. InHand' = InHand /\ Held'["followUp"] = Append(Held["followUp"], m)
      BY <2>b, HeldIs, HeldIsNext DEF FollowUp, session, InHand
    <3>2. \A c \in Holders \ {"followUp"} : Held'[c] = Held[c]
      BY <2>b, <3>1, HeldIs, HeldIsNext, HoldersAre DEF FollowUp, session
    <3> QED  BY <1>2, <3>1, <3>2, HoldersAre
  <2>c. CASE NextTurn(m)
    <3>1. InHand' = InHand /\ Held'["nextTurn"] = Append(Held["nextTurn"], m)
      BY <2>c, HeldIs, HeldIsNext DEF NextTurn, session, InHand
    <3>2. \A c \in Holders \ {"nextTurn"} : Held'[c] = Held[c]
      BY <2>c, <3>1, HeldIs, HeldIsNext, HoldersAre DEF NextTurn, session
    <3> QED  BY <1>2, <3>1, <3>2, HoldersAre
  <2>d. CASE Postpone(m)
    <3>1. InHand' = InHand /\ Held'["postponed"] = Append(Held["postponed"], m)
      BY <2>d, HeldIs, HeldIsNext DEF Postpone, session, InHand
    <3>2. \A c \in Holders \ {"postponed"} : Held'[c] = Held[c]
      BY <2>d, <3>1, HeldIs, HeldIsNext, HoldersAre DEF Postpone, session, queues
    <3> QED  BY <1>2, <3>1, <3>2, HoldersAre
  <2>e. CASE AppendNow(m)
    <3> DEFINE e == Entry("message", m, leaf, 0)
    <3>1. write[Caller] = None /\ write' = [write EXCEPT ![Caller] = e] /\ e.item = m
      BY <2>e DEF AppendNow, Begin, BeginAt, Entry
    <3>2. e # None
      <4>1. leaf \in Nat  BY Everything DEF HarnessInv, Tree, Forest
      <4>2. e \in Entries  BY <4>1 DEF Entry, Entries, Items
      <4> QED  BY <4>2 DEF SessionAssumption
    <3>3. write'[Caller] = e  BY <1>0, <3>1 DEF Tasks
    <3> HIDE DEF e
    <3>4. InHand = <<>> /\ InHand' = <<m>>  BY <3>1, <3>2, <3>3 DEF InHand
    <3>5. Held'["caller"] = Append(Held["caller"], m)
      <4>1. Append(<<>>, m) = <<m>>  OBVIOUS
      <4>2. Held["caller"] = InHand /\ Held'["caller"] = InHand'  BY HeldIs, HeldIsNext
      <4> QED  BY <3>4, <4>1, <4>2
    <3>6. \A c \in Holders \ {"caller"} : Held'[c] = Held[c]
      BY <1>1, <2>e, HeldIs, HeldIsNext, HoldersAre DEF AppendNow, queues
    <3> QED  BY <1>2, <3>5, <3>6, HoldersAre
  <2>f. ASSUME NEW r \in Runs, Prompt(r, m)  PROVE Delivered'
    <3>1. InHand' = InHand /\ UNCHANGED <<pendingSessionWrites, queues>>
      BY <2>f DEF Prompt, session, InHand
    <3>2. run[r].todo = <<>>
      <4>1. RunOK(r)  BY DEF HarnessInv
      <4> QED  BY <2>f, <4>1 DEF Prompt, RunOK, At, Holding, Emitting
    <3>3. run'[r].todo = <<m>> /\ \A q \in Runs \ {r} : run'[q] = run[q]
      <4>1. run' = [run EXCEPT ![r].at = "setup", ![r].todo = <<m>>] /\ run[r] \in Locals
        BY <2>f, <1>0 DEF Prompt
      <4> QED  BY <4>1, <1>0 DEF Locals
    <3>4. r \in Holders /\ Held'[r] = Append(Held[r], m)
      <4>1. Append(<<>>, m) = <<m>>  OBVIOUS
      <4>2. Held[r] = run[r].todo /\ Held'[r] = run'[r].todo  BY HeldIs, HeldIsNext
      <4>3. r \in Holders  BY HoldersAre
      <4> QED  BY <3>2, <3>3, <4>1, <4>2, <4>3
    <3>5. \A c \in Holders \ {r} : Held'[c] = Held[c]
      BY <1>1, <3>1, <3>3, HeldIs, HeldIsNext, HoldersAre DEF queues
    <3> QED  BY <1>2, <3>4, <3>5
  <2> QED  BY <2>a, <2>b, <2>c, <2>d, <2>e, <2>f
<1>3. Once(Held', unused \ {m}) /\ (Kept(Held, unused) => Kept(Held', unused \ {m}))
  BY <1>0, <1>1, <1>2, PutLast
<1> QED  BY <1>1, <1>3, KeptStep DEF bounds

\* An abort hands the steering and follow-up messages back.
LEMMA AbortOnce ==
    ASSUME HarnessInv, HarnessAssumption, Delivered, Abort
    PROVE  Delivered'
<1>0. AllSeq(Held) /\ Once(Held, unused) /\ run \in [Runs -> Locals]
  BY HeldTyped DEF Delivered, HarnessInv, Types
<1>1. /\ unused' = unused \cup ToSet(Held["steering"]) \cup ToSet(Held["followUp"])
      /\ Held'["steering"] = <<>> /\ Held'["followUp"] = <<>>
      /\ UNCHANGED <<session, pendingSessionWrites, nextTurnQueue, bounds>>
      /\ InHand' = InHand
  BY HeldIs, HeldIsNext DEF Abort, session, InHand
<1>2. \A r \in Runs : run'[r].todo = run[r].todo
  <2> TAKE r \in Runs
  <2> DEFINE b == run[r].at \in {"polled", "followed"}
  <2>1. run'[r] = [run[r] EXCEPT !.detached = b]  BY DEF Abort
  <2> HIDE DEF b
  <2> QED  BY <1>0, <2>1 DEF Locals
<1>3. \A c \in Holders \ {"steering", "followUp"} : Held'[c] = Held[c]
  BY <1>1, <1>2, HeldIs, HeldIsNext, HoldersAre DEF session
<1>4. Once(Held', unused') /\ (Kept(Held, unused) => Kept(Held', unused'))
  <2>1. "steering" \in Holders /\ "followUp" \in Holders  BY HoldersAre
  <2> DEFINE V == unused \cup ToSet(Held["steering"]) \cup ToSet(Held["followUp"])
  <2>2. Once(Held', V) /\ (Kept(Held, unused) => Kept(Held', V))
    BY <1>0, <1>1, <1>3, <2>1, HandBack
  <2> QED  BY <1>1, <2>2
<1> QED  BY <1>1, <1>4, KeptStep DEF bounds

\* The caller's operations move its own message, or one of nobody's.
LEMMA CallerOnce ==
    ASSUME HarnessInv, HarnessAssumption, SessionAssumption, Delivered,
           \/ Compact \/ NavigateTree \/ Summarize \/ CallerLands \/ CallerFails
           \/ UNCHANGED vars \/ \E operation : StartStructural(operation)
    PROVE  Delivered'
<1>0. /\ AllSeq(Held) /\ Once(Held, unused) /\ Tree /\ Writes
      /\ write \in [Tasks -> Entries \cup {None}] /\ Caller \in Tasks
  BY HeldTyped DEF Delivered, HarnessInv, Writes, Tasks
<1>1. UNCHANGED <<pendingSessionWrites, queues, run, unused>>
  BY DEF Compact, NavigateTree, Summarize, CallerLands, CallerFails, vars, StartStructural
<1>2. "caller" \in Holders /\ "session" \in Holders  BY HoldersAre
<1>3. \A c \in Holders \ {"caller", "session"} : Held'[c] = Held[c]
  BY <1>1, HeldIs, HeldIsNext, HoldersAre DEF queues
<1>4. ASSUME UNCHANGED <<entries, bounds>>, InHand' = InHand  PROVE Delivered'
  <2>1. \A c \in Holders : Held'[c] = Held[c]  BY <1>3, <1>4, HeldIs, HeldIsNext
  <2> QED  BY <1>1, <1>4, <2>1, SameHeld DEF bounds
<1>5. ASSUME NEW kind, NEW item \in OwnItems, NEW reference, Begin(Caller, kind, item, reference),
             UNCHANGED bounds
      PROVE  Delivered'
  <2>1. /\ write[Caller] = None /\ entries' = entries
        /\ write'[Caller] = Entry(kind, item, leaf, reference)
    BY <1>0, <1>5 DEF Begin, BeginAt
  <2>2. CASE Entry(kind, item, leaf, reference) = None
    <3>1. InHand' = InHand  BY <2>1, <2>2 DEF InHand
    <3> QED  BY <1>4, <1>5, <2>1, <3>1 DEF bounds
  <2>3. CASE Entry(kind, item, leaf, reference) # None
    <3>1. InHand = <<>> /\ InHand' = <<item>>  BY <2>1, <2>3 DEF InHand, Entry
    <3>2. Held'["caller"] = Append(Held["caller"], item)
      <4>1. Append(<<>>, item) = <<item>>  OBVIOUS
      <4>2. Held["caller"] = InHand /\ Held'["caller"] = InHand'  BY HeldIs, HeldIsNext
      <4> QED  BY <3>1, <4>1, <4>2
    <3>3. \A c \in Holders \ {"caller"} : Held'[c] = Held[c]
      BY <1>3, <2>1, HeldIs, HeldIsNext
    <3>4. item \in Items \ Messages  BY DEF Items, SessionAssumption
    <3>5. Once(Held', unused) /\ (Kept(Held, unused) => Kept(Held', unused))
      BY <1>0, <1>2, <3>2, <3>3, <3>4, PutOther
    <3> QED  BY <1>1, <1>5, <3>5, KeptStep DEF bounds
  <2> QED  BY <2>2, <2>3
<1>a. CASE Compact
  <2>1. \E i : Begin(Caller, "compaction", "none", i)  BY <1>a DEF Compact
  <2>2. "none" \in OwnItems /\ UNCHANGED bounds  BY <1>a DEF OwnItems, Compact
  <2> QED  BY <1>5, <2>1, <2>2
<1>b. CASE NavigateTree
  <2>1. \E i : Begin(Caller, "leaf", "none", i)  BY <1>b DEF NavigateTree
  <2>2. "none" \in OwnItems /\ UNCHANGED bounds  BY <1>b DEF OwnItems, NavigateTree
  <2> QED  BY <1>5, <2>1, <2>2
<1>c. CASE Summarize
  <2>1. "branch_summary" \in OwnItems
           /\ UNCHANGED bounds /\ Begin(Caller, "message", "branch_summary", 0)
    BY <1>c, SummaryBegins DEF OwnItems, Summarize
  <2> QED  BY <1>5, <2>1
<1>d. CASE CallerLands
  <2>1. /\ write[Caller] # None /\ write[Caller] \in Entries /\ entries \in Seq(Entries)
        /\ entries' = Append(entries, write[Caller]) /\ write'[Caller] = None /\ UNCHANGED bounds
    BY <1>0, <1>d DEF CallerLands, Land, Tree, Forest
  <2>2. InHand = <<write[Caller].item>> /\ InHand' = <<>>  BY <2>1 DEF InHand
  <2>3. /\ Held["caller"] # <<>> /\ Held'["caller"] = Tail(Held["caller"])
        /\ Held'["session"] = Append(Held["session"], Head(Held["caller"]))
    <3>1. Held["caller"] = <<write[Caller].item>> /\ Held'["caller"] = <<>>
      BY <2>2, HeldIs, HeldIsNext
    <3>2. Tail(<<write[Caller].item>>) = <<>> /\ Head(<<write[Caller].item>>) = write[Caller].item
      OBVIOUS
    <3>3. Held'["session"] = Append(Held["session"], write[Caller].item)
      BY <2>1, ItemsAppended, HeldIs, HeldIsNext
    <3> QED  BY <3>1, <3>2, <3>3
  <2>4. Once(Held', unused) /\ (Kept(Held, unused) => Kept(Held', unused))
    BY <1>0, <1>2, <1>3, <2>3, MoveHead
  <2> QED  BY <1>1, <2>1, <2>4, KeptStep DEF bounds
<1>e. CASE CallerFails
  <2>1. CASE Miss(Caller) /\ Fault
    <3>1. entries' = entries /\ write'[Caller] = None  BY <1>0, <2>1 DEF Miss
    <3>2. Held'["caller"] = <<>> /\ Held'["session"] = Held["session"]
      BY <3>1, HeldIs, HeldIsNext DEF InHand
    <3>3. \A c \in Holders : Held'[c] = Held[c] \/ Held'[c] = <<>>  BY <1>3, <3>2
    <3> QED  BY <1>1, <2>1, <3>3, FaultyCut
  <2>2. CASE UNCHANGED <<session, faults>>
    <3>1. UNCHANGED <<entries, bounds>> /\ InHand' = InHand
      BY <1>e, <2>2 DEF CallerFails, session, bounds, InHand
    <3> QED  BY <1>4, <3>1
  <2> QED  BY <1>e, <2>1, <2>2 DEF CallerFails
<1>f. CASE UNCHANGED vars  BY <1>f, <1>4 DEF vars, session, bounds, InHand
<1>g. CASE \E operation : StartStructural(operation)
  <2>1. UNCHANGED session /\ unused' = unused /\ faults' = faults  BY <1>g DEF StartStructural
  <2>2. \A c \in Holders : Held'[c] = Held[c]
    BY <1>3, <2>1, HeldIs, HeldIsNext DEF session, InHand
  <2> QED  BY <2>1, <2>2, SameHeld
<1> QED  BY <1>a, <1>b, <1>c, <1>d, <1>e, <1>f, <1>g

\* At first every message is unused.
LEMMA DeliveredInit ==
    ASSUME HarnessAssumption, Init
    PROVE  Delivered
<1>1. /\ entries = <<>> /\ write[Caller] = None /\ pendingSessionWrites = <<>>
      /\ steerQueue = <<>> /\ followUpQueue = <<>> /\ nextTurnQueue = <<>>
      /\ \A r \in Runs : run[r].todo = <<>>
      /\ unused = Messages /\ faults = 0
  BY DEF Init, SessionInit, Tasks, Idle
<1>2. InHand = <<>> /\ HeldItems(entries) = <<>>  BY <1>1 DEF InHand, HeldItems
<1>3. \A c \in Holders : Len(Held[c]) = 0  BY <1>1, <1>2, HeldIs, HoldersAre
<1> QED  BY <1>1, <1>3 DEF Delivered, Once, Kept

\* Every step keeps it.
LEMMA DeliveredSteps ==
    ASSUME HarnessInv, HarnessAssumption, SessionAssumption, ~ Reentrant, Delivered, [Next]_vars
    PROVE  Delivered'
<1>1. ASSUME NEW r \in Runs, Step(r)  PROVE Delivered'
  BY <1>1, StillSteps, DropSteps, PollStep, TakeStep, PutBackStep, AnnounceFails, LandedOnce,
     UnheardOnce DEF Step
<1> QED  BY <1>1, SubmitOnce, AbortOnce, CallerOnce DEF Next

\* A message that was submitted is in exactly one place, through polls, next-turn batches,
\* flushes, aborts and put-backs; failures can lose one and never double it: for any messages and
\* runs, both queue modes, as long as callers await each operation before the next one.
THEOREM EverybodyIsDeliveredOnce == ~ Reentrant => (Spec => []DeliveredOnce)
<1> SUFFICES ASSUME ~ Reentrant  PROVE Spec => []DeliveredOnce  OBVIOUS
<1>1. Spec => []HarnessInv  BY HarnessHolds
<1>2. Init => Delivered  BY DeliveredInit, HarnessAssumption
<1>3. HarnessInv /\ Delivered /\ [Next]_vars => Delivered'
  BY DeliveredSteps, HarnessAssumption, SessionAssumption
<1>4. ASSUME HarnessInv, Delivered  PROVE DeliveredOnce
  <2>0. \A w \in Holders : DOMAIN Held[w] = 1..Len(Held[w])
    BY <1>4, HeldTyped, HarnessAssumption DEF AllSeq
  <2>1. \A m, p : p \in Places(m) <=>
           \E w \in Holders : \E k \in 1..Len(Held[w]) : Held[w][k] = m /\ p = <<w, k>>
    BY <2>0 DEF Places
  <2> SUFFICES ASSUME NEW m \in Messages
               PROVE  /\ m \in unused => Places(m) = {}
                      /\ \A p, q \in Places(m) : p = q
                      /\ faults = 0 /\ m \notin unused => Places(m) # {}
    BY DEF DeliveredOnce
  <2>2. m \in unused => Places(m) = {}  BY <1>4, <2>1 DEF Delivered, Once
  <2>3. ASSUME NEW p \in Places(m), NEW q \in Places(m)  PROVE p = q
    <3>1. PICK a \in Holders : \E i \in 1..Len(Held[a]) : Held[a][i] = m /\ p = <<a, i>>  BY <2>1
    <3>2. PICK i \in 1..Len(Held[a]) : Held[a][i] = m /\ p = <<a, i>>  BY <3>1
    <3>3. PICK b \in Holders : \E j \in 1..Len(Held[b]) : Held[b][j] = m /\ q = <<b, j>>  BY <2>1
    <3>4. PICK j \in 1..Len(Held[b]) : Held[b][j] = m /\ q = <<b, j>>  BY <3>3
    <3>5. a = b /\ i = j  BY <1>4, <3>2, <3>4 DEF Delivered, Once
    <3> QED  BY <3>2, <3>4, <3>5
  <2>4. ASSUME faults = 0, m \notin unused  PROVE Places(m) # {}
    <3>1. \E a \in Holders : \E i \in 1..Len(Held[a]) : Held[a][i] = m
      BY <1>4, <2>4 DEF Delivered, Kept
    <3>2. PICK a \in Holders : \E i \in 1..Len(Held[a]) : Held[a][i] = m  BY <3>1
    <3>3. PICK i \in 1..Len(Held[a]) : Held[a][i] = m  BY <3>2
    <3>4. <<a, i>> \in Places(m)  BY <2>1, <3>3
    <3> QED  BY <3>4
  <2> QED  BY <2>2, <2>3, <2>4
<1> QED  BY <1>1, <1>2, <1>3, <1>4, PTL DEF Spec
-----------------------------------------------------------------------------
(* The tool calls of a turn: AgentTools beside the harness.                   *)

CallStates ==
    {"waiting", "started", "ready", "running", "returned", "ended", "heard", "raised"}

LoopRuns == {"start", "ended", "execute", "result", "next", "turn_end", "failing", "agent_end"}
LoopPositions == {"new", "over"} \cup LoopRuns

\* The calls of a run that were announced, and those whose result was given, are the first ones.
ReachedUpTo(r, n) == \A k \in 1..N : call[<<r, k>>] # "waiting" <=> k <= n
GivenUpTo(r, n) == \A k \in 1..N : <<r, k>> \in Given <=> k <= n

ToolTypes ==
    /\ toolExecution \in {"sequential", "parallel"}
    /\ at \in [AgentRuns -> LoopPositions] /\ next \in [AgentRuns -> 1..(N + 1)]
    /\ call \in [Calls -> CallStates]
    /\ updates \in [Calls -> Nat] /\ failures \in [AgentRuns -> Nat]
          /\ messages \in Seq(Calls)

\* The results in the transcript: none twice, and none before an earlier one of its batch.
Transcript ==
    /\ \A i, j \in DOMAIN messages : messages[i] = messages[j] => i = j
    /\ \A i \in DOMAIN messages : \A k \in 1..(messages[i][2] - 1) :
          \E j \in 1..(i - 1) : messages[j] = <<messages[i][1], k>>

\* Only a call whose tool was started is reported upon, until its end.
Reports == \A c \in Calls : updates[c] > 0 => call[c] \in {"running", "returned", "raised"}

\* How far a batch is, by the position of its run: preparing, one after another ...
Preparing(r) ==
    at[r] \in {"next", "start", "ended"} =>
        /\ GivenUpTo(r, IF toolExecution = "parallel" THEN 0 ELSE next[r] - 1)
        /\ ReachedUpTo(r, IF LoopAt(r, "next") THEN next[r] - 1 ELSE next[r])
        /\ at[r] # "next" => next[r] <= N
        /\ LoopAt(r, "start") => call[Current(r)] = "started"
        /\ LoopAt(r, "ended") => call[Current(r)] = "ended"

\* ... and giving the results.
Giving(r) ==
    at[r] \in {"execute", "result"} =>
        /\ GivenUpTo(r, IF LoopAt(r, "execute") THEN next[r] - 1 ELSE next[r])
        /\ next[r] <= N
        /\ toolExecution = "sequential" => ReachedUpTo(r, next[r])
        /\ toolExecution = "parallel" =>
              \E n \in next[r]..N : ReachedUpTo(r, n) /\ (r \notin signalled => n = N)

\* Whom the Agent waits for, and what a run has given when it is at its end.
Ending(r) ==
    /\ at[r] \in LoopRuns => activeRun = r
    /\ LoopAt(r, "new") => GivenUpTo(r, 0) /\ ReachedUpTo(r, 0) /\ next[r] = 1
    /\ LoopAt(r, "failing") => failures[r] > 0
    /\ at[r] \in {"turn_end", "agent_end", "over"} /\ r \notin signalled /\ failures[r] = 0 =>
          GivenUpTo(r, N)

\* The inductive invariant of a batch.
ToolsInv ==
    /\ ToolTypes /\ Transcript /\ Reports
    /\ \A r \in AgentRuns : Preparing(r) /\ Giving(r) /\ Ending(r)

\* The k-th call of a run is one of the calls.
LEMMA CallsAre ==
    ASSUME NEW r \in AgentRuns, NEW k \in 1..N
    PROVE  <<r, k>> \in Calls
BY DEF Calls

\* A run whose locals and results stay keeps its part, whatever its calls do.
LEMMA BatchStays ==
    ASSUME NEW r \in AgentRuns, Preparing(r), Giving(r), Ending(r), ToolTypes,
           toolExecution' = toolExecution,
           at'[r] = at[r], next'[r] = next[r], failures'[r] = failures[r],
           at[r] \in LoopRuns => activeRun' = activeRun,
           signalled \subseteq signalled',
           \A k \in 1..N : call'[<<r, k>>] = "waiting" <=> call[<<r, k>>] = "waiting",
           at[r] \in {"start", "ended"} => call'[Current(r)] = call[Current(r)],
           \A k \in 1..N : <<r, k>> \in Given' <=> <<r, k>> \in Given
    PROVE  Preparing(r)' /\ Giving(r)' /\ Ending(r)'
<1>1. \A n : (GivenUpTo(r, n) <=> \A k \in 1..N : <<r, k>> \in Given' <=> k <= n)
             /\ (ReachedUpTo(r, n) <=> \A k \in 1..N : call'[<<r, k>>] # "waiting" <=> k <= n)
  BY DEF GivenUpTo, ReachedUpTo
<1>2. Preparing(r)'
  BY <1>1 DEF Preparing, LoopAt, Current, GivenUpTo, ReachedUpTo
<1>3. Giving(r)'
  BY <1>1 DEF Giving, LoopAt, GivenUpTo, ReachedUpTo
<1>4. Ending(r)'
  BY <1>1 DEF Ending, LoopAt, GivenUpTo, ReachedUpTo, LoopRuns
<1> QED  BY <1>2, <1>3, <1>4

\* A step of one run, or of nobody's, that gives no result.
LEMMA OneRunStep ==
    ASSUME ToolsInv, NEW r \in AgentRuns, ToolTypes', Reports', messages' = messages,
           toolExecution' = toolExecution, signalled \subseteq signalled',
           \A q \in AgentRuns \ {r} :
              /\ at'[q] = at[q] /\ next'[q] = next[q] /\ failures'[q] = failures[q]
              /\ at[q] \in LoopRuns => activeRun' = activeRun
              /\ \A k \in 1..N : call'[<<q, k>>] = call[<<q, k>>],
           Preparing(r)', Giving(r)', Ending(r)'
    PROVE  ToolsInv'
<1>1. Transcript'  BY DEF ToolsInv, Transcript
<1>2. ASSUME NEW q \in AgentRuns, q # r  PROVE Preparing(q)' /\ Giving(q)' /\ Ending(q)'
  <2>1. Preparing(q) /\ Giving(q) /\ Ending(q) /\ ToolTypes  BY DEF ToolsInv
  <2>2. Given' = Given  BY DEF Given
  <2>3. at[q] \in {"start", "ended"} => call'[Current(q)] = call[Current(q)]
    <3>1. at[q] \in {"start", "ended"} => next[q] \in 1..N
      BY <2>1 DEF Preparing, ToolTypes
    <3> QED  BY <1>2, <3>1 DEF Current
  <2> QED  BY <1>2, <2>1, <2>2, <2>3, BatchStays
<1> QED  BY <1>1, <1>2 DEF ToolsInv

\* Where a run is, and its call.
LEMMA OwnCall ==
    ASSUME ToolsInv, NEW r \in AgentRuns
    PROVE  /\ N \in Nat \ {0} /\ next[r] \in 1..(N + 1) /\ at[r] \in LoopPositions
           /\ failures[r] \in Nat
           /\ next[r] <= N => Current(r) \in Calls
           /\ at[r] \in {"start", "ended", "execute", "result"} => next[r] <= N
           /\ \A q \in AgentRuns \ {r} : at[r] \in LoopRuns => at[q] \notin LoopRuns
           /\ \A q \in AgentRuns \ {r} : \A k \in 1..N : <<q, k>> # Current(r)
<1>1. /\ N \in Nat \ {0} /\ next[r] \in 1..(N + 1) /\ at[r] \in LoopPositions /\ failures[r] \in Nat
  BY ToolsAssumption DEF ToolsInv, ToolTypes
<1>2. next[r] <= N => Current(r) \in Calls
  <2>1. next[r] <= N => next[r] \in 1..N  BY <1>1
  <2> QED  BY <2>1, CallsAre DEF Current
<1>3. at[r] \in {"start", "ended", "execute", "result"} => next[r] <= N
  BY DEF ToolsInv, Preparing, Giving
<1>4. \A q \in AgentRuns \ {r} : at[r] \in LoopRuns => at[q] \notin LoopRuns
  BY DEF ToolsInv, Ending
<1>5. \A q \in AgentRuns \ {r} : \A k \in 1..N : <<q, k>> # Current(r)  BY DEF Current
<1> QED  BY <1>1, <1>2, <1>3, <1>4, <1>5

\* A step that changes the state of one call, and the types.
LEMMA OneCall ==
    ASSUME ToolTypes, NEW c \in Calls,
           NEW s \in CallStates,
           call' = [call EXCEPT ![c] = s]
    PROVE  /\ call' \in [Calls -> CallStates]
           /\ call'[c] = s /\ \A d \in Calls \ {c} : call'[d] = call[d]
BY DEF ToolTypes

\* The loop raises.
LEMMA ToolThrown ==
    ASSUME ToolsInv, NEW r \in AgentRuns, at[r] \in LoopRuns, LoopRaises(r)
    PROVE  /\ at' \in [AgentRuns -> LoopPositions] /\ failures' \in [AgentRuns -> Nat]
                 /\ failures'[r] > 0
           /\ at'[r] \in {"failing", "over"} /\ (at'[r] = "failing" => activeRun' = r)
           /\ \A q \in AgentRuns \ {r} : /\ at'[q] = at[q] /\ failures'[q] = failures[q]
                                         /\ at[q] \in LoopRuns => activeRun' = activeRun
<1>1. at \in [AgentRuns -> LoopPositions] /\ failures \in [AgentRuns -> Nat] /\ activeRun = r
  BY DEF ToolsInv, ToolTypes, Ending
<1>2. failures' = [failures EXCEPT ![r] = @ + 1]
      /\ \/ at' = [at EXCEPT ![r] = "failing"] /\ activeRun' = activeRun
         \/ at' = [at EXCEPT ![r] = "over"]
  BY DEF LoopRaises, FinishRun, LoopGoes
<1>3. \A q \in AgentRuns \ {r} : at[q] \notin LoopRuns  BY OwnCall
<1>4. at' \in [AgentRuns -> LoopPositions] /\ failures' \in [AgentRuns -> Nat]
  BY <1>1, <1>2 DEF LoopPositions, LoopRuns
<1>5. failures'[r] = failures[r] + 1 /\ failures[r] \in Nat  BY <1>1, <1>2
<1>6. at'[r] \in {"failing", "over"} /\ (at'[r] = "failing" => activeRun' = r)  BY <1>1, <1>2
<1>7. \A q \in AgentRuns \ {r} : at'[q] = at[q] /\ failures'[q] = failures[q]  BY <1>1, <1>2
<1> QED  BY <1>3, <1>4, <1>5, <1>6, <1>7

\* A run that failed has no part to keep.
LEMMA FailedParts ==
    ASSUME NEW r \in AgentRuns, failures'[r] > 0, at'[r] \in {"failing", "over"},
           failures'[r] \in Nat, at'[r] = "failing" => activeRun' = r
    PROVE  Preparing(r)' /\ Giving(r)' /\ Ending(r)'
BY DEF Preparing, Giving, Ending, LoopAt, LoopRuns

\* The steps of a call whose tool executes.
LEMMA CallSteps ==
    ASSUME ToolsInv, NEW c \in Calls, Update(c)
              \/ Execution(c)
    PROVE  ToolsInv'
<1>1. PICK r \in AgentRuns, k \in 1..N : c = <<r, k>>  BY DEF Calls
<1>0. /\ ToolTypes /\ Reports /\ updates[c] \in Nat /\ messages' = messages
      /\ toolExecution' = toolExecution /\ next' = next /\ signalled' = signalled /\ c[1] = r
  BY <1>1
     DEF ToolsInv, ToolTypes, Update, Execution, UpdateHeard, Return,
         Finalize, EndHeard, CallRaises,
              loopControl
<1>2. ASSUME ToolTypes', Reports', call[c] # "waiting", call'[c] # "waiting",
             \A d \in Calls \ {c} : call'[d] = call[d],
             at'[r] = at[r], failures'[r] = failures[r], activeRun' = activeRun,
             \A q \in AgentRuns \ {r} : at'[q] = at[q] /\ failures'[q] = failures[q],
             at[r] \in {"start", "ended"} => call'[Current(r)] = call[Current(r)]
      PROVE  ToolsInv'
  <2>1. Given' = Given  BY <1>0 DEF Given
  <2>2. \A q \in AgentRuns : \A j \in 1..N : <<q, j>> # c => call'[<<q, j>>] = call[<<q, j>>]
    BY <1>2, CallsAre
  <2>3. \A j \in 1..N : call'[<<r, j>>] = "waiting" <=> call[<<r, j>>] = "waiting"
    BY <1>2, <2>2
  <2>4. Preparing(r) /\ Giving(r) /\ Ending(r)  BY DEF ToolsInv
  <2>5. Preparing(r)' /\ Giving(r)' /\ Ending(r)'
    BY <1>0, <1>2, <2>1, <2>3, <2>4, BatchStays
  <2>6. \A q \in AgentRuns \ {r} : \A j \in 1..N : call'[<<q, j>>] = call[<<q, j>>]
    BY <1>1, <2>2
  <2> QED  BY <1>0, <1>2, <2>5, <2>6, OneRunStep
<1>a. CASE Update(c)
  <2>1. /\ call[c] = "running" /\ call' = call /\ at' = at /\ failures' = failures
        /\ activeRun' = activeRun /\ updates' = [updates EXCEPT ![c] = @ + 1]
    BY <1>a DEF Update, loopControl
  <2>2. ToolTypes' /\ Reports'  BY <1>0, <2>1 DEF ToolTypes, Reports
  <2> QED  BY <1>2, <2>1, <2>2
<1>b. CASE UpdateHeard(c)
  <2>1. /\ updates[c] > 0 /\ call' = call /\ at' = at /\ failures' = failures
        /\ activeRun' = activeRun /\ updates' = [updates EXCEPT ![c] = @ - 1]
    BY <1>b DEF UpdateHeard, loopControl
  <2>2. updates' \in [Calls -> Nat]  BY <1>0, <2>1 DEF ToolTypes
  <2>3. \A d \in Calls : updates'[d] <= updates[d]  BY <1>0, <2>1 DEF ToolTypes
  <2>4. ToolTypes'  BY <1>0, <2>1, <2>2 DEF ToolTypes
  <2>5. Reports'  BY <1>0, <2>1, <2>2, <2>3 DEF ToolTypes, Reports
  <2>6. call[c] # "waiting"  BY <1>0, <2>1 DEF Reports
  <2> QED  BY <1>2, <2>1, <2>4, <2>5, <2>6
<1>c. CASE Return(c) \/ Finalize(c) \/ EndHeard(c)
  <2>0. \/ call[c] = "running" /\ call' = [call EXCEPT ![c] = "returned"]
        \/ call[c] = "returned" /\ call' = [call EXCEPT ![c] = "ended"] /\ updates[c] = 0
        \/ call[c] = "ended" /\ call' = [call EXCEPT ![c] = "heard"] /\ ~ LoopAt(r, "ended")
    BY <1>0, <1>c DEF Return, Finalize, EndHeard
  <2>1. PICK s \in {"returned", "ended", "heard"} :
           /\ call' = [call EXCEPT ![c] = s]
           /\ \/ call[c] = "running" /\ s = "returned"
              \/ call[c] = "returned" /\ s = "ended" /\ updates[c] = 0
              \/ call[c] = "ended" /\ s = "heard" /\ ~ LoopAt(r, "ended")
    <3>1. CASE call[c] = "running" /\ call' = [call EXCEPT ![c] = "returned"]  BY <3>1
    <3>2. CASE call[c] = "returned" /\ call' = [call EXCEPT ![c] = "ended"] /\ updates[c] = 0
      BY <3>2
    <3>3. CASE call[c] = "ended" /\ call' = [call EXCEPT ![c] = "heard"] /\ ~ LoopAt(r, "ended")
      BY <3>3
    <3> QED  BY <2>0, <3>1, <3>2, <3>3
  <2>2. at' = at /\ failures' = failures /\ activeRun' = activeRun /\ updates' = updates
    BY <1>c DEF Return, Finalize, EndHeard, loopControl, reports
  <2>3. /\ call' \in [Calls -> CallStates]
        /\ call'[c] = s /\ \A d \in Calls \ {c} : call'[d] = call[d]
    BY <1>0, <2>1, OneCall DEF CallStates
  <2>4. ToolTypes'  BY <1>0, <2>2, <2>3 DEF ToolTypes
  <2>5. Reports'  BY <1>0, <2>1, <2>2, <2>3 DEF ToolTypes, Reports
  <2>6. at[r] \in {"start", "ended"} => Current(r) # c /\ Current(r) \in Calls
    <3>1. at[r] \in {"start", "ended"} => Current(r) \in Calls  BY OwnCall
    <3>2. at[r] = "start" => call[Current(r)] = "started"
      BY DEF ToolsInv, Preparing, LoopAt
    <3>3. at[r] = "ended" => call[Current(r)] = "ended"  BY DEF ToolsInv, Preparing, LoopAt
    <3> QED  BY <2>1, <3>1, <3>2, <3>3 DEF LoopAt
  <2> QED  BY <1>2, <2>1, <2>2, <2>3, <2>4, <2>5, <2>6
<1>d. CASE CallRaises(c)
  <2>1. /\ call[c] \in {"returned", "ended"} /\ (call[c] = "ended" => ~ LoopAt(r, "ended"))
        /\ call' = [call EXCEPT ![c] = "raised"] /\ updates' = updates
    BY <1>0, <1>d DEF CallRaises, reports
  <2>2. /\ call' \in [Calls -> CallStates]
        /\ call'[c] = "raised" /\ \A d \in Calls \ {c} : call'[d] = call[d]
    BY <1>0, <2>1, OneCall DEF CallStates
  <2>3. Reports'  BY <1>0, <2>1, <2>2 DEF ToolTypes, Reports
  <2>4. CASE LoopAt(r, "execute") /\ LoopRaises(r)
    <3>1. at[r] \in LoopRuns  BY <2>4 DEF LoopAt, LoopRuns
    <3>2. /\ at' \in [AgentRuns -> LoopPositions] /\ failures' \in [AgentRuns -> Nat]
                /\ failures'[r] > 0
          /\ at'[r] \in {"failing", "over"} /\ (at'[r] = "failing" => activeRun' = r)
          /\ \A q \in AgentRuns \ {r} : /\ at'[q] = at[q] /\ failures'[q] = failures[q]
                                        /\ at[q] \in LoopRuns => activeRun' = activeRun
      BY <2>4, <3>1, ToolThrown
    <3>3. ToolTypes'  BY <1>0, <2>1, <2>2, <3>2 DEF ToolTypes
    <3>4. Preparing(r)' /\ Giving(r)' /\ Ending(r)'  BY <3>2, FailedParts
    <3>5. \A q \in AgentRuns \ {r} : \A j \in 1..N : call'[<<q, j>>] = call[<<q, j>>]
      BY <1>1, <2>2, CallsAre
    <3> QED  BY <1>0, <2>3, <3>2, <3>3, <3>4, <3>5, OneRunStep
  <2>5. CASE ~ LoopAt(r, "execute") /\ UNCHANGED <<activeRun, at, failures, pendingToolCalls>>
    <3>1. ToolTypes'  BY <1>0, <2>1, <2>2, <2>5 DEF ToolTypes
    <3>2. at[r] \in {"start", "ended"} => Current(r) # c /\ Current(r) \in Calls
      <4>1. at[r] \in {"start", "ended"} => Current(r) \in Calls  BY OwnCall
      <4>2. at[r] = "start" => call[Current(r)] = "started"
        BY DEF ToolsInv, Preparing, LoopAt
      <4>3. at[r] = "ended" => call[Current(r)] = "ended"
        BY DEF ToolsInv, Preparing, LoopAt
      <4> QED  BY <2>1, <4>1, <4>2, <4>3 DEF LoopAt
    <3> QED  BY <1>2, <2>1, <2>2, <2>3, <2>5, <3>1, <3>2
  <2> QED  BY <1>0, <1>d, <2>4, <2>5 DEF CallRaises
<1> QED  BY <1>a, <1>b, <1>c, <1>d DEF Execution

\* What becomes of the results when the next one of a run is given.
LEMMA OneMore ==
    ASSUME ToolsInv, NEW r \in AgentRuns, next[r] <= N,
              GivenUpTo(r, next[r] - 1),
           next' = next, messages' = Append(messages, Current(r))
    PROVE  /\ messages' \in Seq(Calls) /\ Transcript' /\ GivenUpTo(r, next[r])'
           /\ \A q \in AgentRuns \ {r} : \A k \in 1..N : <<q, k>> \in Given'
                 <=> <<q, k>> \in Given
<1> DEFINE n == Len(messages)
           m == Current(r)
<1>0. /\ messages \in Seq(Calls) /\ n \in Nat /\ m \in Calls /\ m[1] = r
            /\ m[2] = next[r]
      /\ N \in Nat /\ next[r] \in 1..N /\ Transcript
  BY OwnCall DEF ToolsInv, ToolTypes, Current
<1>1. /\ messages' \in Seq(Calls) /\ Len(messages') = n + 1 /\ messages'[n + 1] = m
      /\ \A i \in 1..n : messages'[i] = messages[i]
      /\ DOMAIN messages = 1..n /\ DOMAIN messages' = 1..(n + 1)
  BY <1>0
<1>2. \A c : c \in Given' <=> c \in Given \/ c = m
  <2>1. \A c : c \in Given <=> \E i \in 1..n : messages[i] = c  BY <1>1 DEF Given
  <2>2. \A c : c \in Given' <=> \E i \in 1..(n + 1) : messages'[i] = c
    BY <1>1 DEF Given
  <2>3. \A i \in 1..(n + 1) : i \in 1..n \/ i = n + 1  BY <1>0
  <2>4. (n + 1) \in 1..(n + 1) /\ \A i \in 1..n : i \in 1..(n + 1)  BY <1>0
  <2> HIDE DEF n, m
  <2> QED  BY <1>1, <2>1, <2>2, <2>3, <2>4
<1>3. m \notin Given
  <2>1. next[r] \in 1..N /\ ~ (next[r] <= next[r] - 1)  BY <1>0
  <2> QED  BY <2>1 DEF GivenUpTo, Current
<1>4. \A i \in 1..n : messages[i] # m  BY <1>1, <1>3 DEF Given
<1>5. ASSUME NEW i \in DOMAIN messages', NEW j \in DOMAIN messages', messages'[i] = messages'[j]
      PROVE  i = j
  <2>1. (i \in 1..n \/ i = n + 1) /\ (j \in 1..n \/ j = n + 1)  BY <1>0, <1>1
  <2>2. CASE i \in 1..n /\ j \in 1..n  BY <2>2, <1>0, <1>1, <1>5 DEF Transcript
  <2>3. CASE i = n + 1 \/ j = n + 1  BY <2>1, <2>3, <1>1, <1>4, <1>5
  <2> QED  BY <2>1, <2>2, <2>3
<1>6. ASSUME NEW i \in DOMAIN messages', NEW k \in 1..(messages'[i][2] - 1)
      PROVE  \E j \in 1..(i - 1) : messages'[j] = <<messages'[i][1], k>>
  <2>1. CASE i \in 1..n
    <3>1. k \in 1..(messages[i][2] - 1)  BY <2>1, <1>1
    <3>2. PICK j \in 1..(i - 1) : messages[j] = <<messages[i][1], k>>
      BY <2>1, <3>1, <1>0, <1>1 DEF Transcript
    <3>3. j \in 1..n  BY <2>1, <3>2, <1>0
    <3>4. messages'[j] = <<messages'[i][1], k>>  BY <2>1, <3>2, <3>3, <1>1
    <3> QED  BY <3>4
  <2>2. CASE i = n + 1
    <3>1. k \in 1..N /\ k <= next[r] - 1  BY <2>2, <1>0, <1>1
    <3>2. <<r, k>> \in Given  BY <3>1 DEF GivenUpTo
    <3>3. PICK j \in 1..n : messages[j] = <<r, k>>  BY <3>2, <1>1 DEF Given
    <3>4. j \in 1..(i - 1)  BY <2>2, <1>0
    <3>5. messages'[j] = <<messages'[i][1], k>>  BY <2>2, <3>3, <1>0, <1>1
    <3> QED  BY <3>4, <3>5
  <2>3. i \in 1..n \/ i = n + 1  BY <1>0, <1>1
  <2> QED  BY <2>1, <2>2, <2>3
<1>7. Transcript'  BY <1>5, <1>6 DEF Transcript
<1>8. \A k \in 1..N : <<r, k>> \in Given' <=> k <= next[r]
  BY <1>0, <1>2 DEF GivenUpTo, Current
<1>9. GivenUpTo(r, next[r])'  BY <1>8 DEF GivenUpTo
<1> QED  BY <1>1, <1>2, <1>7, <1>9 DEF Current

\* The invariant holds at first.
LEMMA ToolsInitial ==
    ASSUME ToolsInit
    PROVE  ToolsInv
<1>0. N \in Nat \ {0} /\ messages = <<>> /\ NoRun \notin AgentRuns
  BY ToolsAssumption DEF ToolsInit
<1>1. ToolTypes  BY <1>0 DEF ToolsInit, ToolTypes, LoopPositions, CallStates
<1>2. Transcript /\ Reports  BY <1>0 DEF ToolsInit, Transcript, Reports
<1>3. ASSUME NEW r \in AgentRuns  PROVE Preparing(r) /\ Giving(r) /\ Ending(r)
  <2>1. at[r] = "new" /\ next[r] = 1  BY DEF ToolsInit
  <2>2. GivenUpTo(r, 0)  BY <1>0 DEF GivenUpTo, Given
  <2>3. ReachedUpTo(r, 0)
    <3>1. \A k \in 1..N : call[<<r, k>>] = "waiting"  BY CallsAre DEF ToolsInit
    <3> QED  BY <3>1 DEF ReachedUpTo
  <2> QED  BY <2>1, <2>2, <2>3 DEF Preparing, Giving, Ending, LoopAt, LoopRuns
<1> QED  BY <1>1, <1>2, <1>3 DEF ToolsInv

\* A call of prompt.
LEMMA ToolPrompt ==
    ASSUME ToolsInv, NEW r \in AgentRuns, AgentPrompt(r)
    PROVE  ToolsInv'
<1>1. /\ at[r] = "new" /\ activeRun = NoRun /\ activeRun' = r /\ at' = [at EXCEPT ![r] = "next"]
      /\ UNCHANGED <<toolExecution, signalled, next, call, reports, messages, failures>>
  BY DEF AgentPrompt, LoopAt, LoopGoes
<1>2. ToolTypes /\ Reports /\ GivenUpTo(r, 0) /\ ReachedUpTo(r, 0) /\ next[r] = 1
  BY <1>1 DEF ToolsInv, Ending, LoopAt
<1>3. ToolTypes' /\ Reports'
  BY <1>1, <1>2 DEF ToolTypes, Reports, reports, LoopPositions, LoopRuns
<1>4. at'[r] = "next" /\ \A q \in AgentRuns \ {r} : at'[q] = at[q]  BY <1>1, <1>2 DEF ToolTypes
<1>5. \A q \in AgentRuns : at[q] \notin LoopRuns
  BY <1>1, ToolsAssumption DEF ToolsInv, Ending
<1>6. GivenUpTo(r, 0)' /\ ReachedUpTo(r, 0)'
  BY <1>1, <1>2 DEF GivenUpTo, ReachedUpTo, Given
<1>7. Preparing(r)'  BY <1>1, <1>2, <1>4, <1>6 DEF Preparing, LoopAt
<1>8. Giving(r)' /\ Ending(r)'  BY <1>1, <1>4 DEF Giving, Ending, LoopAt, LoopRuns
<1> QED  BY <1>1, <1>3, <1>4, <1>5, <1>7, <1>8, OneRunStep

\* An abort, and a stutter.
LEMMA ToolAbort ==
    ASSUME ToolsInv, AgentAbort \/ UNCHANGED toolVars
    PROVE  ToolsInv'
<1>1. /\ signalled \subseteq signalled'
      /\ UNCHANGED <<toolExecution, activeRun, at, next, call, updates, messages, failures>>
  BY DEF AgentAbort, toolVars, loopControl, reports
<1>2. ToolTypes' /\ Transcript' /\ Reports'  BY <1>1 DEF ToolsInv, ToolTypes, Transcript, Reports
<1>3. Given' = Given  BY <1>1 DEF Given
<1>4. ASSUME NEW r \in AgentRuns  PROVE Preparing(r)' /\ Giving(r)' /\ Ending(r)'
  <2>1. Preparing(r) /\ Giving(r) /\ Ending(r) /\ ToolTypes  BY DEF ToolsInv
  <2> QED  BY <1>1, <1>3, <2>1, BatchStays
<1> QED  BY <1>2, <1>4 DEF ToolsInv

\* The run raises, in its loop or while a result is emitted.
LEMMA RaiseSteps ==
    ASSUME ToolsInv, NEW r \in AgentRuns, EventRaises(r)
              \/ ResultUnheard(r)
    PROVE  ToolsInv'
<1>1. /\ at[r] \in LoopRuns /\ LoopRaises(r)
      /\ UNCHANGED <<toolExecution, signalled, next, updates, messages>>
  BY DEF EventRaises, ResultUnheard, ResultDue, LoopRuns, LoopAt, reports
<1>2. /\ at' \in [AgentRuns -> LoopPositions] /\ failures' \in [AgentRuns -> Nat]
            /\ failures'[r] > 0
      /\ at'[r] \in {"failing", "over"} /\ (at'[r] = "failing" => activeRun' = r)
      /\ \A q \in AgentRuns \ {r} : /\ at'[q] = at[q] /\ failures'[q] = failures[q]
                                    /\ at[q] \in LoopRuns => activeRun' = activeRun
  BY <1>1, ToolThrown
<1>3. call' = call \/ (LoopAt(r, "ended") /\ call' = [call EXCEPT ![Current(r)] = "raised"])
  BY DEF EventRaises, ResultUnheard
<1>4. ToolTypes /\ Reports  BY DEF ToolsInv
<1>5. /\ call' \in [Calls -> CallStates]
      /\ \A c \in Calls : call'[c] = call[c] \/ call'[c] = "raised"
      /\ \A q \in AgentRuns \ {r} : \A k \in 1..N : call'[<<q, k>>] = call[<<q, k>>]
  <2>1. CASE call' = call  BY <2>1, <1>4 DEF ToolTypes
  <2>2. CASE LoopAt(r, "ended") /\ call' = [call EXCEPT ![Current(r)] = "raised"]
    <3>1. Current(r) \in Calls /\ \A q \in AgentRuns \ {r} : \A k \in 1..N :
             <<q, k>> # Current(r)
      BY <2>2, OwnCall DEF LoopAt
    <3>2. /\ call' \in [Calls -> CallStates]
          /\ call'[Current(r)] = "raised" /\ \A d \in Calls \ {Current(r)} :
                call'[d] = call[d]
      BY <2>2, <3>1, <1>4, OneCall DEF CallStates
    <3> QED  BY <3>1, <3>2, CallsAre
  <2> QED  BY <1>3, <2>1, <2>2
<1>6. ToolTypes'  BY <1>1, <1>2, <1>4, <1>5 DEF ToolTypes
<1>7. Reports'
  <2> SUFFICES ASSUME NEW c \in Calls, updates[c] > 0
               PROVE  call'[c] \in {"running", "returned", "raised"}
    BY <1>1 DEF Reports
  <2> QED  BY <1>4, <1>5 DEF Reports
<1>8. failures'[r] \in Nat  BY <1>2
<1>9. Preparing(r)' /\ Giving(r)' /\ Ending(r)'  BY <1>2, <1>8, FailedParts
<1> QED  BY <1>1, <1>2, <1>5, <1>6, <1>7, <1>9, OneRunStep

\* A result is given.
LEMMA ExecutedStep ==
    ASSUME ToolsInv, NEW r \in AgentRuns, Executed(r)
    PROVE  ToolsInv'
<1>1. /\ at[r] = "execute" /\ at' = [at EXCEPT ![r] = "result"]
      /\ messages' = Append(messages, Current(r))
      /\ UNCHANGED <<toolExecution, activeRun, signalled, next, call, updates, failures>>
  BY DEF Executed, ResultDue, LoopAt, LoopGoes, loopControl, reports
<1>2. ToolTypes /\ Reports /\ Giving(r) /\ next[r] <= N /\ GivenUpTo(r, next[r] - 1)
      /\ activeRun = r
  BY <1>1 DEF ToolsInv, Giving, LoopAt, Ending, LoopRuns
<1>3. /\ messages' \in Seq(Calls) /\ Transcript' /\ GivenUpTo(r, next[r])'
      /\ \A q \in AgentRuns \ {r} : \A k \in 1..N : <<q, k>> \in Given'
            <=> <<q, k>> \in Given
  BY <1>1, <1>2, OneMore
<1>4. ToolTypes' /\ Reports'  BY <1>1, <1>2, <1>3 DEF ToolTypes, Reports, LoopPositions, LoopRuns
<1>5. at'[r] = "result" /\ \A q \in AgentRuns \ {r} : at'[q] = at[q]  BY <1>1, <1>2 DEF ToolTypes
<1>7. Giving(r)'
  <2>1. toolExecution = "sequential" => ReachedUpTo(r, next[r])  BY <1>1, <1>2 DEF Giving
  <2>2. toolExecution = "parallel" =>
           \E n \in next[r]..N : ReachedUpTo(r, n) /\ (r \notin signalled => n = N)
    BY <1>1, <1>2 DEF Giving
  <2>3. ReachedUpTo(r, next[r])' <=> ReachedUpTo(r, next[r])  BY <1>1 DEF ReachedUpTo
  <2>4. \A n \in next[r]..N : ReachedUpTo(r, n)' <=> ReachedUpTo(r, n)
    BY <1>1 DEF ReachedUpTo
  <2> QED  BY <1>1, <1>2, <1>3, <1>5, <2>1, <2>2, <2>3, <2>4 DEF Giving, LoopAt
<1>8. Preparing(r)' /\ Ending(r)'
  BY <1>1, <1>2, <1>5 DEF Preparing, Ending, LoopAt, LoopRuns
<1>9. ASSUME NEW q \in AgentRuns \ {r}  PROVE Preparing(q)' /\ Giving(q)' /\ Ending(q)'
  <2>1. Preparing(q) /\ Giving(q) /\ Ending(q)  BY DEF ToolsInv
  <2> QED  BY <1>1, <1>2, <1>3, <1>5, <2>1, BatchStays
<1> QED  BY <1>3, <1>4, <1>7, <1>8, <1>9 DEF ToolsInv

\* What a step of a run that gives no result and does not fail has to show.
LEMMA RunMoves ==
    ASSUME ToolsInv, NEW r \in AgentRuns, NEW where \in LoopRuns,
           at[r] \in LoopRuns, LoopGoes(r, where),
           UNCHANGED <<loopControl, reports, messages, failures>>,
           call' \in [Calls -> CallStates],
           next' \in [AgentRuns -> 1..(N + 1)],
           \A c \in Calls : updates[c] > 0 => call'[c] = call[c],
           \A q \in AgentRuns \ {r} : /\ next'[q] = next[q]
                                      /\ \A k \in 1..N : call'[<<q, k>>] = call[<<q, k>>],
           at'[r] = where /\ activeRun = r => Preparing(r)' /\ Giving(r)' /\ Ending(r)'
    PROVE  ToolsInv'
<1>1. ToolTypes /\ Reports /\ activeRun = r  BY DEF ToolsInv, Ending
<1>2. /\ at' = [at EXCEPT ![r] = where]
      /\ UNCHANGED <<toolExecution, activeRun, signalled, updates, messages, failures>>
  BY DEF LoopGoes, loopControl, reports
<1>3. at' \in [AgentRuns -> LoopPositions] /\ at'[r] = where /\ \A q \in AgentRuns \ {r} :
         at'[q] = at[q]
  BY <1>1, <1>2 DEF ToolTypes, LoopPositions
<1>4. ToolTypes' /\ Reports'  BY <1>1, <1>2, <1>3 DEF ToolTypes, Reports
<1> QED  BY <1>1, <1>2, <1>3, <1>4, OneRunStep

\* A call is announced.
LEMMA CallStarts ==
    ASSUME ToolsInv, NEW r \in AgentRuns, StartCall(r)
    PROVE  ToolsInv'
<1>1. /\ at[r] = "next" /\ next[r] <= N /\ call' = [call EXCEPT ![Current(r)] = "started"]
      /\ next' = next /\ LoopGoes(r, "start")
            /\ UNCHANGED <<loopControl, reports, messages, failures>>
  BY DEF StartCall, LoopAt
<1>2. /\ Current(r) \in Calls /\ N \in Nat /\ next[r] \in 1..N
      /\ \A q \in AgentRuns \ {r} : \A k \in 1..N : <<q, k>> # Current(r)
  BY <1>1, OwnCall
<1>3. /\ call' \in [Calls -> CallStates]
      /\ call'[Current(r)] = "started" /\ \A c \in Calls \ {Current(r)} :
            call'[c] = call[c]
  BY <1>1, <1>2, OneCall DEF ToolsInv, CallStates
<1>4. /\ GivenUpTo(r, IF toolExecution = "parallel" THEN 0 ELSE next[r] - 1)
      /\ ReachedUpTo(r, next[r] - 1) /\ next \in [AgentRuns -> 1..(N + 1)] /\ Reports
  BY <1>1 DEF ToolsInv, Preparing, LoopAt, ToolTypes
<1>5. \A k \in 1..N : call'[<<r, k>>] # "waiting" <=> k <= next[r]
  <2> TAKE k \in 1..N
  <2>1. CASE k = next[r]  BY <2>1, <1>3 DEF Current
  <2>2. CASE k # next[r]
    <3>1. <<r, k>> \in Calls \ {Current(r)}  BY <2>2, CallsAre DEF Current
    <3>2. call'[<<r, k>>] # "waiting" <=> k <= next[r] - 1  BY <3>1, <1>3, <1>4 DEF ReachedUpTo
    <3> QED  BY <2>2, <3>2, <1>2
  <2> QED  BY <2>1, <2>2
<1>6. call[Current(r)] = "waiting"
  BY <1>2, <1>4 DEF ReachedUpTo, Current
<1>7. \A c \in Calls : updates[c] > 0 => call'[c] = call[c]
  BY <1>3, <1>4, <1>6 DEF Reports
<1>8. \A q \in AgentRuns \ {r} : \A k \in 1..N : call'[<<q, k>>] = call[<<q, k>>]
  BY <1>2, <1>3, CallsAre
<1>9. ASSUME at'[r] = "start", activeRun = r  PROVE Preparing(r)' /\ Giving(r)' /\ Ending(r)'
  <2>1. ReachedUpTo(r, next[r])'  BY <1>1, <1>5 DEF ReachedUpTo
  <2>2. GivenUpTo(r, IF toolExecution = "parallel" THEN 0 ELSE next[r] - 1)'
    BY <1>1, <1>4 DEF GivenUpTo, Given, loopControl
  <2>3. Preparing(r)'  BY <1>1, <1>2, <1>3, <1>9, <2>1, <2>2 DEF Preparing, LoopAt, Current
  <2> QED  BY <1>1, <1>9, <2>3 DEF Giving, Ending, LoopAt, LoopRuns, loopControl
<1> QED  BY <1>1, <1>3, <1>4, <1>7, <1>8, <1>9, RunMoves DEF LoopRuns

\* A call is allowed, refused, or heard to be refused.
LEMMA DecideSteps ==
    ASSUME ToolsInv, NEW r \in AgentRuns,
           CallPrepared(r) \/ Immediate(r) \/ ImmediateHeard(r)
    PROVE  ToolsInv'
<1>1. /\ at[r] \in {"start", "ended"}
            /\ UNCHANGED <<loopControl, reports, messages, failures>>
      /\ at[r] = "start" => call[Current(r)] = "started"
      /\ at[r] = "ended" => call[Current(r)] = "ended"
      /\ GivenUpTo(r, IF toolExecution = "parallel" THEN 0 ELSE next[r] - 1)
      /\ ReachedUpTo(r, next[r]) /\ ToolTypes /\ Reports
  BY DEF CallPrepared, Immediate, ImmediateHeard, LoopAt, ToolsInv, Preparing
<1>2. /\ Current(r) \in Calls /\ N \in Nat /\ next[r] \in 1..N
      /\ \A q \in AgentRuns \ {r} : \A k \in 1..N : <<q, k>> # Current(r)
  BY <1>1, OwnCall
<1>3. PICK s \in {"running", "ready", "ended", "heard"}, where \in {"execute", "next", "ended"} :
         /\ call' = [call EXCEPT ![Current(r)] = s] /\ LoopGoes(r, where)
         /\ where = "ended" => at[r] = "start" /\ s = "ended" /\ next' = next
         /\ where = "execute" => toolExecution = "sequential" /\ next' = next
         /\ where = "next" => toolExecution = "parallel" /\ next' = [next EXCEPT ![r] = @ + 1]
  <2>1. CASE CallPrepared(r)  BY <2>1 DEF CallPrepared
  <2>2. CASE Immediate(r)  BY <2>2 DEF Immediate, LoopAt
  <2>3. CASE ImmediateHeard(r)  BY <2>3 DEF ImmediateHeard
  <2> QED  BY <2>1, <2>2, <2>3
<1>4. /\ call' \in [Calls -> CallStates]
      /\ call'[Current(r)] = s /\ \A c \in Calls \ {Current(r)} :
            call'[c] = call[c]
  BY <1>1, <1>2, <1>3, OneCall DEF CallStates
<1>5. \A k \in 1..N : call'[<<r, k>>] # "waiting" <=> k <= next[r]
  <2> TAKE k \in 1..N
  <2>1. CASE k = next[r]  BY <2>1, <1>2, <1>4 DEF Current
  <2>2. CASE k # next[r]
    <3>1. <<r, k>> \in Calls \ {Current(r)}  BY <2>2, CallsAre DEF Current
    <3> QED  BY <3>1, <1>1, <1>4 DEF ReachedUpTo
  <2> QED  BY <2>1, <2>2
<1>6. \A c \in Calls : updates[c] > 0 => call'[c] = call[c]
  BY <1>1, <1>4 DEF Reports
<1>7. \A q \in AgentRuns \ {r} : \A k \in 1..N : call'[<<q, k>>] = call[<<q, k>>]
  BY <1>2, <1>4, CallsAre
<1>8. /\ next' \in [AgentRuns -> 1..(N + 1)] /\ \A q \in AgentRuns \ {r} : next'[q] = next[q]
      /\ next'[r] = IF where = "next" THEN next[r] + 1 ELSE next[r]
  <2>1. next \in [AgentRuns -> 1..(N + 1)] /\ next[r] + 1 \in 1..(N + 1)
    BY <1>1, <1>2 DEF ToolTypes
  <2>2. CASE where = "next"
    <3>1. next' = [next EXCEPT ![r] = @ + 1]  BY <2>2, <1>3
    <3> QED  BY <2>1, <2>2, <3>1
  <2>3. CASE where # "next"
    <3>1. next' = next  BY <2>3, <1>3
    <3> QED  BY <2>1, <2>3, <3>1
  <2> QED  BY <2>2, <2>3
<1>9. ASSUME at'[r] = where, activeRun = r  PROVE Preparing(r)' /\ Giving(r)' /\ Ending(r)'
  <2>1. ReachedUpTo(r, next[r])  BY <1>1
  <2>2. \A k \in 1..N : <<r, k>> \in Given' <=> <<r, k>> \in Given
    BY <1>1 DEF Given
  <2>3. toolExecution' = toolExecution /\ activeRun' = r  BY <1>1, <1>9 DEF loopControl
  <2>4. CASE where = "next"
    <3>1. next'[r] - 1 = next[r]  BY <2>4, <1>2, <1>8
    <3>2. ReachedUpTo(r, next[r] - 1)'  BY <1>5, <3>1 DEF ReachedUpTo
    <3>3. GivenUpTo(r, 0)'  BY <1>1, <1>3, <2>2, <2>4 DEF GivenUpTo
    <3> QED  BY <1>3, <1>9, <2>3, <2>4, <3>2, <3>3 DEF Preparing, Giving, Ending, LoopAt, LoopRuns
  <2>5. CASE where = "execute"
    <3>1. next'[r] = next[r] /\ toolExecution = "sequential"  BY <2>5, <1>3, <1>8
    <3>2. ReachedUpTo(r, next[r])'  BY <1>5, <3>1 DEF ReachedUpTo
    <3>3. GivenUpTo(r, next[r] - 1)'  BY <1>1, <2>2, <3>1 DEF GivenUpTo
    <3> QED
      BY <1>2, <1>9, <2>3, <2>5, <3>1, <3>2, <3>3 DEF Preparing, Giving, Ending, LoopAt, LoopRuns
  <2>6. CASE where = "ended"
    <3>1. next'[r] = next[r] /\ s = "ended" /\ next' = next  BY <2>6, <1>3
    <3>2. ReachedUpTo(r, next[r])'  BY <1>5, <3>1 DEF ReachedUpTo
    <3>3. GivenUpTo(r, IF toolExecution = "parallel" THEN 0 ELSE next[r] - 1)'
      BY <1>1, <2>2, <2>3, <3>1 DEF GivenUpTo
    <3>4. call'[Current(r)'] = "ended"  BY <1>4, <3>1 DEF Current
    <3> QED
      BY <1>2, <1>9, <2>3, <2>6, <3>1, <3>2, <3>3, <3>4
         DEF Preparing, Giving, Ending, LoopAt, LoopRuns
  <2> QED  BY <2>4, <2>5, <2>6
<1>10. at[r] \in LoopRuns /\ where \in LoopRuns  BY <1>1 DEF LoopRuns
<1> QED  BY <1>1, <1>3, <1>4, <1>6, <1>7, <1>8, <1>9, <1>10, RunMoves

\* A parallel batch starts, or a sequential one is over.
LEMMA BatchStarts ==
    ASSUME ToolsInv, NEW r \in AgentRuns, BatchPrepared(r)
    PROVE  ToolsInv'
<1>1. /\ at[r] = "next" /\ (next[r] > N \/ (next[r] > 1 /\ r \in signalled))
      /\ UNCHANGED <<loopControl, reports, messages, failures>>
      /\ GivenUpTo(r, IF toolExecution = "parallel" THEN 0 ELSE next[r] - 1)
      /\ ReachedUpTo(r, next[r] - 1) /\ ToolTypes /\ Reports
  BY DEF BatchPrepared, LoopAt, ToolsInv, Preparing
<1>2. N \in Nat \ {0} /\ next[r] \in 1..(N + 1)  BY OwnCall
<1>3. \A k \in 1..N : <<r, k>> \in Given' <=> <<r, k>> \in Given
  BY <1>1 DEF Given
<1>4. toolExecution' = toolExecution /\ signalled' = signalled /\ activeRun' = activeRun
  BY <1>1 DEF loopControl
<1>5. at[r] \in LoopRuns  BY <1>1 DEF LoopRuns
<1>a. CASE toolExecution = "sequential" /\ LoopGoes(r, "turn_end") /\ next' = next /\ call' = call
  <2>1. ASSUME at'[r] = "turn_end", activeRun = r
        PROVE  Preparing(r)' /\ Giving(r)' /\ Ending(r)'
    <3>1. r \notin signalled => next[r] - 1 = N  BY <1>1, <1>2
    <3>2. GivenUpTo(r, next[r] - 1)  BY <1>1, <1>a
    <3>3. r \notin signalled => GivenUpTo(r, N)'  BY <1>3, <3>1, <3>2 DEF GivenUpTo
    <3> QED  BY <1>4, <2>1, <3>3 DEF Preparing, Giving, Ending, LoopAt, LoopRuns
  <2>2. "turn_end" \in LoopRuns  BY DEF LoopRuns
  <2> QED  BY <1>1, <1>5, <1>a, <2>1, <2>2, RunMoves DEF ToolTypes
<1>b. CASE /\ toolExecution = "parallel" /\ LoopGoes(r, "execute") /\ next' = [next EXCEPT ![r] = 1]
           /\ call' = [c \in Calls |-> IF c[1] = r /\ call[c] = "ready"
                                          THEN "running" ELSE call[c]]
  <2>1. \A c \in Calls : call'[c] = IF c[1] = r
           /\ call[c] = "ready" THEN "running" ELSE call[c]
    BY <1>b
  <2>2. call' \in [Calls -> CallStates]
    BY <1>1, <1>b DEF ToolTypes, CallStates
  <2>3. \A c \in Calls : updates[c] > 0 => call'[c] = call[c]  BY <1>1, <2>1 DEF Reports
  <2>4. \A q \in AgentRuns \ {r} : \A k \in 1..N : call'[<<q, k>>] = call[<<q, k>>]
    BY <2>1, CallsAre
  <2>5. \A k \in 1..N : call'[<<r, k>>] # "waiting" <=> k <= next[r] - 1
    BY <1>1, <2>1, CallsAre DEF ReachedUpTo
  <2>6. /\ next' \in [AgentRuns -> 1..(N + 1)] /\ next'[r] = 1
        /\ \A q \in AgentRuns \ {r} : next'[q] = next[q]
    BY <1>1, <1>2, <1>b DEF ToolTypes
  <2>7. ASSUME at'[r] = "execute", activeRun = r
        PROVE  Preparing(r)' /\ Giving(r)' /\ Ending(r)'
    <3>1. next[r] - 1 \in 1..N /\ (r \notin signalled => next[r] - 1 = N)  BY <1>1, <1>2
    <3>2. GivenUpTo(r, 0)'  BY <1>1, <1>3, <1>b DEF GivenUpTo
    <3>3. \A n \in 1..N : n = next[r] - 1 => ReachedUpTo(r, n)'  BY <2>5 DEF ReachedUpTo
    <3>4. next'[r] - 1 = 0 /\ next'[r] <= N  BY <1>2, <2>6
    <3>5. Giving(r)'
      <4>1. GivenUpTo(r, next[r] - 1)'  BY <3>2, <3>4 DEF GivenUpTo
      <4>2. \E n \in 1..N : ReachedUpTo(r, n)' /\ (r \notin signalled => n = N)
        BY <3>1, <3>3
      <4> QED  BY <1>4, <1>b, <2>6, <2>7, <3>4, <4>1, <4>2 DEF Giving, LoopAt
    <3> QED  BY <1>4, <2>7, <3>5 DEF Preparing, Ending, LoopAt, LoopRuns
  <2>8. "execute" \in LoopRuns  BY DEF LoopRuns
  <2> QED  BY <1>1, <1>5, <1>b, <2>2, <2>3, <2>4, <2>6, <2>7, <2>8, RunMoves
<1> QED  BY <1>a, <1>b DEF BatchPrepared

\* The next result, the next call, or the end of the turn.
LEMMA HeardStep ==
    ASSUME ToolsInv, NEW r \in AgentRuns, ResultHeard(r)
    PROVE  ToolsInv'
<1>1. /\ at[r] = "result" /\ UNCHANGED <<loopControl, call, reports, messages, failures>>
      /\ GivenUpTo(r, next[r]) /\ next[r] <= N
      /\ toolExecution = "sequential" => ReachedUpTo(r, next[r])
      /\ toolExecution = "parallel" =>
            \E n \in next[r]..N : ReachedUpTo(r, n) /\ (r \notin signalled => n = N)
      /\ ToolTypes /\ Reports
  BY DEF ResultHeard, LoopAt, ToolsInv, Giving
<1>2. N \in Nat \ {0} /\ next[r] \in 1..N  BY <1>1, OwnCall
<1>3. \A k \in 1..N : <<r, k>> \in Given' <=> <<r, k>> \in Given
  BY <1>1 DEF Given
<1>4. /\ toolExecution' = toolExecution /\ signalled' = signalled /\ activeRun' = activeRun
      /\ call' = call
  BY <1>1 DEF loopControl
<1>5. at[r] \in LoopRuns /\ {"next", "execute", "turn_end"} \subseteq LoopRuns
  BY <1>1 DEF LoopRuns
<1>6. next' = [next EXCEPT ![r] = @ + 1] =>
         /\ next' \in [AgentRuns -> 1..(N + 1)] /\ next'[r] = next[r] + 1 /\ next'[r] - 1 = next[r]
         /\ \A q \in AgentRuns \ {r} : next'[q] = next[q]
  BY <1>1, <1>2 DEF ToolTypes
<1>7. \A k \in 1..N : <<r, k>> \in Given' <=> k <= next[r]  BY <1>1, <1>3 DEF GivenUpTo
<1>8. call' \in [Calls -> CallStates]
  BY <1>1 DEF ToolTypes
<1>9. ASSUME NEW n \in next[r]..N, ReachedUpTo(r, n)
      PROVE  <<r, next[r] + 1>> \in Reached(r) <=> next[r] < n
  <2>1. CASE next[r] < n
    <3>1. next[r] + 1 \in 1..N /\ next[r] + 1 <= n  BY <2>1, <1>2
    <3>2. call[<<r, next[r] + 1>>] # "waiting"  BY <3>1, <1>9 DEF ReachedUpTo
    <3> QED  BY <2>1, <3>1, <3>2, CallsAre DEF Reached
  <2>2. CASE ~ (next[r] < n)
    <3>1. ~ (next[r] + 1 <= n)  BY <2>2, <1>2
    <3>2. ASSUME next[r] + 1 \in 1..N  PROVE call[<<r, next[r] + 1>>] = "waiting"
      BY <3>1, <3>2, <1>9 DEF ReachedUpTo
    <3>3. <<r, next[r] + 1>> \in Calls => next[r] + 1 \in 1..N  BY DEF Calls
    <3> QED  BY <2>2, <3>2, <3>3 DEF Reached
  <2> QED  BY <2>1, <2>2
<1>a. CASE toolExecution = "sequential" /\ LoopGoes(r, "next") /\ next' = [next EXCEPT ![r] = @ + 1]
  <2>1. ASSUME at'[r] = "next", activeRun = r
        PROVE  Preparing(r)' /\ Giving(r)' /\ Ending(r)'
    <3>1. GivenUpTo(r, next[r] - 1)'  BY <1>6, <1>7, <1>a DEF GivenUpTo
    <3>2. ReachedUpTo(r, next[r] - 1)'  BY <1>1, <1>6, <1>a DEF ReachedUpTo
    <3> QED
      BY <1>4, <1>a, <2>1, <3>1, <3>2 DEF Preparing, Giving, Ending, LoopAt, LoopRuns
  <2> QED  BY <1>1, <1>5, <1>6, <1>8, <1>a, <2>1, RunMoves
<1>b. CASE /\ toolExecution = "parallel" /\ <<r, next[r] + 1>> \in Reached(r)
           /\ LoopGoes(r, "execute") /\ next' = [next EXCEPT ![r] = @ + 1]
  <2>1. ASSUME at'[r] = "execute", activeRun = r
        PROVE  Preparing(r)' /\ Giving(r)' /\ Ending(r)'
    <3>1. GivenUpTo(r, next[r] - 1)'  BY <1>6, <1>7, <1>b DEF GivenUpTo
    <3>2. PICK n \in next[r]..N : ReachedUpTo(r, n) /\ (r \notin signalled => n = N)
      BY <1>1, <1>b
    <3>3. n \in (next[r] + 1)..N /\ next[r] + 1 <= N
      <4>1. next[r] < n  BY <1>9, <1>b, <3>2
      <4> QED  BY <1>2, <4>1
    <3>4. ReachedUpTo(r, n)'  BY <1>4, <3>2 DEF ReachedUpTo
    <3>5. Giving(r)'
      BY <1>4, <1>6, <1>b, <2>1, <3>1, <3>2, <3>3, <3>4 DEF Giving, LoopAt
    <3> QED  BY <1>4, <2>1, <3>5 DEF Preparing, Ending, LoopAt, LoopRuns
  <2> QED  BY <1>1, <1>5, <1>6, <1>8, <1>b, <2>1, RunMoves
<1>c. CASE /\ toolExecution = "parallel" /\ <<r, next[r] + 1>> \notin Reached(r)
           /\ LoopGoes(r, "turn_end") /\ next' = next
  <2>1. ASSUME at'[r] = "turn_end", activeRun = r
        PROVE  Preparing(r)' /\ Giving(r)' /\ Ending(r)'
    <3>1. r \notin signalled => next[r] = N
      <4>1. PICK n \in next[r]..N : ReachedUpTo(r, n) /\ (r \notin signalled => n = N)
        BY <1>1, <1>c
      <4>2. ~ (next[r] < n)  BY <1>9, <1>c, <4>1
      <4> QED  BY <1>2, <4>1, <4>2
    <3>2. r \notin signalled => GivenUpTo(r, N)'  BY <1>7, <3>1 DEF GivenUpTo
    <3> QED  BY <1>4, <2>1, <3>2 DEF Preparing, Giving, Ending, LoopAt, LoopRuns
  <2>2. next' \in [AgentRuns -> 1..(N + 1)]  BY <1>1, <1>c DEF ToolTypes
  <2> QED  BY <1>1, <1>5, <1>8, <1>c, <2>1, <2>2, RunMoves
<1>d. /\ LoopAt(r, "result")
      /\ \/ toolExecution = "sequential" /\ LoopGoes(r, "next")
               /\ next' = [next EXCEPT ![r] = @ + 1]
         \/ /\ toolExecution = "parallel" /\ <<r, next[r] + 1>> \in Reached(r)
            /\ LoopGoes(r, "execute") /\ next' = [next EXCEPT ![r] = @ + 1]
         \/ /\ toolExecution = "parallel" /\ <<r, next[r] + 1>> \notin Reached(r)
            /\ LoopGoes(r, "turn_end") /\ next' = next
  BY Zenon DEF ResultHeard
<1> QED  BY <1>a, <1>b, <1>c, <1>d, Zenon

\* The end of a turn and of a run.
LEMMA BatchEnds ==
    ASSUME ToolsInv, NEW r \in AgentRuns, TurnEnd(r)
              \/ AgentEndHeard(r)
    PROVE  ToolsInv'
<1>1. ToolTypes /\ Reports /\ Ending(r)  BY DEF ToolsInv
<1>2. \A k \in 1..N : <<r, k>> \in Given' <=> <<r, k>> \in Given
  BY DEF TurnEnd, AgentEndHeard, Given
<1>a. CASE TurnEnd(r)
  <2>1. /\ at[r] \in {"turn_end", "failing"} /\ LoopGoes(r, "agent_end")
        /\ UNCHANGED <<loopControl, next, call, reports, messages, failures>>
    BY <1>a DEF TurnEnd
  <2>2. ASSUME at'[r] = "agent_end", activeRun = r
        PROVE  Preparing(r)' /\ Giving(r)' /\ Ending(r)'
    <3>1. r \notin signalled /\ failures[r] = 0 => GivenUpTo(r, N)
      <4>1. failures[r] \in Nat  BY <1>1 DEF ToolTypes
      <4> QED  BY <1>1, <2>1, <4>1 DEF Ending, LoopAt
    <3>2. GivenUpTo(r, N) => GivenUpTo(r, N)'  BY <1>2 DEF GivenUpTo
    <3> QED
      BY <2>1, <2>2, <3>1, <3>2 DEF Preparing, Giving, Ending, LoopAt, LoopRuns, loopControl
  <2>3. at[r] \in LoopRuns /\ "agent_end" \in LoopRuns  BY <2>1 DEF LoopRuns
  <2> QED  BY <1>1, <2>1, <2>2, <2>3, RunMoves DEF ToolTypes
<1>b. CASE AgentEndHeard(r)
  <2>1. /\ at[r] = "agent_end" /\ at' = [at EXCEPT ![r] = "over"]
        /\ UNCHANGED <<toolExecution, signalled, next, call, reports, messages, failures>>
    BY <1>b DEF AgentEndHeard, FinishRun, LoopAt, LoopGoes
  <2>2. ToolTypes' /\ Reports'  BY <1>1, <2>1 DEF ToolTypes, Reports, reports, LoopPositions
  <2>3. at'[r] = "over" /\ \A q \in AgentRuns \ {r} : at'[q] = at[q]  BY <1>1, <2>1 DEF ToolTypes
  <2>4. \A q \in AgentRuns \ {r} : at[q] \notin LoopRuns
    <3>1. at[r] \in LoopRuns  BY <2>1 DEF LoopRuns
    <3> QED  BY <3>1, OwnCall
  <2>5. Preparing(r)' /\ Giving(r)' /\ Ending(r)'
    <3>1. r \notin signalled /\ failures[r] = 0 => GivenUpTo(r, N)
      BY <1>1, <2>1 DEF Ending
    <3>2. GivenUpTo(r, N) => GivenUpTo(r, N)'  BY <1>2 DEF GivenUpTo
    <3> QED  BY <2>1, <2>3, <3>1, <3>2 DEF Preparing, Giving, Ending, LoopAt, LoopRuns
  <2> QED  BY <2>1, <2>2, <2>3, <2>4, <2>5, OneRunStep
<1> QED  BY <1>a, <1>b

\* Every step keeps the invariant.
LEMMA ToolsSteps ==
    ASSUME ToolsInv, [ToolsNext]_toolVars
    PROVE  ToolsInv'
<1>1. ASSUME NEW r \in AgentRuns, LoopStep(r)  PROVE ToolsInv'
  BY <1>1, BatchEnds, RaiseSteps, CallStarts, DecideSteps, BatchStarts, ExecutedStep, HeardStep
     DEF LoopStep
<1> QED  BY <1>1, ToolPrompt, ToolAbort, CallSteps DEF ToolsNext

\* ... so it always holds.
LEMMA ToolsHold == ToolsSpec => []ToolsInv
<1>1. ToolsInit => ToolsInv  BY ToolsInitial
<1>2. ToolsInv /\ [ToolsNext]_toolVars => ToolsInv'  BY ToolsSteps
<1> QED  BY <1>1, <1>2, PTL DEF ToolsSpec

\* However the tools of a batch finish, sequential or parallel, with aborts and listeners that
\* raise, emitToolResultMessage gives the results in the order of the calls, none twice, none
\* left out in between, all of them when nothing went wrong, and the end of a call is told after
\* all of its progress: for any runs, size of a batch, reports and failures.
THEOREM ResultsComeInOrder == ToolsSpec => []ResultsInOrder
<1>1. ASSUME ToolsInv  PROVE ResultsInOrder
  <2>1. Transcript /\ ToolTypes /\ Reports  BY <1>1 DEF ToolsInv
  <2>2. ASSUME NEW r \in AgentRuns, LoopAt(r, "over"), r \notin signalled, failures[r] = 0
        PROVE  {r} \X (1..N) \subseteq Given
    <3>1. GivenUpTo(r, N)  BY <1>1, <2>2 DEF ToolsInv, Ending, LoopAt
    <3>2. \A k \in 1..N : <<r, k>> \in Given  BY <3>1, ToolsAssumption DEF GivenUpTo
    <3> QED  BY <3>2
  <2>3. ASSUME NEW c \in Calls, call[c] \in {"ended", "heard"}  PROVE updates[c] = 0
    <3>1. updates[c] \in Nat  BY <2>1 DEF ToolTypes
    <3>2. ~ (updates[c] > 0)  BY <2>1, <2>3 DEF Reports
    <3> QED  BY <3>1, <3>2
  <2> QED  BY <2>1, <2>2, <2>3 DEF Transcript, ResultsInOrder
<1> QED  BY <1>1, ToolsHold, PTL

\* prepareToolCall looks at the signal after its hook: a call that was not prepared when its run
\* was aborted never reaches its tool, and no call of a run that is over does, for any runs and
\* any size of a batch.
THEOREM NoneStartsAborted == ToolsSpec => AbortedNeverStarts
<1>1. ASSUME ToolsInv, [ToolsNext]_toolVars, NEW c \in Calls, call[c] # "running",
                call'[c] = "running"
      PROVE  c[1] = activeRun /\ (c[1] \in signalled => call[c] = "ready")
  <2>1. \E r \in AgentRuns : CallPrepared(r) \/ BatchPrepared(r)
    <3>1. ToolTypes  BY <1>1 DEF ToolsInv
    <3>2. call' # call  BY <1>1
    <3>3. ASSUME NEW r \in AgentRuns, LoopStep(r)
          PROVE CallPrepared(r) \/ BatchPrepared(r)
      <4>1. \A s : call' = [call EXCEPT ![Current(r)] = s] => s = "running"
        BY <1>1, <3>1 DEF ToolTypes
      <4> QED
        BY <3>2, <3>3, <4>1
           DEF LoopStep, TurnEnd, AgentEndHeard, EventRaises, StartCall,
               Immediate, ImmediateHeard, Executed,
               ResultUnheard, ResultHeard
    <3>4. ASSUME NEW d \in Calls  PROVE ~ (Update(d) \/ Execution(d))
      <4>1. \A s : call' = [call EXCEPT ![d] = s] => s = "running"
        BY <1>1, <3>1 DEF ToolTypes
      <4> QED
        BY <3>2, <4>1
           DEF Execution, Update, UpdateHeard, Return, Finalize,
               EndHeard, CallRaises
    <3> QED  BY <1>1, <3>2, <3>3, <3>4 DEF ToolsNext, AgentPrompt, AgentAbort, toolVars
  <2>2. PICK r \in AgentRuns : CallPrepared(r) \/ BatchPrepared(r)  BY <2>1
  <2>3. activeRun = r /\ ToolTypes
    BY <1>1, <2>2 DEF ToolsInv, Ending, CallPrepared, BatchPrepared, LoopAt, LoopRuns
  <2>4. CASE CallPrepared(r)
    <3>1. \E s : call' = [call EXCEPT ![Current(r)] = s]  BY <2>4 DEF CallPrepared
    <3>2. c = Current(r)  BY <1>1, <2>3, <3>1 DEF ToolTypes
    <3> QED  BY <2>3, <2>4, <3>2 DEF CallPrepared, Current
  <2>5. CASE BatchPrepared(r)
    <3>1. call' = call
          \/ call' = [d \in Calls |-> IF d[1] = r /\ call[d] = "ready"
                                         THEN "running" ELSE call[d]]
      BY <2>5 DEF BatchPrepared
    <3> QED  BY <1>1, <2>3, <3>1
  <2> QED  BY <2>2, <2>4, <2>5
<1>2. ToolsInv /\ [ToolsNext]_toolVars =>
         [\A c \in Calls :
            call[c] # "running" /\ call'[c] = "running" =>
               /\ c[1] = activeRun
               /\ c[1] \in signalled => call[c] = "ready"]_toolVars
  BY <1>1
<1> QED  BY <1>2, ToolsHold, PTL DEF ToolsSpec, AbortedNeverStarts
=============================================================================
