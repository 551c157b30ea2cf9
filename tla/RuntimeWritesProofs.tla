------------------------ MODULE RuntimeWritesProofs ------------------------
(***************************************************************************)
(* Proofs about RuntimeWrites.  ChainInv and OwnInv speak of the threads, the *)
(* chains and _operations; MemoryInv adds the index and the effects; DiskInv *)
(* the lines of the file, as long as no line of it is garbled.  PromiseInv is *)
(* the case without torn lines, FileInv the order and the numbers of the      *)
(* lines: what ExactlyOnce and AlwaysLoadable rest on.  RunnerInv says that    *)
(* whatever is running has a thread: why nobody waits in vain.                *)
(***************************************************************************)
EXTENDS RuntimeWrites, TLAPS

Line(op, request, response) ==
    \E i \in DOMAIN disk :
        /\ disk[i] # Garbled
        /\ disk[i].op = op
        /\ disk[i].request = request
        /\ disk[i].response = response

AnyLine(op) == \E q \in Requests, r \in Responses \cup {NoResponse} : Line(op, q, r)

TerminalLine(op) == \E q \in Requests, r \in Responses : Line(op, q, r)

Gone == \E i \in DOMAIN disk : disk[i] = Garbled

Owner(t) == call[t].at \in Working \cup {"queued"}

ChainInv ==
    /\ mode # "up" => /\ \A t \in Threads : call[t] = Idle
                      /\ \A a \in Attempts : chain[a] = <<>>
    /\ \A a \in Attempts : \A i, j \in DOMAIN chain[a] : i # j => chain[a][i] # chain[a][j]
    /\ \A a \in Attempts : \A i \in DOMAIN chain[a] : \A t \in Threads :
          chain[a][i] = t => Owner(t) /\ AttemptAt(t) = a
    /\ \A t \in Threads : Owner(t) =>
          \E i \in DOMAIN chain[AttemptAt(t)] : chain[AttemptAt(t)][i] = t
    /\ \A t \in Threads : call[t].at \in Working =>
          chain[AttemptAt(t)] # <<>> /\ chain[AttemptAt(t)][1] = t

OwnInv ==
    /\ \A t \in Threads : Owner(t) =>
          state[call[t].op] = Running(call[t].request)
    /\ \A t, u \in Threads : Owner(t) /\ Owner(u) /\ call[t].op = call[u].op => t = u
    /\ \A t \in Threads : call[t].at = "joined" =>
          state[call[t].op] # NoState /\ state[call[t].op].request = call[t].request

MemoryInv ==
    /\ \A op \in Operations : effects[op] <= 1
    /\ \A x, y \in answers : x[1] = y[1] => x = y
    /\ mode # "down" =>
        /\ \A op \in Operations : state[op] = NoState => index[op] = NoRecord /\ effects[op] = 0
        /\ \A t \in Threads : call[t].at \in {"queued", "accepting"} =>
              index[call[t].op] = NoRecord /\ effects[call[t].op] = 0
        /\ \A t \in Threads : call[t].at = "performing" => effects[call[t].op] = 0
        /\ \A t \in Threads : call[t].at \in {"finishing", "publishing"} => call[t].response \in Responses
        /\ \A x \in answers : state[x[1]] = Answered(x[2], x[3])

DiskInv ==
    /\ \A op \in Operations : effects[op] = 1 => AnyLine(op)
    /\ \A op \in Operations : \A q1, q2 \in Requests : \A r1, r2 \in Responses \cup {NoResponse} :
          Line(op, q1, r1) /\ Line(op, q2, r2) =>
            q1 = q2 /\ (r1 = r2 \/ r1 = NoResponse \/ r2 = NoResponse)
    /\ \A x \in answers : Line(x[1], x[2], x[3])
    /\ mode # "down" =>
        /\ \A op \in Operations : state[op] = NoState => ~ AnyLine(op)
        /\ \A t \in Threads : call[t].at \in {"queued", "accepting"} => ~ AnyLine(call[t].op)
        /\ \A t \in Threads : call[t].at \in {"performing", "finishing"} =>
              Line(call[t].op, call[t].request, NoResponse) /\ ~ TerminalLine(call[t].op)
        /\ \A t \in Threads : call[t].at = "publishing" =>
              Line(call[t].op, call[t].request, call[t].response)
        /\ \A op \in Operations : state[op] # NoState /\ state[op].status = "answered" =>
              Line(op, state[op].request, state[op].response)
        /\ mode = "recovering" =>
              \A op \in Operations : state[op] # NoState /\ state[op].status = "running" =>
                  Line(op, state[op].request, NoResponse) /\ ~ TerminalLine(op)

Inv == TypeOK /\ ChainInv /\ OwnInv /\ MemoryInv /\ (~Gone => DiskInv)
-----------------------------------------------------------------------------
LEMMA IdleIs == Idle \in Calls /\ Idle.at = "idle"
<1>1. PICK s \in Submissions : TRUE
  BY WritesAssumption
<1>2. s[1] \in Operations /\ s[2] \in Requests
  BY <1>1, WritesAssumption
<1> DEFINE c == [at |-> "idle", op |-> s[1], request |-> s[2], response |-> NoResponse]
<1>3. c \in Calls /\ c.at = "idle"
  BY <1>2 DEF Calls, Positions
<1> QED
  BY <1>3, Zenon DEF Idle

\* What an append of either kind does to the lines, if it leaves none garbled.
LEMMA AppendedLine ==
  ASSUME TypeOK, NEW op \in Operations, NEW q \in Requests, NEW r \in Responses \cup {NoResponse},
         NEW outcome \in {"ok", "unsynced"}, AppendRecord(op, q, r, outcome), ~Gone'
  PROVE  /\ ~Gone
         /\ \A o, q1, r1 : Line(o, q1, r1)' <=> (Line(o, q1, r1) \/ (o = op /\ q1 = q /\ r1 = r))
<1> DEFINE record == [seq |-> next, op |-> op, request |-> q, response |-> r]
<1>1. disk' = Append(disk, IF tail = "torn" THEN Garbled ELSE record)
  BY DEF AppendRecord, Written
<1>2. disk \in Seq(Records \cup {Garbled}) /\ record \in Records /\ Garbled \notin Records
  BY JournalAssumption DEF TypeOK, JournalTypeOK, Records
<1> HIDE DEF record
<1>3. /\ DOMAIN disk' = DOMAIN disk \cup {Len(disk) + 1}
      /\ \A i \in DOMAIN disk : disk'[i] = disk[i]
      /\ disk'[Len(disk) + 1] = IF tail = "torn" THEN Garbled ELSE record
  BY <1>1, <1>2
<1>4. disk'[Len(disk) + 1] = record
  BY <1>3 DEF Gone
<1>5. ~Gone
  BY <1>3 DEF Gone
<1>6. record.op = op /\ record.request = q /\ record.response = r /\ record # Garbled
  BY <1>2 DEF record
<1>7. ASSUME NEW o, NEW q1, NEW r1
      PROVE  Line(o, q1, r1)' <=> (Line(o, q1, r1) \/ (o = op /\ q1 = q /\ r1 = r))
  BY <1>3, <1>4, <1>6 DEF Line
<1> QED
  BY <1>5, <1>7

LEMMA SameLines ==
  ASSUME disk' = disk
  PROVE  /\ Gone' <=> Gone
         /\ \A o, q, r : Line(o, q, r)' <=> Line(o, q, r)
  BY DEF Gone, Line

\* What load finds of an operation in a file it accepts.
LEMMA StoredIs ==
  ASSUME TypeOK, Loadable, NEW op \in Operations
  PROVE  /\ ~Gone
         /\ Stored(op) \in Records \cup {NoRecord}
         /\ Stored(op) = NoRecord <=> ~ AnyLine(op)
         /\ Stored(op) # NoRecord => Line(op, Stored(op).request, Stored(op).response)
         /\ Stored(op) # NoRecord /\ Stored(op).response = NoResponse => ~ TerminalLine(op)
<1>1. disk \in Seq(Records \cup {Garbled}) /\ Garbled \notin Records /\ NoRecord \notin Records /\ NoResponse \notin Responses
  BY JournalAssumption DEF TypeOK, JournalTypeOK
<1>2. ~Gone /\ \A i \in DOMAIN disk : disk[i] \in Records
  BY <1>1 DEF Loadable, Gone
<1>3. \A i \in DOMAIN disk : disk[i].request \in Requests /\ disk[i].response \in Responses \cup {NoResponse}
  BY <1>2 DEF Records
<1>4. AnyLine(op) <=> Lines(op) # {}
  BY <1>2, <1>3 DEF AnyLine, Line, Lines
<1>5. CASE Lines(op) = {}
  BY <1>2, <1>4, <1>5 DEF Stored
<1>6. CASE Lines(op) # {}
  <2>0. Lines(op) \subseteq Nat /\ Lines(op) \subseteq DOMAIN disk
    BY <1>1 DEF Lines
  <2>1. \E i \in Lines(op) : \A j \in Lines(op) : j <= i
    <3>1. CASE \E i \in Lines(op) : disk[i].response # NoResponse
      <4>1. PICK i \in Lines(op) : disk[i].response # NoResponse
        BY <3>1
      <4>2. i \in DOMAIN disk /\ disk[i].op = op
        BY DEF Lines
      <4>3. \E j \in Lines(op) : j < i /\ Lines(op) = {i, j}
        BY <4>1, <4>2 DEF Loadable
      <4> QED
        BY <4>3, <2>0
    <3>2. CASE \A i \in Lines(op) : disk[i].response = NoResponse
      <4>1. PICK i \in Lines(op) : TRUE
        BY <1>6
      <4>2. \A k \in Lines(op) : \A j \in Lines(op) : j >= k
        BY <3>2 DEF Loadable, Lines
      <4> QED
        BY <4>1, <4>2, <2>0
    <3> QED
      BY <3>1, <3>2
  <2>2. LastLine(op) \in Lines(op) /\ \A j \in Lines(op) : j <= LastLine(op)
    BY <2>1, Zenon DEF LastLine
  <2> DEFINE l == LastLine(op)
  <2>3. l \in DOMAIN disk /\ Stored(op) = disk[l] /\ disk[l].op = op /\ disk[l] \in Records
    BY <2>2, <1>2, <1>6 DEF Stored, Lines
  <2> HIDE DEF l
  <2>4. Stored(op) # NoRecord /\ disk[l] # Garbled
    BY <2>3, <1>1
  <2>5. Line(op, Stored(op).request, Stored(op).response)
    BY <2>3, <2>4 DEF Line
  <2>6. ASSUME Stored(op).response = NoResponse, TerminalLine(op)
        PROVE  FALSE
    <3>1. PICK i \in Lines(op) : disk[i].response # NoResponse
      BY <2>6, <1>1 DEF TerminalLine, Line, Lines
    <3>2. PICK j \in Lines(op) : j < i /\ Lines(op) = {i, j} /\ disk[j].response = NoResponse
      BY <3>1 DEF Loadable, Lines
    <3>3. l = i
      BY <3>2, <2>2, <2>0 DEF l
    <3> QED
      BY <3>1, <3>3, <2>3, <2>6
  <2> QED
    BY <1>2, <1>4, <1>6, <2>3, <2>4, <2>5, <2>6
<1> QED
  BY <1>5, <1>6
-----------------------------------------------------------------------------
(* Type correctness.                                                        *)

LEMMA AppendTyped ==
  ASSUME JournalTypeOK, NEW op \in Operations, NEW q \in Requests, NEW r \in Responses \cup {NoResponse},
         NEW outcome, AppendRecord(op, q, r, outcome)
  PROVE  JournalTypeOK'
<1> DEFINE record == [seq |-> next, op |-> op, request |-> q, response |-> r]
<1>1. record \in Records /\ disk \in Seq(Records \cup {Garbled}) /\ next \in Nat
  BY DEF JournalTypeOK, Records
<1>2. Append(disk, IF tail = "torn" THEN Garbled ELSE record) \in Seq(Records \cup {Garbled})
  BY <1>1
<1> HIDE DEF record
<1>3. [index EXCEPT ![op] = record] \in [Operations -> Records \cup {NoRecord}]
  BY <1>1 DEF JournalTypeOK
<1>4. CASE outcome = "ok"
  <2>1. /\ disk' = Append(disk, IF tail = "torn" THEN Garbled ELSE record)
        /\ tail' = "none"
        /\ next' = next + 1
        /\ index' = [index EXCEPT ![op] = record]
    BY <1>4 DEF AppendRecord, Written, record
  <2> QED
    BY <1>1, <1>2, <1>3, <2>1 DEF JournalTypeOK
<1>5. CASE outcome = "unsynced"
  BY <1>1, <1>2, <1>5 DEF AppendRecord, Written, JournalTypeOK, record
<1>6. CASE outcome \in {"lost", "torn"}
  BY <1>6 DEF AppendRecord, JournalTypeOK, journalVars
<1> QED
  BY <1>4, <1>5, <1>6 DEF AppendRecord

LEMMA TailTyped == \A s \in Seq(Threads) : s # <<>> => Tail(s) \in Seq(Threads)
  OBVIOUS

\* The parts of TypeOK the threads share.
VolatileOK ==
    /\ state \in [Operations -> States \cup {NoState}]
    /\ chain \in [Attempts -> Seq(Threads)]
    /\ call \in [Threads -> Calls]

LEMMA CallTyped ==
  ASSUME TypeOK, NEW t \in Threads
  PROVE  /\ call[t].op \in Operations
         /\ call[t].request \in Requests
         /\ call[t].response \in Responses \cup {NoResponse}
         /\ AttemptAt(t) \in Attempts
  BY WritesAssumption DEF TypeOK, Calls, AttemptAt

LEMMA UnavailableTyped ==
  ASSUME TypeOK, ChainInv, OwnInv, NEW t \in Threads, Owner(t), BecomesUnavailable(t)
  PROVE  VolatileOK'
<1>1. call[t].op \in Operations /\ AttemptAt(t) \in Attempts /\ call[t].request \in Requests
  BY CallTyped
<1>2. chain[AttemptAt(t)] \in Seq(Threads) /\ chain[AttemptAt(t)] # <<>>
  BY <1>1 DEF TypeOK, ChainInv
<1>3. chain' \in [Attempts -> Seq(Threads)]
  BY <1>1, <1>2, TailTyped DEF BecomesUnavailable, LeaveChain, TypeOK
<1>4. call' \in [Threads -> Calls]
  BY IdleIs DEF BecomesUnavailable, TypeOK
<1>6. Unavailable(call[t].request) \in States
  BY <1>1 DEF States, Unavailable
<1> QED
  BY <1>1, <1>3, <1>4, <1>6 DEF BecomesUnavailable, TypeOK, VolatileOK

LEMMA AppendsTyped ==
  ASSUME TypeOK, NEW t \in Threads, NEW r \in Responses \cup {NoResponse},
         \E outcome \in Outcomes : AppendRecord(call[t].op, call[t].request, r, outcome)
  PROVE  JournalTypeOK'
  BY CallTyped, AppendTyped DEF TypeOK

LEMMA Typed ==
  ASSUME TypeOK, ChainInv, OwnInv, MemoryInv, Next
  PROVE  TypeOK'
<1> USE DEF TypeOK
<1>0. \A s \in Submissions : s[1] \in Operations /\ s[2] \in Requests
  BY WritesAssumption
<1>1. ASSUME mode = "up", NEW t \in Threads, NEW s \in Submissions, Replay(t, s[1], s[2])
      PROVE  TypeOK'
  <2>1. state[s[1]] \in States /\ state[s[1]].status = "answered"
    BY <1>0, <1>1 DEF Replay, Same
  <2>2. state[s[1]].response \in Responses
    BY <2>1 DEF States
  <2> QED
    BY <1>0, <1>1, <2>2 DEF Replay, journalVars, JournalTypeOK
<1>2. ASSUME mode = "up", NEW t \in Threads, NEW s \in Submissions, Join(t, s[1], s[2])
      PROVE  TypeOK'
  BY <1>0, <1>2 DEF Join, journalVars, JournalTypeOK, Calls, Positions
<1>3. ASSUME mode = "up", NEW t \in Threads, NEW s \in Submissions, Register(t, s[1], s[2])
      PROVE  TypeOK'
  <2>1. AttemptOf[s[2]] \in Attempts
    BY <1>0, WritesAssumption
  <2>2. Append(chain[AttemptOf[s[2]]], t) \in Seq(Threads)
    BY <2>1
  <2>3. chain' \in [Attempts -> Seq(Threads)] /\ known' \in SUBSET Attempts
    BY <1>3, <2>1, <2>2 DEF Register
  <2>4. Running(s[2]) \in States
    BY <1>0 DEF States, Running
  <2>5. state' \in [Operations -> States \cup {NoState}]
    BY <1>0, <1>3, <2>4 DEF Register
  <2>6. [at |-> "queued", op |-> s[1], request |-> s[2], response |-> NoResponse] \in Calls
    BY <1>0 DEF Calls, Positions
  <2>7. call' \in [Threads -> Calls]
    BY <1>3, <2>6 DEF Register
  <2> QED
    BY <1>3, <2>3, <2>5, <2>7 DEF Register, journalVars, JournalTypeOK
<1>4. ASSUME NEW t \in Threads, JoinReturns(t)
      PROVE  TypeOK'
  <2>1. call[t].op \in Operations /\ call[t].request \in Requests
    BY CallTyped
  <2>2. ASSUME call[t].at = "joined", state[call[t].op].status = "answered"
        PROVE  state[call[t].op].response \in Responses
    BY <2>1, <2>2 DEF OwnInv, States
  <2>3. answers' \in SUBSET (Operations \X Requests \X Responses)
    BY <1>4, <2>1, <2>2 DEF JoinReturns
  <2>4. call' \in [Threads -> Calls]
    BY <1>4, IdleIs DEF JoinReturns
  <2> QED
    BY <1>4, <2>3, <2>4 DEF JoinReturns, journalVars, JournalTypeOK
<1>5. ASSUME NEW t \in Threads, PrecheckFails(t)
      PROVE  TypeOK'
  <2>1. call[t].op \in Operations /\ AttemptAt(t) \in Attempts
    BY CallTyped
  <2>2. Owner(t)
    BY <1>5 DEF PrecheckFails, MyTurn, Owner
  <2>3. chain[AttemptAt(t)] \in Seq(Threads) /\ chain[AttemptAt(t)] # <<>>
    BY <2>1, <2>2 DEF ChainInv
  <2>4. chain' \in [Attempts -> Seq(Threads)]
    BY <1>5, <2>1, <2>3, TailTyped DEF PrecheckFails, LeaveChain
  <2>5. \A u \in Threads : [call[u] EXCEPT !.at = "refused"] \in Calls
    BY DEF Calls, Positions
  <2>6. call' \in [Threads -> Calls]
    BY <1>5, <2>5, IdleIs DEF PrecheckFails
  <2> QED
    BY <1>5, <2>1, <2>4, <2>6 DEF PrecheckFails, journalVars, JournalTypeOK
<1>6. ASSUME NEW t \in Threads, PrecheckPasses(t)
      PROVE  TypeOK'
  BY <1>6 DEF PrecheckPasses, journalVars, JournalTypeOK, Calls, Positions
<1>7. ASSUME NEW t \in Threads, Begin(t)
      PROVE  TypeOK'
  <2>1. Owner(t)
    BY <1>7 DEF Begin, Owner, Working
  <2>2. JournalTypeOK'
    <3>1. CASE UNCHANGED journalVars
      BY <3>1 DEF journalVars, JournalTypeOK
    <3>2. CASE \E outcome \in Outcomes : AppendRecord(call[t].op, call[t].request, NoResponse, outcome)
      BY <3>2, AppendsTyped
    <3> QED
      BY <1>7, <3>1, <3>2, JournalAssumption DEF Begin, Outcomes
  <2>3. [call[t] EXCEPT !.at = "performing"] \in Calls
    BY DEF Calls, Positions
  <2>4. VolatileOK'
    BY <1>7, <2>1, <2>3, UnavailableTyped DEF Begin, VolatileOK
  <2> QED
    BY <1>7, <2>2, <2>4 DEF Begin, VolatileOK
<1>8. ASSUME NEW t \in Threads, NEW r \in Responses, Perform(t, r)
      PROVE  TypeOK'
  <2>1. call[t].op \in Operations
    BY CallTyped
  <2>2. effects' \in [Operations -> Nat]
    BY <1>8, <2>1 DEF Perform
  <2>3. call' \in [Threads -> Calls]
    BY <1>8, ZenonT(30) DEF Perform, Calls, Positions
  <2> QED
    BY <1>8, <2>2, <2>3 DEF Perform, journalVars, JournalTypeOK
<1>9. ASSUME mode = "up", NEW t \in Threads, Finish(t)
      PROVE  TypeOK'
  <2>1. Owner(t)
    BY <1>9 DEF Finish, Owner, Working
  <2>2. JournalTypeOK'
    <3>1. CASE UNCHANGED journalVars
      BY <3>1 DEF journalVars, JournalTypeOK
    <3>2. CASE \E outcome \in Outcomes : AppendRecord(call[t].op, call[t].request, call[t].response, outcome)
      BY <3>2, AppendsTyped, CallTyped
    <3> QED
      BY <1>9, <3>1, <3>2, JournalAssumption DEF Finish, Outcomes
  <2>3. [call[t] EXCEPT !.at = "publishing"] \in Calls
    BY DEF Calls, Positions
  <2>4. VolatileOK'
    BY <1>9, <2>1, <2>3, UnavailableTyped DEF Finish, VolatileOK
  <2> QED
    BY <1>9, <2>2, <2>4 DEF Finish, VolatileOK
<1>10. ASSUME mode = "up", NEW t \in Threads, Publish(t)
       PROVE  TypeOK'
  <2>1. /\ call[t].op \in Operations /\ call[t].request \in Requests
        /\ AttemptAt(t) \in Attempts /\ call[t].response \in Responses
    BY <1>10, CallTyped DEF Publish, MemoryInv
  <2>2. Owner(t)
    BY <1>10 DEF Publish, Owner, Working
  <2>3. chain[AttemptAt(t)] \in Seq(Threads) /\ chain[AttemptAt(t)] # <<>>
    BY <2>1, <2>2 DEF ChainInv
  <2>4. chain' \in [Attempts -> Seq(Threads)]
    BY <1>10, <2>1, <2>3, TailTyped DEF Publish, LeaveChain
  <2>7. Answered(call[t].request, call[t].response) \in States
    BY <2>1 DEF States, Answered
  <2>8. state' \in [Operations -> States \cup {NoState}]
    BY <1>10, <2>1, <2>7 DEF Publish
  <2>9. call' \in [Threads -> Calls]
    BY <1>10, IdleIs DEF Publish
  <2>10. answers' \in SUBSET (Operations \X Requests \X Responses)
    BY <1>10, <2>1 DEF Publish
  <2> QED
    BY <1>10, <2>4, <2>8, <2>9, <2>10 DEF Publish, journalVars, JournalTypeOK
<1>11. ASSUME NEW t \in Threads, PublishFails(t)
       PROVE  TypeOK'
  <2>1. Owner(t)
    BY <1>11 DEF PublishFails, Owner, Working
  <2> QED
    BY <1>11, <2>1, UnavailableTyped DEF PublishFails, VolatileOK, journalVars, JournalTypeOK
<1>12. CASE Crash
  <2>1. JournalTypeOK'
    <3>1. CASE UNCHANGED journalVars
      BY <3>1 DEF journalVars, JournalTypeOK
    <3>2. ASSUME NEW t \in Threads, NEW r \in Responses \cup {NoResponse},
                 KilledAppend(call[t].op, call[t].request, r)
          PROVE  JournalTypeOK'
      BY <3>2, AppendsTyped DEF KilledAppend, Outcomes
    <3>3. ASSUME NEW op \in Operations, state[op] # NoState, KilledAppend(op, state[op].request, Restarted)
          PROVE  JournalTypeOK'
      <4>1. state[op].request \in Requests /\ Restarted \in Responses
        BY <3>3, WritesAssumption DEF States
      <4> QED
        BY <3>3, <4>1, AppendTyped DEF KilledAppend
    <3> QED
      BY <1>12, <3>1, <3>2, <3>3, CallTyped DEF Crash, Appending
  <2>2. crashes' \in 0..MaxCrashes
    BY <1>12, WritesAssumption DEF Crash
  <2>3. /\ call' \in [Threads -> Calls]
        /\ chain' \in [Attempts -> Seq(Threads)]
        /\ state' \in [Operations -> States \cup {NoState}]
        /\ known' \in SUBSET Attempts
        /\ mode' = "down"
    BY <1>12, IdleIs DEF Crash
  <2> QED
    BY <1>12, <2>1, <2>2, <2>3 DEF Crash
<1>13. CASE Restart
  <2>1. \A op \in Operations : Stored(op) \in Records \cup {NoRecord}
    BY <1>13, StoredIs DEF Restart, Load
  <2>2. \A op \in Operations : Restored(op) \in States \cup {NoState}
    BY <2>1 DEF Restored, Running, Answered, States, Records
  <2>4. known' \in SUBSET Attempts
    <3>1. \A i \in DOMAIN disk : disk[i] \in Records
      BY <1>13 DEF Restart, Load, Loadable, JournalTypeOK
    <3>2. \A i \in DOMAIN disk : disk[i].request \in Requests
      BY <3>1 DEF Records
    <3> QED
      BY <1>13, <3>2, WritesAssumption DEF Restart
  <2>5. JournalTypeOK'
    <3>1. index' \in [Operations -> Records \cup {NoRecord}]
      BY <1>13, <2>1 DEF Restart, Load
    <3>2. next' \in Nat /\ tail' \in {"none", "torn"} /\ disk' = disk
      BY <1>13 DEF Restart, Load, JournalTypeOK
    <3> QED
      BY <3>1, <3>2 DEF JournalTypeOK
  <2> QED
    BY <1>13, <2>2, <2>4, <2>5 DEF Restart
<1>14. ASSUME NEW op \in Operations, RecoverOperation(op)
       PROVE  TypeOK'
  <2>1. state[op] \in States /\ Restarted \in Responses
    BY <1>14, WritesAssumption DEF RecoverOperation
  <2>2. state[op].request \in Requests
    BY <2>1 DEF States
  <2>3. JournalTypeOK'
    BY <1>14, <2>1, <2>2, AppendTyped DEF RecoverOperation
  <2>4. Answered(state[op].request, Restarted) \in States
    BY <2>1, <2>2 DEF States, Answered
  <2>5. state' \in [Operations -> States \cup {NoState}]
    BY <1>14, <2>4 DEF RecoverOperation
  <2> QED
    BY <1>14, <2>3, <2>5 DEF RecoverOperation
<1>15. CASE Recovered
  BY <1>15 DEF Recovered, journalVars, JournalTypeOK
<1> HIDE DEF TypeOK
<1> QED
  BY <1>1, <1>2, <1>3, <1>4, <1>5, <1>6, <1>7, <1>8, <1>9, <1>10, <1>11, <1>12, <1>13, <1>14, <1>15
     DEF Next, Arrival, Step
-----------------------------------------------------------------------------
(* The chains.                                                              *)

\* A step that leaves the chains alone and starts work only at a head.
LEMMA ChainStays ==
  ASSUME TypeOK, ChainInv, mode' = mode, mode = "up", chain' = chain,
         \A u \in Threads : Owner(u)' <=> Owner(u),
         \A u \in Threads : Owner(u) => call'[u].request = call[u].request,
         \A u \in Threads : call'[u].at \in Working =>
             call[u].at \in Working \/ (chain[AttemptAt(u)] # <<>> /\ chain[AttemptAt(u)][1] = u)
  PROVE  ChainInv'
<1>1. \A u \in Threads : Owner(u) => AttemptAt(u)' = AttemptAt(u)
  BY DEF AttemptAt
<1>3. \A a \in Attempts : \A i \in DOMAIN chain'[a] : \A t \in Threads :
         chain'[a][i] = t => Owner(t)' /\ AttemptAt(t)' = a
  BY <1>1 DEF ChainInv
<1>4. \A t \in Threads : Owner(t)' => \E i \in DOMAIN chain'[AttemptAt(t)'] : chain'[AttemptAt(t)'][i] = t
  BY <1>1 DEF ChainInv
<1>5. \A t \in Threads : call'[t].at \in Working => chain'[AttemptAt(t)'] # <<>> /\ chain'[AttemptAt(t)'][1] = t
  <2> SUFFICES ASSUME NEW t \in Threads, call'[t].at \in Working
               PROVE  chain[AttemptAt(t)] # <<>> /\ chain[AttemptAt(t)][1] = t /\ Owner(t)
    BY <1>1
  <2>1. Owner(t)
    BY DEF Owner
  <2> QED
    BY <2>1 DEF ChainInv
<1> QED
  BY <1>3, <1>4, <1>5 DEF ChainInv

\* A step in which the head of a chain leaves it.
LEMMA ChainLeft ==
  ASSUME TypeOK, ChainInv, mode' = mode, mode = "up", NEW t \in Threads, LeaveChain(t),
         chain[AttemptAt(t)] # <<>>, chain[AttemptAt(t)][1] = t,
         call'[t] = Idle,
         \A u \in Threads \ {t} : (Owner(u)' <=> Owner(u)) /\ call'[u].request = call[u].request,
         \A u \in Threads \ {t} : call'[u].at \in Working => call[u].at \in Working
  PROVE  ChainInv'
<1> DEFINE a == AttemptAt(t)
<1>1. a \in Attempts /\ chain[a] \in Seq(Threads) /\ chain[a] # <<>>
  BY CallTyped DEF TypeOK
<1>2. \A b \in Attempts : chain'[b] = IF b = a THEN Tail(chain[a]) ELSE chain[b]
  BY <1>1 DEF LeaveChain, TypeOK
<1>3. /\ DOMAIN Tail(chain[a]) = 1..(Len(chain[a]) - 1)
      /\ \A i \in 1..(Len(chain[a]) - 1) : Tail(chain[a])[i] = chain[a][i + 1] /\ i + 1 \in DOMAIN chain[a]
  BY <1>1
<1>4. \A b \in Attempts : \A i, j \in DOMAIN chain[b] : i # j => chain[b][i] # chain[b][j]
  BY DEF ChainInv
<1>5. \A b \in Attempts : \A i \in DOMAIN chain[b] : \A u \in Threads :
         chain[b][i] = u => Owner(u) /\ AttemptAt(u) = b
  BY DEF ChainInv
<1>6. ~ Owner(t)' /\ call'[t].at \notin Working
  BY IdleIs DEF Owner, Working
<1>7. \A u \in Threads \ {t} : AttemptAt(u)' = AttemptAt(u)
  BY DEF AttemptAt
<1>8. 1 \in DOMAIN chain[a]
  BY <1>1
<1>9. \A b \in Attempts : \A i \in DOMAIN chain'[b] :
         \E k \in DOMAIN chain[b] : chain'[b][i] = chain[b][k] /\ (b = a => k = i + 1) /\ (b # a => k = i)
  BY <1>2, <1>3
<1>10. \A b \in Attempts : \A i \in DOMAIN chain'[b] : chain'[b][i] # t
  <2> SUFFICES ASSUME NEW b \in Attempts, NEW i \in DOMAIN chain'[b], chain'[b][i] = t
               PROVE  FALSE
    OBVIOUS
  <2>1. PICK k \in DOMAIN chain[b] : chain[b][k] = t /\ (b = a => k = i + 1)
    BY <1>9
  <2>2. b = a
    BY <1>5, <2>1
  <2>3. k = 1
    BY <1>1, <1>4, <1>8, <2>1, <2>2
  <2>4. i \in 1..(Len(chain[a]) - 1)
    BY <1>2, <1>3, <2>2
  <2> QED
    BY <1>1, <2>1, <2>2, <2>3, <2>4
<1>11. \A b \in Attempts : \A i, j \in DOMAIN chain'[b] : i # j => chain'[b][i] # chain'[b][j]
  <2> SUFFICES ASSUME NEW b \in Attempts, NEW i \in DOMAIN chain'[b], NEW j \in DOMAIN chain'[b], i # j
               PROVE  chain'[b][i] # chain'[b][j]
    OBVIOUS
  <2>1. CASE b = a
    <3>1. i \in 1..(Len(chain[a]) - 1) /\ j \in 1..(Len(chain[a]) - 1)
      BY <1>1, <1>2, <1>3, <2>1
    <3>2. i + 1 \in DOMAIN chain[a] /\ j + 1 \in DOMAIN chain[a] /\ i + 1 # j + 1
      BY <1>3, <3>1
    <3>3. chain[a][i + 1] # chain[a][j + 1]
      BY <1>1, <1>4, <3>2
    <3>4. chain'[b][i] = chain[a][i + 1] /\ chain'[b][j] = chain[a][j + 1]
      BY <1>1, <1>2, <1>3, <2>1, <3>1
    <3> QED
      BY <3>3, <3>4
  <2>2. CASE b # a
    BY <1>2, <1>4, <2>2
  <2> QED
    BY <2>1, <2>2
<1>12. \A b \in Attempts : \A i \in DOMAIN chain'[b] : \A u \in Threads :
          chain'[b][i] = u => Owner(u)' /\ AttemptAt(u)' = b
  BY <1>5, <1>7, <1>9, <1>10
<1> HIDE DEF a
<1>13. \A u \in Threads : Owner(u)' =>
          \E i \in DOMAIN chain'[AttemptAt(u)'] : chain'[AttemptAt(u)'][i] = u
  <2> SUFFICES ASSUME NEW u \in Threads, Owner(u)', u # t
               PROVE  \E i \in DOMAIN chain'[AttemptAt(u)] : chain'[AttemptAt(u)][i] = u
    BY <1>6, <1>7
  <2>1. Owner(u) /\ AttemptAt(u) \in Attempts
    BY CallTyped
  <2>2. PICK k \in DOMAIN chain[AttemptAt(u)] : chain[AttemptAt(u)][k] = u
    BY <2>1 DEF ChainInv
  <2>3. CASE AttemptAt(u) = a
    <3>1. k # 1 /\ chain[a][k] = u /\ k \in DOMAIN chain[a]
      BY <2>2, <2>3 DEF a
    <3>2. k - 1 \in 1..(Len(chain[a]) - 1) /\ (k - 1) + 1 = k
      BY <1>1, <3>1
    <3>3. k - 1 \in DOMAIN chain'[a] /\ chain'[a][k - 1] = u
      BY <1>1, <1>2, <1>3, <3>1, <3>2
    <3> QED
      BY <2>3, <3>3
  <2>4. CASE AttemptAt(u) # a
    BY <1>2, <2>1, <2>2, <2>4
  <2> QED
    BY <2>3, <2>4
<1>14. \A u \in Threads : call'[u].at \in Working =>
          chain'[AttemptAt(u)'] # <<>> /\ chain'[AttemptAt(u)'][1] = u
  <2> SUFFICES ASSUME NEW u \in Threads, call'[u].at \in Working, u # t
               PROVE  chain'[AttemptAt(u)] # <<>> /\ chain'[AttemptAt(u)][1] = u
    BY <1>6, <1>7
  <2>1. chain[AttemptAt(u)] # <<>> /\ chain[AttemptAt(u)][1] = u /\ AttemptAt(u) \in Attempts
    BY CallTyped DEF ChainInv
  <2>2. AttemptAt(u) # a
    BY <2>1 DEF a
  <2> QED
    BY <1>2, <2>1, <2>2
<1> QED
  BY <1>11, <1>12, <1>13, <1>14 DEF ChainInv

LEMMA HeadOf ==
  ASSUME TypeOK, ChainInv, NEW t \in Threads, MyTurn(t) \/ call[t].at \in Working
  PROVE  chain[AttemptAt(t)] # <<>> /\ chain[AttemptAt(t)][1] = t /\ Owner(t)
<1>1. Owner(t)
  BY DEF MyTurn, Owner
<1>2. CASE MyTurn(t)
  <2>1. PICK i \in DOMAIN chain[AttemptAt(t)] : chain[AttemptAt(t)][i] = t
    BY <1>1 DEF ChainInv
  <2>2. chain[AttemptAt(t)] \in Seq(Threads)
    BY CallTyped DEF TypeOK
  <2> QED
    BY <1>1, <1>2, <2>1, <2>2 DEF MyTurn
<1>3. CASE call[t].at \in Working
  BY <1>1, <1>3 DEF ChainInv
<1> QED
  BY <1>2, <1>3

LEMMA ChainUnavailable ==
  ASSUME TypeOK, ChainInv, mode = "up", mode' = mode, NEW t \in Threads, call[t].at \in Working,
         BecomesUnavailable(t)
  PROVE  ChainInv'
<1>1. chain[AttemptAt(t)] # <<>> /\ chain[AttemptAt(t)][1] = t
  BY HeadOf
<1>2. call'[t] = Idle /\ \A u \in Threads \ {t} : call'[u] = call[u]
  BY DEF BecomesUnavailable, TypeOK
<1>3. LeaveChain(t)
  BY DEF BecomesUnavailable
<1>4. \A u \in Threads \ {t} : Owner(u)' <=> Owner(u)
  BY <1>2 DEF Owner
<1> QED
  BY <1>1, <1>2, <1>3, <1>4, ChainLeft

LEMMA ChainKept ==
  ASSUME TypeOK, ChainInv, Next
  PROVE  ChainInv'
<1>1. ASSUME mode = "up", NEW t \in Threads, NEW s \in Submissions, Replay(t, s[1], s[2])
      PROVE  ChainInv'
  BY <1>1, ChainStays DEF Replay, Owner
<1>2. ASSUME mode = "up", NEW t \in Threads, NEW s \in Submissions, Join(t, s[1], s[2])
      PROVE  ChainInv'
  <2>1. call[t].at = "idle" /\ call'[t].at = "joined" /\ \A u \in Threads \ {t} : call'[u] = call[u]
    BY <1>2 DEF Join, TypeOK
  <2>2. \A u \in Threads : Owner(u)' <=> Owner(u)
    BY <2>1 DEF Owner, Working
  <2>3. \A u \in Threads : call'[u].at \in Working => call[u].at \in Working
    BY <2>1 DEF Working
  <2>4. \A u \in Threads : Owner(u) => call'[u].request = call[u].request
    BY <2>1 DEF Owner, Working
  <2> QED
    BY <1>2, <2>2, <2>3, <2>4, ChainStays DEF Join
<1>3. ASSUME mode = "up", NEW t \in Threads, NEW s \in Submissions, Register(t, s[1], s[2])
      PROVE  ChainInv'
  <2> DEFINE b == AttemptOf[s[2]]
  <2>1. b \in Attempts /\ chain[b] \in Seq(Threads)
    BY WritesAssumption DEF TypeOK
  <2>2. /\ call[t].at = "idle" /\ call'[t].at = "queued" /\ call'[t].request = s[2]
        /\ \A u \in Threads \ {t} : call'[u] = call[u]
    BY <1>3 DEF Register, TypeOK
  <2>3. \A a \in Attempts : chain'[a] = IF a = b THEN Append(chain[b], t) ELSE chain[a]
    BY <1>3, <2>1 DEF Register, TypeOK
  <2>4. /\ DOMAIN Append(chain[b], t) = DOMAIN chain[b] \cup {Len(chain[b]) + 1}
        /\ \A i \in DOMAIN chain[b] : Append(chain[b], t)[i] = chain[b][i]
        /\ Append(chain[b], t)[Len(chain[b]) + 1] = t
        /\ Len(chain[b]) + 1 \notin DOMAIN chain[b]
        /\ chain[b] # <<>> => 1 \in DOMAIN chain[b]
        /\ Append(chain[b], t) # <<>>
    BY <2>1, SMTT(15)
  <2>5. /\ Owner(t)' /\ ~ Owner(t) /\ AttemptAt(t)' = b /\ call'[t].at \notin Working
        /\ \A u \in Threads \ {t} : (Owner(u)' <=> Owner(u)) /\ AttemptAt(u)' = AttemptAt(u)
    BY <2>2 DEF Owner, Working, AttemptAt
  <2> HIDE DEF b
  <2>6. \A a \in Attempts : \A i \in DOMAIN chain[a] : chain[a][i] # t
    BY <2>5 DEF ChainInv
  <2>7. \A a \in Attempts : \A i \in DOMAIN chain'[a] :
           \/ i \in DOMAIN chain[a] /\ chain'[a][i] = chain[a][i]
           \/ a = b /\ chain'[a][i] = t /\ i = Len(chain[b]) + 1
    BY <2>1, <2>3, <2>4
  <2>8. \A a \in Attempts : \A i, j \in DOMAIN chain'[a] : i # j => chain'[a][i] # chain'[a][j]
    BY <2>6, <2>7 DEF ChainInv
  <2>9. \A a \in Attempts : \A i \in DOMAIN chain'[a] : \A u \in Threads :
           chain'[a][i] = u => Owner(u)' /\ AttemptAt(u)' = a
    BY <2>5, <2>6, <2>7 DEF ChainInv
  <2>10. \A u \in Threads : Owner(u)' =>
           \E i \in DOMAIN chain'[AttemptAt(u)'] : chain'[AttemptAt(u)'][i] = u
    <3>1. ASSUME NEW u \in Threads, u # t, Owner(u)'
          PROVE  \E i \in DOMAIN chain'[AttemptAt(u)'] : chain'[AttemptAt(u)'][i] = u
      <4>1. Owner(u) /\ AttemptAt(u)' = AttemptAt(u) /\ AttemptAt(u) \in Attempts
        BY <2>5, <3>1, CallTyped
      <4>2. PICK i \in DOMAIN chain[AttemptAt(u)] : chain[AttemptAt(u)][i] = u
        BY <4>1 DEF ChainInv
      <4>3. i \in DOMAIN chain'[AttemptAt(u)] /\ chain'[AttemptAt(u)][i] = u
        BY <2>3, <2>4, <4>1, <4>2
      <4> QED
        BY <4>1, <4>3
    <3>2. \E i \in DOMAIN chain'[b] : chain'[b][i] = t
      BY <2>1, <2>3, <2>4
    <3> QED
      BY <2>5, <3>1, <3>2
  <2>11. \A u \in Threads : call'[u].at \in Working =>
           chain'[AttemptAt(u)'] # <<>> /\ chain'[AttemptAt(u)'][1] = u
    <3> SUFFICES ASSUME NEW u \in Threads, call'[u].at \in Working, u # t
                 PROVE  chain'[AttemptAt(u)'] # <<>> /\ chain'[AttemptAt(u)'][1] = u
      BY <2>5
    <3>1. AttemptAt(u)' = AttemptAt(u) /\ AttemptAt(u) \in Attempts /\ call[u].at \in Working
      BY <2>2, <2>5, CallTyped
    <3>2. chain[AttemptAt(u)] # <<>> /\ chain[AttemptAt(u)][1] = u
      BY <3>1 DEF ChainInv
    <3>3. chain'[AttemptAt(u)] # <<>> /\ chain'[AttemptAt(u)][1] = u
      BY <2>1, <2>3, <2>4, <3>1, <3>2
    <3> QED
      BY <3>1, <3>3
  <2> QED
    BY <1>3, <2>8, <2>9, <2>10, <2>11 DEF ChainInv, Register
<1>4. ASSUME mode = "up", NEW t \in Threads, JoinReturns(t)
      PROVE  ChainInv'
  <2>1. call[t].at \in {"joined", "refused"} /\ call'[t] = Idle /\ \A u \in Threads \ {t} : call'[u] = call[u]
    BY <1>4 DEF JoinReturns, TypeOK
  <2>2. \A u \in Threads : Owner(u)' <=> Owner(u)
    BY <2>1, IdleIs DEF Owner, Working
  <2>3. \A u \in Threads : call'[u].at \in Working => call[u].at \in Working
    BY <2>1, IdleIs DEF Working
  <2>4. \A u \in Threads : Owner(u) => call'[u].request = call[u].request
    BY <2>1 DEF Owner, Working
  <2> QED
    BY <1>4, <2>2, <2>3, <2>4, ChainStays DEF JoinReturns
<1>5. ASSUME mode = "up", NEW t \in Threads, PrecheckFails(t)
      PROVE  ChainInv'
  <2>1. chain[AttemptAt(t)] # <<>> /\ chain[AttemptAt(t)][1] = t
    BY <1>5, HeadOf DEF PrecheckFails
  <2>2. call'[t] = Idle
    BY <1>5 DEF PrecheckFails
  <2>3. \A u \in Threads \ {t} :
           \/ call'[u] = call[u]
           \/ call[u].at = "joined" /\ call'[u] = [call[u] EXCEPT !.at = "refused"]
    BY <1>5 DEF PrecheckFails
  <2>4. \A u \in Threads : call[u] \in Calls
    BY DEF TypeOK
  <2>5. \A u \in Threads \ {t} : (Owner(u)' <=> Owner(u)) /\ call'[u].request = call[u].request
    BY <2>3, <2>4 DEF Owner, Working, Calls
  <2>6. \A u \in Threads \ {t} : call'[u].at \in Working => call[u].at \in Working
    BY <2>3, <2>4 DEF Working, Calls
  <2> QED
    BY <1>5, <2>1, <2>2, <2>5, <2>6, ChainLeft DEF PrecheckFails
<1>6. ASSUME mode = "up", mode' = mode, chain' = chain, NEW t \in Threads,
             call[t].at \in Working \/ MyTurn(t),
             call' \in [Threads -> Calls],
             call'[t].at \in Working, call'[t].request = call[t].request,
             \A u \in Threads \ {t} : call'[u] = call[u]
      PROVE  ChainInv'
  <2>1. chain[AttemptAt(t)] # <<>> /\ chain[AttemptAt(t)][1] = t /\ Owner(t)
    BY <1>6, HeadOf
  <2>2. \A u \in Threads : Owner(u)' <=> Owner(u)
    BY <1>6, <2>1 DEF Owner
  <2>3. \A u \in Threads : call'[u].at \in Working =>
             call[u].at \in Working \/ (chain[AttemptAt(u)] # <<>> /\ chain[AttemptAt(u)][1] = u)
    BY <1>6, <2>1
  <2>4. \A u \in Threads : Owner(u) => call'[u].request = call[u].request
    BY <1>6
  <2> QED
    BY <1>6, <2>2, <2>3, <2>4, ChainStays
<1>7. ASSUME mode = "up", NEW t \in Threads, PrecheckPasses(t)
      PROVE  ChainInv'
  <2>1. call' = [call EXCEPT ![t].at = "accepting"] /\ MyTurn(t) /\ mode' = mode /\ chain' = chain
    BY <1>7 DEF PrecheckPasses
  <2>2. call' \in [Threads -> Calls] /\ call'[t].at = "accepting" /\ call'[t].request = call[t].request
        /\ \A u \in Threads \ {t} : call'[u] = call[u]
    BY <2>1 DEF TypeOK, Calls, Positions
  <2> QED
    BY <1>6, <1>7, <2>1, <2>2 DEF Working
<1>8. ASSUME mode = "up", NEW t \in Threads, Begin(t)
      PROVE  ChainInv'
  <2>1. call[t].at \in Working /\ mode' = mode
    BY <1>8 DEF Begin, Working
  <2>2. CASE BecomesUnavailable(t)
    BY <1>8, <2>1, <2>2, ChainUnavailable
  <2>3. CASE call' = [call EXCEPT ![t].at = "performing"] /\ chain' = chain
    <3>1. call' \in [Threads -> Calls] /\ call'[t].at = "performing" /\ call'[t].request = call[t].request
          /\ \A u \in Threads \ {t} : call'[u] = call[u]
      BY <2>3 DEF TypeOK, Calls, Positions
    <3> QED
      BY <1>6, <1>8, <2>1, <2>3, <3>1 DEF Working
  <2> QED
    BY <1>8, <2>2, <2>3 DEF Begin
<1>9. ASSUME mode = "up", NEW t \in Threads, NEW r \in Responses, Perform(t, r)
      PROVE  ChainInv'
  <2>1. call[t].at \in Working /\ mode' = mode /\ chain' = chain
    BY <1>9 DEF Perform, Working
  <2>2. call' \in [Threads -> Calls] /\ call'[t].at = "finishing" /\ call'[t].request = call[t].request
        /\ \A u \in Threads \ {t} : call'[u] = call[u]
    BY <1>9 DEF Perform, TypeOK, Calls, Positions
  <2> QED
    BY <1>6, <1>9, <2>1, <2>2 DEF Working
<1>10. ASSUME mode = "up", NEW t \in Threads, Finish(t)
       PROVE  ChainInv'
  <2>1. call[t].at \in Working /\ mode' = mode
    BY <1>10 DEF Finish, Working
  <2>2. CASE BecomesUnavailable(t)
    BY <1>10, <2>1, <2>2, ChainUnavailable
  <2>3. CASE call' = [call EXCEPT ![t].at = "publishing"] /\ chain' = chain
    <3>1. call' \in [Threads -> Calls] /\ call'[t].at = "publishing" /\ call'[t].request = call[t].request
          /\ \A u \in Threads \ {t} : call'[u] = call[u]
      BY <2>3 DEF TypeOK, Calls, Positions
    <3> QED
      BY <1>6, <1>10, <2>1, <2>3, <3>1 DEF Working
  <2> QED
    BY <1>10, <2>2, <2>3 DEF Finish
<1>11. ASSUME mode = "up", NEW t \in Threads, Publish(t)
       PROVE  ChainInv'
  <2>1. call[t].at \in Working
    BY <1>11 DEF Publish, Working
  <2>2. chain[AttemptAt(t)] # <<>> /\ chain[AttemptAt(t)][1] = t
    BY <2>1, HeadOf
  <2>3. call'[t] = Idle /\ \A u \in Threads \ {t} : call'[u] = call[u]
    BY <1>11 DEF Publish, TypeOK
  <2>4. \A u \in Threads \ {t} : Owner(u)' <=> Owner(u)
    BY <2>3 DEF Owner
  <2> QED
    BY <1>11, <2>2, <2>3, <2>4, ChainLeft DEF Publish
<1>12. ASSUME mode = "up", NEW t \in Threads, PublishFails(t)
       PROVE  ChainInv'
  BY <1>12, ChainUnavailable DEF PublishFails, Working
<1>13. ASSUME mode # "up" \/ mode' # "up", \A t \in Threads : call'[t] = Idle, \A a \in Attempts : chain'[a] = <<>>
       PROVE  ChainInv'
  <2>1. \A t \in Threads : ~ Owner(t)' /\ call'[t].at \notin Working
    BY <1>13, IdleIs DEF Owner, Working
  <2> QED
    BY <1>13, <2>1 DEF ChainInv
<1>14. CASE Crash
  BY <1>13, <1>14 DEF Crash
<1>15. CASE Restart \/ Recovered \/ \E op \in Operations : RecoverOperation(op)
  <2>1. mode # "up" /\ call' = call /\ chain' = chain
    BY <1>15 DEF Restart, Recovered, RecoverOperation
  <2> QED
    BY <1>13, <2>1 DEF ChainInv
<1> QED
  BY <1>1, <1>2, <1>3, <1>4, <1>5, <1>7, <1>8, <1>9, <1>10, <1>11, <1>12, <1>14, <1>15 DEF Next, Arrival, Step
-----------------------------------------------------------------------------
(* Owners, memory and disk, one lemma for each action.                      *)

Kept == OwnInv /\ MemoryInv /\ (~Gone => DiskInv)

LEMMA AnsweredIs ==
  ASSUME NEW x \in States, x.status = "answered"
  PROVE  x.response \in Responses /\ x = Answered(x.request, x.response)
  BY DEF States, Answered

LEMMA AnswerIs ==
  ASSUME TypeOK, NEW x \in answers
  PROVE  /\ x[1] \in Operations /\ x[2] \in Requests /\ x[3] \in Responses
         /\ x = <<x[1], x[2], x[3]>>
  BY DEF TypeOK

\* An answered operation is answered again.
LEMMA AnswersAgain ==
  ASSUME TypeOK, MemoryInv, ~Gone => DiskInv, mode # "down", UNCHANGED <<disk, state>>, NEW op \in Operations, NEW q,
         state[op] # NoState, state[op].status = "answered", state[op].request = q,
         answers' = answers \cup {<<op, q, state[op].response>>}
  PROVE  /\ \A x, y \in answers' : x[1] = y[1] => x = y
         /\ \A x \in answers' : state'[x[1]] = Answered(x[2], x[3])
         /\ ~Gone' => \A x \in answers' : Line(x[1], x[2], x[3])'
<1> DEFINE r == state[op].response
<1>1. state[op] = Answered(q, r)
  BY AnsweredIs DEF TypeOK
<1> HIDE DEF r
<1>2. \A x \in answers' : state[x[1]] = Answered(x[2], x[3])
  BY <1>1 DEF MemoryInv, r
<1>3. \A x \in answers' : x = <<x[1], x[2], x[3]>>
  BY AnswerIs DEF r
<1>4. \A x, y \in answers' : x[1] = y[1] => x = y
  <2> SUFFICES ASSUME NEW x \in answers', NEW y \in answers', x[1] = y[1]
               PROVE  x = y
    OBVIOUS
  <2>1. Answered(x[2], x[3]) = Answered(y[2], y[3])
    BY <1>2
  <2>2. x[2] = y[2] /\ x[3] = y[3]
    BY <2>1 DEF Answered
  <2> QED
    BY <1>3, <2>2
<1>5. ~Gone' => Line(op, q, r)'
  BY SameLines DEF DiskInv, r
<1>6. ~Gone' => \A x \in answers' : Line(x[1], x[2], x[3])'
  BY <1>5, SameLines DEF DiskInv, r
<1> QED
  BY <1>2, <1>4, <1>6

LEMMA KeptReplay ==
  ASSUME Inv, mode = "up", NEW t \in Threads, NEW s \in Submissions, Replay(t, s[1], s[2])
  PROVE  Kept'
<1>1. /\ s[1] \in Operations /\ state[s[1]] # NoState /\ state[s[1]].status = "answered"
      /\ state[s[1]].request = s[2] /\ answers' = answers \cup {<<s[1], s[2], state[s[1]].response>>}
      /\ UNCHANGED <<disk, tail, next, index, mode, state, chain, known, call, effects, crashes>>
  BY WritesAssumption DEF Replay, Same, journalVars
<1>2. /\ \A x, y \in answers' : x[1] = y[1] => x = y
      /\ \A x \in answers' : state'[x[1]] = Answered(x[2], x[3])
      /\ ~Gone' => \A x \in answers' : Line(x[1], x[2], x[3])'
  BY <1>1, AnswersAgain DEF Inv
<1>3. OwnInv'
  BY <1>1 DEF Inv, OwnInv, Owner
<1>4. MemoryInv'
  BY <1>1, <1>2 DEF Inv, MemoryInv
<1>5. ~Gone' => DiskInv'
  BY <1>1, <1>2, SameLines DEF Inv, DiskInv, AnyLine, TerminalLine
<1> QED
  BY <1>3, <1>4, <1>5 DEF Kept

LEMMA KeptJoin ==
  ASSUME Inv, mode = "up", NEW t \in Threads, NEW s \in Submissions, Join(t, s[1], s[2])
  PROVE  Kept'
<1>1. /\ call[t].at = "idle" /\ state[s[1]] # NoState /\ state[s[1]].request = s[2]
      /\ call'[t] = [at |-> "joined", op |-> s[1], request |-> s[2], response |-> NoResponse]
      /\ \A u \in Threads \ {t} : call'[u] = call[u]
      /\ UNCHANGED <<disk, index, mode, state, effects, answers>>
  BY DEF Join, Same, journalVars, Inv, TypeOK
<1>2. ~ Owner(t)' /\ call'[t].at = "joined" /\ \A u \in Threads \ {t} : Owner(u)' <=> Owner(u)
  BY <1>1 DEF Owner, Working
<1>3. OwnInv'
  BY <1>1, <1>2 DEF Inv, OwnInv
<1>4. MemoryInv'
  BY <1>1 DEF Inv, MemoryInv
<1>5. ~Gone' => DiskInv'
  BY <1>1, SameLines, SMTT(15) DEF Inv, DiskInv, AnyLine, TerminalLine
<1> QED
  BY <1>3, <1>4, <1>5 DEF Kept

LEMMA KeptRegister ==
  ASSUME Inv, mode = "up", NEW t \in Threads, NEW s \in Submissions, Register(t, s[1], s[2])
  PROVE  Kept'
<1>1. /\ s[1] \in Operations /\ call[t].at = "idle" /\ state[s[1]] = NoState
      /\ call'[t] = [at |-> "queued", op |-> s[1], request |-> s[2], response |-> NoResponse]
      /\ \A u \in Threads \ {t} : call'[u] = call[u]
      /\ state'[s[1]] = Running(s[2]) /\ \A op \in Operations \ {s[1]} : state'[op] = state[op]
      /\ UNCHANGED <<disk, index, mode, effects, answers>>
  BY WritesAssumption DEF Register, journalVars, Inv, TypeOK
<1>2. Running(s[2]) # NoState /\ Running(s[2]).status = "running" /\ Running(s[2]).request = s[2]
  BY WritesAssumption DEF Running, States
<1>3. \A u \in Threads : Owner(u) => state[call[u].op] # NoState /\ call[u].op # s[1]
  <2>1. \A u \in Threads : Running(call[u].request) # NoState
    BY WritesAssumption, CallTyped DEF Running, States, Inv
  <2> QED
    BY <1>1, <2>1 DEF Inv, OwnInv
<1>4. \A u \in Threads : call[u].op \in Operations
  BY CallTyped DEF Inv
<1>5. Owner(t)' /\ call'[t].at = "queued" /\ \A u \in Threads \ {t} : Owner(u)' <=> Owner(u)
  BY <1>1 DEF Owner, Working
<1>6. OwnInv'
  BY <1>1, <1>2, <1>3, <1>4, <1>5 DEF Inv, OwnInv
<1>7. \A x \in answers : x[1] \in Operations /\ x[1] # s[1]
  <2>1. \A x \in answers : Answered(x[2], x[3]) # NoState
    BY WritesAssumption, AnswerIs DEF Answered, States, Inv
  <2> QED
    BY <1>1, <2>1, AnswerIs DEF Inv, MemoryInv
<1>8. MemoryInv'
  BY <1>1, <1>2, <1>7 DEF Inv, MemoryInv
<1>9. ~Gone' => DiskInv'
  BY <1>1, <1>2, SameLines DEF Inv, DiskInv, AnyLine, TerminalLine
<1> QED
  BY <1>6, <1>8, <1>9 DEF Kept

LEMMA KeptJoinReturns ==
  ASSUME Inv, mode = "up", NEW t \in Threads, JoinReturns(t)
  PROVE  Kept'
<1>1. /\ call[t].at \in {"joined", "refused"} /\ call'[t] = Idle
      /\ \A u \in Threads \ {t} : call'[u] = call[u]
      /\ UNCHANGED <<disk, index, mode, state, effects>>
  BY DEF JoinReturns, journalVars, Inv, TypeOK
<1>2. ~ Owner(t)' /\ call'[t].at = "idle" /\ \A u \in Threads \ {t} : Owner(u)' <=> Owner(u)
  BY <1>1, IdleIs DEF Owner, Working
<1>3. OwnInv'
  BY <1>1, <1>2 DEF Inv, OwnInv
<1>4. /\ \A x, y \in answers' : x[1] = y[1] => x = y
      /\ \A x \in answers' : state'[x[1]] = Answered(x[2], x[3])
      /\ ~Gone' => \A x \in answers' : Line(x[1], x[2], x[3])'
  <2>1. CASE answers' = answers
    BY <1>1, <2>1, SameLines DEF Inv, MemoryInv, DiskInv
  <2>2. CASE /\ call[t].at = "joined" /\ state[call[t].op].status = "answered"
             /\ answers' = answers \cup {<<call[t].op, call[t].request, state[call[t].op].response>>}
    <3>1. state[call[t].op] # NoState /\ state[call[t].op].request = call[t].request /\ call[t].op \in Operations
      BY <2>2, CallTyped DEF Inv, OwnInv
    <3> QED
      BY <1>1, <2>2, <3>1, AnswersAgain DEF Inv
  <2> QED
    BY <2>1, <2>2 DEF JoinReturns
<1>5. MemoryInv'
  BY <1>1, <1>2, <1>4 DEF Inv, MemoryInv
<1>6. ~Gone' => DiskInv'
  BY <1>1, <1>2, <1>4, SameLines DEF Inv, DiskInv, AnyLine, TerminalLine
<1> QED
  BY <1>3, <1>5, <1>6 DEF Kept

\* The conjunct of DiskInv about the lines of one operation.
Bound(op) ==
    \A q1, q2 \in Requests : \A r1, r2 \in Responses \cup {NoResponse} :
        Line(op, q1, r1) /\ Line(op, q2, r2) =>
            q1 = q2 /\ (r1 = r2 \/ r1 = NoResponse \/ r2 = NoResponse)

\* Distinct owners work on distinct operations.
LEMMA OthersApart ==
  ASSUME Inv, NEW t \in Threads, Owner(t)
  PROVE  /\ call[t].op \in Operations /\ call[t].request \in Requests
         /\ state[call[t].op] = Running(call[t].request)
         /\ state[call[t].op] # NoState
         /\ state[call[t].op].status = "running"
         /\ state[call[t].op].request = call[t].request
         /\ \A u \in Threads \ {t} : Owner(u) => call[u].op # call[t].op
         /\ mode # "down" => \A x \in answers : x[1] # call[t].op
<1>1. call[t].op \in Operations /\ call[t].request \in Requests
  BY CallTyped DEF Inv
<1>2. state[call[t].op] = Running(call[t].request)
  BY DEF Inv, OwnInv
<1>3. Running(call[t].request) \in States /\ Running(call[t].request).status = "running"
      /\ Running(call[t].request).request = call[t].request
  BY <1>1 DEF Running, States
<1>4. state[call[t].op] # NoState
  BY <1>2, <1>3, WritesAssumption
<1>5. \A u \in Threads \ {t} : Owner(u) => call[u].op # call[t].op
  BY DEF Inv, OwnInv
<1>6. mode # "down" => \A x \in answers : x[1] # call[t].op
  <2>1. \A x \in answers : Answered(x[2], x[3]).status = "answered"
    BY DEF Answered
  <2> QED
    BY <1>2, <1>3, <2>1 DEF Inv, MemoryInv
<1> QED
  BY <1>1, <1>2, <1>3, <1>4, <1>5, <1>6

LEMMA KeptUnavailable ==
  ASSUME Inv, mode = "up", NEW t \in Threads, call[t].at \in Working, BecomesUnavailable(t),
         UNCHANGED <<mode, index, effects, answers>>,
         NEW op, NEW q, op = call[t].op, q = call[t].request,
         ~Gone' => /\ ~Gone
                   /\ \A o, p, r : Line(o, p, r) => Line(o, p, r)'
                   /\ \A o, p, r : o # op => (Line(o, p, r)' <=> Line(o, p, r))
                   /\ Bound(op)'
  PROVE  Kept'
<1>1. Owner(t)
  BY DEF Owner
<1>2. /\ op \in Operations /\ state[op] # NoState /\ state[op].request = q
      /\ \A u \in Threads \ {t} : Owner(u) => call[u].op # op
      /\ \A x \in answers : x[1] # op
  BY <1>1, OthersApart
<1>3. /\ call'[t] = Idle /\ call'[t].at = "idle" /\ \A u \in Threads \ {t} : call'[u] = call[u]
      /\ state'[op] = Unavailable(q) /\ \A o \in Operations \ {op} : state'[o] = state[o]
  BY <1>2, IdleIs DEF BecomesUnavailable, Inv, TypeOK
<1>4. Unavailable(q) # NoState /\ Unavailable(q).status = "unavailable" /\ Unavailable(q).request = q
  BY <1>2, CallTyped, WritesAssumption DEF Unavailable, States, Inv
<1>5. ~ Owner(t)' /\ \A u \in Threads \ {t} : Owner(u)' <=> Owner(u)
  BY <1>3 DEF Owner, Working
<1>6. \A u \in Threads : call[u].op \in Operations
  BY CallTyped DEF Inv
<1>7. \A x \in answers : x[1] \in Operations
  BY AnswerIs DEF Inv
<1>8. OwnInv'
  BY <1>1, <1>2, <1>3, <1>4, <1>5, <1>6 DEF Inv, OwnInv
<1>9. MemoryInv'
  BY <1>1, <1>2, <1>3, <1>4, <1>5, <1>6, <1>7 DEF Inv, MemoryInv
<1>10. \A u \in Threads : call'[u].at \in Working \cup {"queued"} => u # t /\ call[u].op # op /\ call'[u] = call[u]
  BY <1>2, <1>3, <1>5 DEF Owner, Working
<1>11. ASSUME ~Gone'
       PROVE  DiskInv'
  <2>1. /\ ~Gone
        /\ \A o, p, r : Line(o, p, r) => Line(o, p, r)'
        /\ \A o, p, r : o # op => (Line(o, p, r)' <=> Line(o, p, r))
        /\ Bound(op)'
    BY <1>11
  <2>2. \A o : AnyLine(o) => AnyLine(o)'
    BY <2>1 DEF AnyLine
  <2>3. \A o : o # op => (AnyLine(o)' <=> AnyLine(o)) /\ (TerminalLine(o)' <=> TerminalLine(o))
    BY <2>1 DEF AnyLine, TerminalLine
  <2>4. \A o \in Operations : Bound(o)'
    <3>1. ASSUME NEW o \in Operations, o # op
          PROVE  Bound(o)'
      BY <2>1, <3>1 DEF Inv, DiskInv, Bound
    <3> QED
      BY <2>1, <3>1
  <2>5. DiskInv
    BY <2>1 DEF Inv
  <2>6. \A o \in Operations : effects'[o] = 1 => AnyLine(o)'
    BY <2>2, <2>5 DEF DiskInv
  <2>7. \A x \in answers' : Line(x[1], x[2], x[3])'
    BY <2>1, <2>5 DEF DiskInv
  <2>8. \A o \in Operations : state'[o] = NoState => ~ AnyLine(o)'
    BY <2>3, <2>5, <1>3, <1>4 DEF DiskInv
  <2>9. \A u \in Threads : \A o : call'[u].op = o /\ call'[u].at \in {"queued", "accepting"} => ~ AnyLine(o)'
    BY <2>3, <2>5, <1>10 DEF DiskInv, Working
  <2>10. \A u \in Threads : \A o, p : call'[u].op = o /\ call'[u].request = p
              /\ call'[u].at \in {"performing", "finishing"} => Line(o, p, NoResponse)' /\ ~ TerminalLine(o)'
    BY <2>1, <2>3, <2>5, <1>10 DEF DiskInv, Working
  <2>11. \A u \in Threads : \A o, p, r : call'[u].op = o /\ call'[u].request = p /\ call'[u].response = r
              /\ call'[u].at = "publishing" => Line(o, p, r)'
    BY <2>1, <2>3, <2>5, <1>10 DEF DiskInv, Working
  <2>12. \A o \in Operations : \A p, r : state'[o] # NoState /\ state'[o].request = p /\ state'[o].response = r
              /\ state'[o].status = "answered" => Line(o, p, r)'
    BY <2>1, <2>5, <1>3, <1>4 DEF DiskInv
  <2> QED
    BY <2>4, <2>6, <2>7, <2>8, <2>9, <2>10, <2>11, <2>12, <1>6 DEF DiskInv, Bound
<1> QED
  BY <1>8, <1>9, <1>11 DEF Kept

LEMMA KeptPrecheckFails ==
  ASSUME Inv, mode = "up", NEW t \in Threads, PrecheckFails(t)
  PROVE  Kept'
<1>1. call[t].at = "queued" /\ Owner(t)
  BY DEF PrecheckFails, MyTurn, Owner
<1> DEFINE op == call[t].op
<1>2. /\ op \in Operations
      /\ \A u \in Threads \ {t} : Owner(u) => call[u].op # op
      /\ \A x \in answers : x[1] # op
  BY <1>1, OthersApart
<1>3. /\ call'[t].at = "idle"
      /\ state'[op] = NoState /\ \A o \in Operations \ {op} : state'[o] = state[o]
      /\ UNCHANGED <<disk, index, mode, effects, answers>>
  BY <1>2, IdleIs DEF PrecheckFails, journalVars, Inv, TypeOK
<1>4. \A u \in Threads \ {t} :
         /\ call'[u].op = call[u].op /\ call'[u].request = call[u].request /\ call'[u].response = call[u].response
         /\ call'[u].at = call[u].at \/ (call[u].at = "joined" /\ call'[u].at = "refused")
         /\ call'[u].at = "joined" => call[u].at = "joined" /\ call[u].op # op
  <2>1. \A u \in Threads : call[u] \in Calls
    BY DEF Inv, TypeOK
  <2>2. \A u \in Threads \ {t} : call'[u] = IF call[u].at = "joined" /\ call[u].op = op
                                            THEN [call[u] EXCEPT !.at = "refused"] ELSE call[u]
    BY DEF PrecheckFails
  <2> HIDE DEF op
  <2>3. TAKE u \in Threads \ {t}
  <2>4. CASE call[u].at = "joined" /\ call[u].op = op
    <3>1. call'[u] = [call[u] EXCEPT !.at = "refused"]
      BY <2>2, <2>4
    <3> QED
      BY <2>1, <2>4, <3>1 DEF Calls
  <2>5. CASE call[u].at # "joined" \/ call[u].op # op
    <3>1. call'[u] = call[u]
      BY <2>2, <2>5
    <3> QED
      BY <2>5, <3>1
  <2> QED
    BY <2>4, <2>5
<1>5. ~ Owner(t)' /\ \A u \in Threads \ {t} : Owner(u)' <=> Owner(u)
  BY <1>3, <1>4 DEF Owner, Working
<1>6. \A u \in Threads : call[u].op \in Operations
  BY CallTyped DEF Inv
<1>7. \A x \in answers : x[1] \in Operations
  BY AnswerIs DEF Inv
<1>8. index[op] = NoRecord /\ effects[op] = 0 /\ (~Gone => ~ AnyLine(op))
  BY <1>1 DEF Inv, MemoryInv, DiskInv
<1>9. \A u \in Threads : call'[u].at \in Working \cup {"queued"} => u # t /\ call[u].op # op /\ call'[u].at = call[u].at
  BY <1>2, <1>3, <1>4, <1>5 DEF Owner, Working
<1> HIDE DEF op
<1>10. OwnInv'
  BY <1>2, <1>3, <1>4, <1>5, <1>6 DEF Inv, OwnInv
<1>11. MemoryInv'
  BY <1>2, <1>3, <1>4, <1>6, <1>7, <1>8, <1>9 DEF Inv, MemoryInv, Working
<1>12. ASSUME ~Gone'
       PROVE  DiskInv'
  <2>1. ~Gone /\ DiskInv /\ \A o, p, r : Line(o, p, r)' <=> Line(o, p, r)
    BY <1>3, <1>12, SameLines DEF Inv
  <2>2. \A o : (AnyLine(o)' <=> AnyLine(o)) /\ (TerminalLine(o)' <=> TerminalLine(o))
    BY <2>1 DEF AnyLine, TerminalLine
  <2>3. \A u \in Threads : \A o : call'[u].op = o /\ call'[u].at \in {"queued", "accepting"} => ~ AnyLine(o)'
    BY <2>1, <2>2, <1>4, <1>9 DEF DiskInv, Working
  <2>4. \A u \in Threads : \A o, p : call'[u].op = o /\ call'[u].request = p
              /\ call'[u].at \in {"performing", "finishing"} => Line(o, p, NoResponse)' /\ ~ TerminalLine(o)'
    BY <2>1, <2>2, <1>4, <1>9 DEF DiskInv, Working
  <2>5. \A u \in Threads : \A o, p, r : call'[u].op = o /\ call'[u].request = p /\ call'[u].response = r
              /\ call'[u].at = "publishing" => Line(o, p, r)'
    BY <2>1, <2>2, <1>4, <1>9 DEF DiskInv, Working
  <2> QED
    BY <2>1, <2>2, <2>3, <2>4, <2>5, <1>3, <1>8 DEF DiskInv
<1> QED
  BY <1>10, <1>11, <1>12 DEF Kept

\* A step of an owner that leaves the file and the operations alone.
LEMMA KeptPrecheckPasses ==
  ASSUME Inv, mode = "up", NEW t \in Threads, PrecheckPasses(t)
  PROVE  Kept'
<1>1. /\ call[t].at = "queued" /\ call'[t].at = "accepting"
      /\ call'[t].op = call[t].op /\ call'[t].request = call[t].request
      /\ \A u \in Threads \ {t} : call'[u] = call[u]
      /\ UNCHANGED <<disk, index, mode, state, effects, answers>>
  BY DEF PrecheckPasses, MyTurn, journalVars, Inv, TypeOK, Calls
<1>2. \A u \in Threads : Owner(u)' <=> Owner(u)
  BY <1>1 DEF Owner, Working
<1>3. OwnInv'
  BY <1>1, <1>2 DEF Inv, OwnInv
<1>4. MemoryInv'
  BY <1>1 DEF Inv, MemoryInv
<1>5. ~Gone' => DiskInv'
  BY <1>1, SameLines DEF Inv, DiskInv, AnyLine, TerminalLine
<1> QED
  BY <1>3, <1>4, <1>5 DEF Kept

LEMMA KeptPerform ==
  ASSUME Inv, mode = "up", NEW t \in Threads, NEW response \in Responses, Perform(t, response)
  PROVE  Kept'
<1>0. Owner(t)
  BY DEF Perform, Owner, Working
<1>1. /\ call[t].at = "performing" /\ call'[t].at = "finishing" /\ call'[t].response = response
      /\ call'[t].op = call[t].op /\ call'[t].request = call[t].request
      /\ \A u \in Threads \ {t} : call'[u] = call[u]
      /\ UNCHANGED <<disk, index, mode, state, answers>>
  BY DEF Perform, journalVars, Inv, TypeOK, Calls
<1>2. \A u \in Threads : Owner(u)' <=> Owner(u)
  BY <1>1 DEF Owner, Working
<1>3. \A u \in Threads \ {t} : Owner(u) => call[u].op # call[t].op
  BY <1>0, OthersApart
<1>4. /\ call[t].op \in Operations /\ effects[call[t].op] = 0 /\ effects'[call[t].op] = 1
      /\ \A o \in Operations \ {call[t].op} : effects'[o] = effects[o]
      /\ state[call[t].op] # NoState
  BY <1>0, <1>1, OthersApart DEF Perform, Inv, MemoryInv, TypeOK
<1>5. \A u \in Threads : call[u].op \in Operations
  BY CallTyped DEF Inv
<1>6. OwnInv'
  BY <1>1, <1>2 DEF Inv, OwnInv
<1>7. \A u \in Threads : call'[u].at \in Working \cup {"queued"} => u = t \/ call[u].op # call[t].op
  BY <1>1, <1>2, <1>3 DEF Owner
<1>8. MemoryInv'
  BY <1>1, <1>4, <1>5, <1>7 DEF Inv, MemoryInv, Working
<1>9. ASSUME ~Gone'
      PROVE  DiskInv'
  <2>1. ~Gone /\ DiskInv /\ \A o, p, r : Line(o, p, r)' <=> Line(o, p, r)
    BY <1>1, <1>9, SameLines DEF Inv
  <2>2. \A o : (AnyLine(o)' <=> AnyLine(o)) /\ (TerminalLine(o)' <=> TerminalLine(o))
    BY <2>1 DEF AnyLine, TerminalLine
  <2>3. AnyLine(call[t].op)
    BY <2>1, <1>1, CallTyped DEF DiskInv, AnyLine, Inv
  <2>4. \A u \in Threads : \A o, p : call'[u].op = o /\ call'[u].request = p
              /\ call'[u].at \in {"performing", "finishing"} => Line(o, p, NoResponse)' /\ ~ TerminalLine(o)'
    BY <2>1, <2>2, <1>1 DEF DiskInv
  <2>5. \A o \in Operations : effects'[o] = 1 => AnyLine(o)'
    BY <2>1, <2>2, <2>3, <1>4 DEF DiskInv
  <2> QED
    BY <2>1, <2>2, <2>4, <2>5, <1>1 DEF DiskInv
<1> QED
  BY <1>6, <1>8, <1>9 DEF Kept

LEMMA FaultyAppend ==
  ASSUME TypeOK, NEW op \in Operations, NEW q \in Requests, NEW r \in Responses \cup {NoResponse},
         NEW outcome \in Outcomes \ {"ok"}, AppendRecord(op, q, r, outcome)
  PROVE  /\ index' = index
         /\ ~Gone' => /\ ~Gone
                      /\ \A o, q1, r1 : Line(o, q1, r1) => Line(o, q1, r1)'
                      /\ \A o, q1, r1 : Line(o, q1, r1)' => (Line(o, q1, r1) \/ (o = op /\ q1 = q /\ r1 = r))
<1>1. CASE outcome = "unsynced"
  BY <1>1, AppendedLine DEF AppendRecord
<1>2. CASE outcome \in {"lost", "torn"}
  BY <1>2, SameLines DEF AppendRecord, journalVars
<1> QED
  BY <1>1, <1>2 DEF Outcomes

LEMMA KeptBegin ==
  ASSUME Inv, mode = "up", NEW t \in Threads, Begin(t)
  PROVE  Kept'
<1>0. call[t].at = "accepting" /\ Owner(t) /\ TypeOK
  BY DEF Begin, Owner, Working, Inv
<1>1. PICK op \in Operations, q \in Requests : op = call[t].op /\ q = call[t].request
  BY <1>0, CallTyped
<1>2. /\ \A u \in Threads \ {t} : Owner(u) => call[u].op # op
      /\ \A x \in answers : x[1] # op
      /\ state[op] # NoState
  BY <1>0, <1>1, OthersApart
<1>3. effects[op] = 0 /\ (~Gone => ~ AnyLine(op))
  BY <1>0, <1>1 DEF Inv, MemoryInv, DiskInv
<1>4. NoResponse \notin Responses
  BY JournalAssumption
<1>5. CASE AppendRecord(op, q, NoResponse, "ok") /\ call' = [call EXCEPT ![t].at = "performing"]
           /\ UNCHANGED <<mode, state, effects, answers>>
  <2>1. /\ call'[t].at = "performing" /\ call'[t].op = op /\ call'[t].request = q
        /\ \A u \in Threads \ {t} : call'[u] = call[u]
    BY <1>1, <1>5 DEF Inv, TypeOK, Calls
  <2>2. \A u \in Threads : Owner(u)' <=> Owner(u)
    BY <1>0, <2>1 DEF Owner, Working
  <2>3. \A o \in Operations \ {op} : index'[o] = index[o]
    BY <1>0, <1>5 DEF AppendRecord, TypeOK, JournalTypeOK
  <2>4. \A u \in Threads : call'[u].at \in Working \cup {"queued"} => u = t \/ (call[u].op # op /\ call'[u] = call[u])
    BY <1>2, <2>1, <2>2 DEF Owner
  <2>5. OwnInv'
    BY <1>1, <1>5, <2>1, <2>2 DEF Inv, OwnInv
  <2>6. \A u \in Threads : call[u].op \in Operations
    BY CallTyped DEF Inv
  <2>7. MemoryInv'
    BY <1>2, <1>3, <1>5, <2>1, <2>3, <2>4, <2>6 DEF Inv, MemoryInv, Working
  <2>8. ASSUME ~Gone'
        PROVE  DiskInv'
    <3>1. ~Gone /\ DiskInv
          /\ \A o, q1, r1 : Line(o, q1, r1)' <=> (Line(o, q1, r1) \/ (o = op /\ q1 = q /\ r1 = NoResponse))
      BY <1>0, <1>5, <2>8, AppendedLine DEF Inv
    <3>2. /\ \A o : AnyLine(o) => AnyLine(o)'
          /\ \A o : o # op => (AnyLine(o)' <=> AnyLine(o))
          /\ \A o : TerminalLine(o)' <=> TerminalLine(o)
          /\ ~ TerminalLine(op)
      BY <3>1, <1>3, <1>4 DEF AnyLine, TerminalLine
    <3>3. \A o \in Operations : Bound(o)'
      <4>1. TAKE o \in Operations
      <4>2. CASE o = op
        BY <3>1, <1>3, <4>2 DEF Bound, AnyLine
      <4>3. CASE o # op
        BY <3>1, <4>3 DEF Bound, DiskInv
      <4> QED
        BY <4>2, <4>3
    <3>4. \A u \in Threads : \A o : call'[u].op = o /\ call'[u].at \in {"queued", "accepting"} => ~ AnyLine(o)'
      BY <3>1, <3>2, <2>1, <2>4 DEF DiskInv, Working
    <3>5. \A u \in Threads : \A o, p : call'[u].op = o /\ call'[u].request = p
              /\ call'[u].at \in {"performing", "finishing"} => Line(o, p, NoResponse)' /\ ~ TerminalLine(o)'
      BY <3>1, <3>2, <2>1 DEF DiskInv
    <3>6. \A u \in Threads : \A o, p, r : call'[u].op = o /\ call'[u].request = p /\ call'[u].response = r
              /\ call'[u].at = "publishing" => Line(o, p, r)'
      BY <3>1, <2>1 DEF DiskInv
    <3>7. \A o \in Operations : state'[o] = NoState => ~ AnyLine(o)'
      BY <3>1, <3>2, <1>2, <1>5 DEF DiskInv
    <3>8. \A o \in Operations : effects'[o] = 1 => AnyLine(o)'
      BY <3>1, <3>2, <1>5 DEF DiskInv
    <3>9. \A x \in answers' : Line(x[1], x[2], x[3])'
      BY <3>1, <1>5 DEF DiskInv
    <3>10. \A o \in Operations : \A p, r : state'[o] # NoState /\ state'[o].request = p /\ state'[o].response = r
              /\ state'[o].status = "answered" => Line(o, p, r)'
      BY <3>1, <1>5 DEF DiskInv
    <3> QED
      BY <3>3, <3>4, <3>5, <3>6, <3>7, <3>8, <3>9, <3>10, <1>5 DEF DiskInv, Bound
  <2> QED
    BY <2>5, <2>7, <2>8 DEF Kept
<1>6. ASSUME NEW fault \in Faults, AppendRecord(op, q, NoResponse, fault), BecomesUnavailable(t),
             UNCHANGED <<mode, effects, answers>>
      PROVE  Kept'
  <2>1. fault \in Outcomes \ {"ok"}
    BY JournalAssumption
  <2>2. index' = index
        /\ (~Gone' => /\ ~Gone
                      /\ \A o, q1, r1 : Line(o, q1, r1) => Line(o, q1, r1)'
                      /\ \A o, q1, r1 : Line(o, q1, r1)' => (Line(o, q1, r1) \/ (o = op /\ q1 = q /\ r1 = NoResponse)))
    BY <1>0, <1>6, <2>1, FaultyAppend
  <2>3. ~Gone' => Bound(op)'
    BY <2>2, <1>3 DEF Bound, AnyLine
  <2> QED
    BY <1>0, <1>1, <1>6, <2>2, <2>3, KeptUnavailable DEF Working
<1>7. CASE UNCHANGED journalVars /\ BecomesUnavailable(t) /\ UNCHANGED <<mode, effects, answers>>
  <2>1. index' = index /\ disk' = disk
    BY <1>7 DEF journalVars
  <2>2. ~Gone' => Bound(op)'
    BY <2>1, <1>3, SameLines DEF Bound, AnyLine
  <2> QED
    BY <1>0, <1>1, <1>7, <2>1, <2>2, SameLines, KeptUnavailable DEF Working
<1> QED
  BY <1>0, <1>1, <1>5, <1>6, <1>7 DEF Begin

LEMMA KeptFinish ==
  ASSUME Inv, mode = "up", NEW t \in Threads, Finish(t)
  PROVE  Kept'
<1>0. call[t].at = "finishing" /\ Owner(t) /\ TypeOK /\ call[t].response \in Responses
  BY DEF Finish, Owner, Working, Inv, MemoryInv
<1>1. PICK op \in Operations, q \in Requests, r \in Responses :
         op = call[t].op /\ q = call[t].request /\ r = call[t].response
  BY <1>0, CallTyped
<1>2. /\ \A u \in Threads \ {t} : Owner(u) => call[u].op # op
      /\ state[op] # NoState /\ state[op].status = "running"
  BY <1>0, <1>1, OthersApart
<1>3. ~Gone => /\ Line(op, q, NoResponse) /\ ~ TerminalLine(op)
               /\ \A p \in Requests, x \in Responses \cup {NoResponse} : Line(op, p, x) => p = q /\ x = NoResponse
  BY <1>0, <1>1 DEF Inv, DiskInv, TerminalLine
<1>4. NoResponse \notin Responses
  BY JournalAssumption
<1>5. CASE AppendRecord(op, q, r, "ok") /\ call' = [call EXCEPT ![t].at = "publishing"]
           /\ UNCHANGED <<mode, state, effects, answers>>
  <2>1. /\ call'[t].at = "publishing" /\ call'[t].op = op /\ call'[t].request = q /\ call'[t].response = r
        /\ \A u \in Threads \ {t} : call'[u] = call[u]
    BY <1>1, <1>5 DEF Inv, TypeOK, Calls
  <2>2. \A u \in Threads : Owner(u)' <=> Owner(u)
    BY <1>0, <2>1 DEF Owner, Working
  <2>3. \A o \in Operations \ {op} : index'[o] = index[o]
    BY <1>0, <1>5 DEF AppendRecord, TypeOK, JournalTypeOK
  <2>4. \A u \in Threads : call'[u].at \in Working \cup {"queued"} => u = t \/ (call[u].op # op /\ call'[u] = call[u])
    BY <1>2, <2>1, <2>2 DEF Owner
  <2>5. OwnInv'
    BY <1>1, <1>5, <2>1, <2>2 DEF Inv, OwnInv
  <2>6. \A u \in Threads : call[u].op \in Operations
    BY CallTyped DEF Inv
  <2>7. MemoryInv'
    BY <1>0, <1>2, <1>5, <2>1, <2>3, <2>4, <2>6 DEF Inv, MemoryInv, Working
  <2>8. ASSUME ~Gone'
        PROVE  DiskInv'
    <3>1. ~Gone /\ DiskInv
          /\ \A o, q1, r1 : Line(o, q1, r1)' <=> (Line(o, q1, r1) \/ (o = op /\ q1 = q /\ r1 = r))
      BY <1>0, <1>5, <2>8, AppendedLine DEF Inv
    <3>2. /\ \A o : AnyLine(o) => AnyLine(o)'
          /\ \A o : o # op => (AnyLine(o)' <=> AnyLine(o)) /\ (TerminalLine(o)' <=> TerminalLine(o))
      BY <3>1 DEF AnyLine, TerminalLine
    <3>3. \A o \in Operations : Bound(o)'
      <4>1. TAKE o \in Operations
      <4>2. CASE o = op
        BY <3>1, <1>3, <4>2 DEF Bound
      <4>3. CASE o # op
        BY <3>1, <4>3 DEF Bound, DiskInv
      <4> QED
        BY <4>2, <4>3
    <3>4. \A u \in Threads : \A o : call'[u].op = o /\ call'[u].at \in {"queued", "accepting"} => ~ AnyLine(o)'
      BY <3>1, <3>2, <2>1, <2>4 DEF DiskInv, Working
    <3>5. \A u \in Threads : \A o, p : call'[u].op = o /\ call'[u].request = p
              /\ call'[u].at \in {"performing", "finishing"} => Line(o, p, NoResponse)' /\ ~ TerminalLine(o)'
      BY <3>1, <3>2, <2>1, <2>4 DEF DiskInv, Working
    <3>6. \A u \in Threads : \A o, p, x : call'[u].op = o /\ call'[u].request = p /\ call'[u].response = x
              /\ call'[u].at = "publishing" => Line(o, p, x)'
      BY <3>1, <2>1 DEF DiskInv
    <3>7. \A o \in Operations : state'[o] = NoState => ~ AnyLine(o)'
      BY <3>1, <3>2, <1>2, <1>5 DEF DiskInv
    <3>8. \A o \in Operations : effects'[o] = 1 => AnyLine(o)'
      BY <3>1, <3>2, <1>5 DEF DiskInv
    <3>9. \A x \in answers' : Line(x[1], x[2], x[3])'
      BY <3>1, <1>5 DEF DiskInv
    <3>10. \A o \in Operations : \A p, x : state'[o] # NoState /\ state'[o].request = p /\ state'[o].response = x
              /\ state'[o].status = "answered" => Line(o, p, x)'
      BY <3>1, <1>5 DEF DiskInv
    <3> QED
      BY <3>3, <3>4, <3>5, <3>6, <3>7, <3>8, <3>9, <3>10, <1>5 DEF DiskInv, Bound
  <2> QED
    BY <2>5, <2>7, <2>8 DEF Kept
<1>6. ASSUME NEW fault \in Faults, AppendRecord(op, q, r, fault), BecomesUnavailable(t),
             UNCHANGED <<mode, effects, answers>>
      PROVE  Kept'
  <2>1. fault \in Outcomes \ {"ok"}
    BY JournalAssumption
  <2>2. index' = index
        /\ (~Gone' => /\ ~Gone
                      /\ \A o, q1, r1 : Line(o, q1, r1) => Line(o, q1, r1)'
                      /\ \A o, q1, r1 : Line(o, q1, r1)' => (Line(o, q1, r1) \/ (o = op /\ q1 = q /\ r1 = r)))
    BY <1>0, <1>6, <2>1, FaultyAppend
  <2>3. ~Gone' => Bound(op)'
    BY <2>2, <1>3 DEF Bound
  <2> QED
    BY <1>0, <1>1, <1>6, <2>2, <2>3, KeptUnavailable DEF Working
<1>7. CASE UNCHANGED journalVars /\ BecomesUnavailable(t) /\ UNCHANGED <<mode, effects, answers>>
  <2>1. index' = index /\ disk' = disk
    BY <1>7 DEF journalVars
  <2>2. ~Gone' => Bound(op)'
    BY <2>1, <1>3, SameLines DEF Bound
  <2> QED
    BY <1>0, <1>1, <1>7, <2>1, <2>2, SameLines, KeptUnavailable DEF Working
<1> QED
  BY <1>0, <1>1, <1>5, <1>6, <1>7 DEF Finish

LEMMA KeptPublishFails ==
  ASSUME Inv, mode = "up", NEW t \in Threads, PublishFails(t)
  PROVE  Kept'
<1>1. call[t].at \in Working /\ BecomesUnavailable(t) /\ UNCHANGED <<disk, index, mode, effects, answers>>
  BY DEF PublishFails, Working, journalVars
<1>2. PICK op \in Operations, q \in Requests : op = call[t].op /\ q = call[t].request
  BY CallTyped DEF Inv
<1>3. ~Gone' => Bound(op)'
  BY <1>1, SameLines DEF Inv, DiskInv, Bound
<1> QED
  BY <1>1, <1>2, <1>3, SameLines, KeptUnavailable

LEMMA KeptPublish ==
  ASSUME Inv, mode = "up", NEW t \in Threads, Publish(t)
  PROVE  Kept'
<1>0. call[t].at = "publishing" /\ Owner(t) /\ TypeOK /\ call[t].response \in Responses
  BY DEF Publish, Owner, Working, Inv, MemoryInv
<1>1. PICK op \in Operations, q \in Requests, r \in Responses :
         op = call[t].op /\ q = call[t].request /\ r = call[t].response
  BY <1>0, CallTyped
<1>2. /\ \A u \in Threads \ {t} : Owner(u) => call[u].op # op
      /\ state[op] # NoState /\ state[op].request = q
      /\ \A x \in answers : x[1] # op
  BY <1>0, <1>1, OthersApart
<1>3. /\ call'[t].at = "idle" /\ \A u \in Threads \ {t} : call'[u] = call[u]
      /\ state'[op] = Answered(q, r) /\ \A o \in Operations \ {op} : state'[o] = state[o]
      /\ answers' = answers \cup {<<op, q, r>>}
      /\ UNCHANGED <<disk, index, mode, effects>>
  BY <1>0, <1>1, IdleIs DEF Publish, journalVars, TypeOK
<1>4. Answered(q, r).request = q /\ Answered(q, r).response = r /\ Answered(q, r).status = "answered"
      /\ Answered(q, r) # NoState
  BY WritesAssumption DEF Answered, States
<1>5. ~ Owner(t)' /\ \A u \in Threads \ {t} : Owner(u)' <=> Owner(u)
  BY <1>3 DEF Owner, Working
<1>6. \A u \in Threads : call[u].op \in Operations
  BY CallTyped DEF Inv
<1>7. \A x \in answers : x[1] \in Operations
  BY <1>0, AnswerIs
<1>8. OwnInv'
  BY <1>0, <1>1, <1>2, <1>3, <1>4, <1>5, <1>6 DEF Inv, OwnInv
<1>9. \A u \in Threads : call'[u].at \in Working \cup {"queued"} => u # t /\ call[u].op # op /\ call'[u] = call[u]
  BY <1>2, <1>3, <1>5 DEF Owner, Working
<1>10. /\ \A x, y \in answers' : x[1] = y[1] => x = y
       /\ \A x \in answers' : state'[x[1]] = Answered(x[2], x[3])
  BY <1>2, <1>3, <1>7 DEF Inv, MemoryInv
<1>11. MemoryInv'
  BY <1>2, <1>3, <1>4, <1>6, <1>9, <1>10 DEF Inv, MemoryInv, Working
<1>12. ASSUME ~Gone'
       PROVE  DiskInv'
  <2>1. ~Gone /\ DiskInv /\ \A o, p, x : Line(o, p, x)' <=> Line(o, p, x)
    BY <1>3, <1>12, SameLines DEF Inv
  <2>2. \A o : (AnyLine(o)' <=> AnyLine(o)) /\ (TerminalLine(o)' <=> TerminalLine(o))
    BY <2>1 DEF AnyLine, TerminalLine
  <2>3. Line(op, q, r)'
    BY <2>1, <1>0, <1>1 DEF DiskInv
  <2>4. \A u \in Threads : \A o : call'[u].op = o /\ call'[u].at \in {"queued", "accepting"} => ~ AnyLine(o)'
    BY <2>1, <2>2, <1>9 DEF DiskInv, Working
  <2>5. \A u \in Threads : \A o, p : call'[u].op = o /\ call'[u].request = p
            /\ call'[u].at \in {"performing", "finishing"} => Line(o, p, NoResponse)' /\ ~ TerminalLine(o)'
    BY <2>1, <2>2, <1>9 DEF DiskInv, Working
  <2>6. \A u \in Threads : \A o, p, x : call'[u].op = o /\ call'[u].request = p /\ call'[u].response = x
            /\ call'[u].at = "publishing" => Line(o, p, x)'
    BY <2>1, <2>2, <1>9 DEF DiskInv, Working
  <2>7. \A o \in Operations : \A p, x : state'[o] # NoState /\ state'[o].request = p /\ state'[o].response = x
            /\ state'[o].status = "answered" => Line(o, p, x)'
    BY <2>1, <2>3, <1>3, <1>4 DEF DiskInv
  <2>8. \A x \in answers' : Line(x[1], x[2], x[3])'
    BY <2>1, <2>3, <1>3 DEF DiskInv
  <2>9. \A o \in Operations : state'[o] = NoState => ~ AnyLine(o)'
    BY <2>1, <2>2, <1>3, <1>4 DEF DiskInv
  <2> QED
    BY <2>1, <2>2, <2>4, <2>5, <2>6, <2>7, <2>8, <2>9, <1>3 DEF DiskInv
<1> QED
  BY <1>8, <1>11, <1>12 DEF Kept

LEMMA IdleThreads ==
  ASSUME Inv, mode # "up"
  PROVE  \A t \in Threads : call[t].at = "idle"
  BY IdleIs DEF Inv, ChainInv

\* A kill during an append: the lines stay consistent if those of the
\* operation were at most its accepted record.
LEMMA KilledLines ==
  ASSUME Inv, NEW op \in Operations, NEW q \in Requests, NEW r \in Responses \cup {NoResponse},
         KilledAppend(op, q, r),
         ~Gone => \A p \in Requests, x \in Responses \cup {NoResponse} : Line(op, p, x) => p = q /\ x = NoResponse
  PROVE  ~Gone' => /\ ~Gone
                   /\ \A o, p, x : Line(o, p, x) => Line(o, p, x)'
                   /\ \A o \in Operations : Bound(o)'
<1>1. PICK outcome \in {"torn", "unsynced"} : AppendRecord(op, q, r, outcome)
  BY DEF KilledAppend
<1>2. ~Gone' => /\ ~Gone
                /\ \A o, q1, r1 : Line(o, q1, r1) => Line(o, q1, r1)'
                /\ \A o, q1, r1 : Line(o, q1, r1)' => (Line(o, q1, r1) \/ (o = op /\ q1 = q /\ r1 = r))
  BY <1>1, FaultyAppend DEF Inv, Outcomes
<1>3. ASSUME ~Gone', NEW o \in Operations
      PROVE  Bound(o)'
  <2>1. CASE o = op
    BY <1>2, <1>3, <2>1 DEF Bound
  <2>2. CASE o # op
    BY <1>2, <1>3, <2>2 DEF Bound, Inv, DiskInv
  <2> QED
    BY <2>1, <2>2
<1> QED
  BY <1>2, <1>3

LEMMA KeptCrash ==
  ASSUME Inv, Crash
  PROVE  Kept'
<1>1. /\ \A t \in Threads : call'[t] = Idle
      /\ \A o \in Operations : state'[o] = NoState
      /\ mode # "down" /\ mode' = "down" /\ UNCHANGED <<effects, answers>>
  BY DEF Crash
<1>2. \A t \in Threads : ~ Owner(t)' /\ call'[t].at = "idle"
  BY <1>1, IdleIs DEF Owner, Working
<1>3. ~Gone' => /\ ~Gone
                /\ \A o, p, x : Line(o, p, x) => Line(o, p, x)'
                /\ \A o \in Operations : Bound(o)'
  <2>1. CASE UNCHANGED journalVars
    BY <2>1, SameLines DEF journalVars, Inv, DiskInv, Bound
  <2>2. ASSUME NEW t \in Threads, call[t].at = "accepting",
               KilledAppend(call[t].op, call[t].request, NoResponse)
        PROVE  ~Gone' => /\ ~Gone
                         /\ \A o, p, x : Line(o, p, x) => Line(o, p, x)'
                         /\ \A o \in Operations : Bound(o)'
    <3>1. ~Gone => ~ AnyLine(call[t].op)
      BY <1>1, <2>2 DEF Inv, DiskInv
    <3> QED
      BY <2>2, <3>1, CallTyped, KilledLines DEF AnyLine, Inv
  <2>3. ASSUME NEW t \in Threads, call[t].at = "finishing",
               KilledAppend(call[t].op, call[t].request, call[t].response)
        PROVE  ~Gone' => /\ ~Gone
                         /\ \A o, p, x : Line(o, p, x) => Line(o, p, x)'
                         /\ \A o \in Operations : Bound(o)'
    <3>0. call[t].op \in Operations /\ call[t].request \in Requests
      BY CallTyped DEF Inv
    <3>1. ~Gone => \A p \in Requests, x \in Responses \cup {NoResponse} :
             Line(call[t].op, p, x) => p = call[t].request /\ x = NoResponse
      BY <1>1, <2>3, <3>0, JournalAssumption DEF Inv, DiskInv, TerminalLine
    <3> QED
      BY <2>3, <3>1, CallTyped, KilledLines DEF Inv
  <2>4. ASSUME NEW op \in Operations, mode = "recovering", state[op] # NoState, state[op].status = "running",
               KilledAppend(op, state[op].request, Restarted)
        PROVE  ~Gone' => /\ ~Gone
                         /\ \A o, p, x : Line(o, p, x) => Line(o, p, x)'
                         /\ \A o \in Operations : Bound(o)'
    <3>0. state[op].request \in Requests /\ Restarted \in Responses
      BY <2>4, WritesAssumption DEF Inv, TypeOK, States
    <3>1. ~Gone => \A p \in Requests, x \in Responses \cup {NoResponse} :
             Line(op, p, x) => p = state[op].request /\ x = NoResponse
      BY <2>4, <3>0, JournalAssumption DEF Inv, DiskInv, TerminalLine
    <3> QED
      BY <2>4, <3>0, <3>1, KilledLines
  <2> QED
    BY <2>1, <2>2, <2>3, <2>4 DEF Crash, Appending
<1>4. OwnInv'
  BY <1>2 DEF OwnInv
<1>5. MemoryInv'
  BY <1>1 DEF Inv, MemoryInv
<1>6. ASSUME ~Gone'
      PROVE  DiskInv'
  <2>1. ~Gone /\ DiskInv
    BY <1>3, <1>6 DEF Inv
  <2>2. \A o : AnyLine(o) => AnyLine(o)'
    BY <1>3, <1>6 DEF AnyLine
  <2>3. \A o \in Operations : effects'[o] = 1 => AnyLine(o)'
    BY <1>1, <2>1, <2>2 DEF DiskInv
  <2>4. \A x \in answers' : Line(x[1], x[2], x[3])'
    BY <1>1, <1>3, <1>6, <2>1 DEF DiskInv
  <2> QED
    BY <1>1, <1>3, <1>6, <2>3, <2>4 DEF DiskInv, Bound
<1> QED
  BY <1>4, <1>5, <1>6 DEF Kept

LEMMA RestoredIs ==
  ASSUME Inv, Loadable, NEW op \in Operations
  PROVE  /\ Restored(op) = NoState <=> ~ AnyLine(op)
         /\ Restored(op) = NoState <=> Stored(op) = NoRecord
         /\ Restored(op) # NoState /\ Restored(op).status = "answered" =>
              Line(op, Restored(op).request, Restored(op).response)
         /\ Restored(op) # NoState /\ Restored(op).status = "running" =>
              Line(op, Restored(op).request, NoResponse) /\ ~ TerminalLine(op)
         /\ \A q \in Requests, r \in Responses : Line(op, q, r) => Restored(op) = Answered(q, r)
<1>0. TypeOK /\ ~Gone /\ DiskInv /\ NoResponse \notin Responses
  BY StoredIs, JournalAssumption DEF Inv
<1> DEFINE s == Stored(op)
<1>1. /\ s \in Records \cup {NoRecord}
      /\ s = NoRecord <=> ~ AnyLine(op)
      /\ s # NoRecord => Line(op, s.request, s.response)
      /\ s # NoRecord /\ s.response = NoResponse => ~ TerminalLine(op)
  BY <1>0, StoredIs
<1>2. Restored(op) = IF s = NoRecord THEN NoState
                     ELSE IF s.response = NoResponse THEN Running(s.request) ELSE Answered(s.request, s.response)
  BY DEF Restored
<1> HIDE DEF s
<1>3. CASE s = NoRecord
  <2>1. ~ AnyLine(op) /\ Restored(op) = NoState
    BY <1>1, <1>2, <1>3
  <2>2. \A q \in Requests, r \in Responses : ~ Line(op, q, r)
    BY <2>1 DEF AnyLine
  <2> QED
    BY <1>3, <2>1, <2>2 DEF s
<1>4. CASE s # NoRecord /\ s.response = NoResponse
  <2>1. s.request \in Requests
    BY <1>1, <1>4 DEF Records
  <2>2. /\ Running(s.request) \in States /\ Running(s.request).status = "running"
        /\ Running(s.request).request = s.request
    BY <2>1 DEF Running, States
  <2>3. Restored(op) = Running(s.request) /\ Running(s.request) # NoState
    BY <1>2, <1>4, <2>2, WritesAssumption
  <2>4. AnyLine(op) /\ ~ TerminalLine(op) /\ Line(op, s.request, NoResponse)
    BY <1>1, <1>4
  <2>5. \A q \in Requests, r \in Responses : ~ Line(op, q, r)
    BY <2>4 DEF TerminalLine
  <2> QED
    BY <1>4, <2>2, <2>3, <2>4, <2>5 DEF s
<1>5. CASE s # NoRecord /\ s.response # NoResponse
  <2>1. s.request \in Requests /\ s.response \in Responses
    BY <1>1, <1>5 DEF Records
  <2>2. /\ Answered(s.request, s.response) \in States /\ Answered(s.request, s.response).status = "answered"
        /\ Answered(s.request, s.response).request = s.request
        /\ Answered(s.request, s.response).response = s.response
    BY <2>1 DEF Answered, States
  <2>3. Restored(op) = Answered(s.request, s.response) /\ Answered(s.request, s.response) # NoState
    BY <1>2, <1>5, <2>2, WritesAssumption
  <2>4. AnyLine(op) /\ Line(op, s.request, s.response)
    BY <1>1, <1>5
  <2>5. \A q \in Requests, r \in Responses : Line(op, q, r) => q = s.request /\ r = s.response
    BY <1>0, <2>1, <2>4 DEF DiskInv
  <2> QED
    BY <1>5, <2>2, <2>3, <2>4, <2>5 DEF s
<1> QED
  BY <1>3, <1>4, <1>5

LEMMA KeptRestart ==
  ASSUME Inv, Restart
  PROVE  Kept'
<1>1. /\ mode = "down" /\ mode' = "recovering" /\ Loadable
      /\ UNCHANGED <<disk, call, effects, answers>>
      /\ \A op \in Operations : state'[op] = Restored(op) /\ index'[op] = Stored(op)
  BY DEF Restart, Load
<1>2. \A t \in Threads : ~ Owner(t)' /\ call'[t].at = "idle"
  BY <1>1, IdleThreads DEF Owner, Working
<1>3. OwnInv'
  BY <1>2 DEF OwnInv
<1>4. PICK o \in Operations : TRUE
  BY WritesAssumption
<1>5. ~Gone /\ DiskInv /\ \A p, q, r : Line(p, q, r)' <=> Line(p, q, r)
  BY <1>1, <1>4, StoredIs, SameLines DEF Inv
<1>6. \A p : (AnyLine(p)' <=> AnyLine(p)) /\ (TerminalLine(p)' <=> TerminalLine(p))
  BY <1>5 DEF AnyLine, TerminalLine
<1>7. \A op \in Operations : state'[op] = NoState => index'[op] = NoRecord /\ effects'[op] = 0 /\ ~ AnyLine(op)
  <2>1. \A op \in Operations : effects[op] \in Nat /\ effects[op] <= 1
    BY DEF Inv, MemoryInv, TypeOK
  <2> QED
    BY <1>1, <1>5, <2>1, RestoredIs DEF DiskInv
<1>8. \A x \in answers' : state'[x[1]] = Answered(x[2], x[3])
  <2>1. \A x \in answers : x[1] \in Operations /\ x[2] \in Requests /\ x[3] \in Responses
    BY AnswerIs DEF Inv
  <2> QED
    BY <1>1, <1>5, <2>1, RestoredIs DEF DiskInv
<1>9. MemoryInv'
  BY <1>1, <1>2, <1>7, <1>8 DEF Inv, MemoryInv
<1>10. \A op \in Operations : \A p, r : state'[op] # NoState /\ state'[op].request = p /\ state'[op].response = r
            /\ state'[op].status = "answered" => Line(op, p, r)'
  BY <1>1, <1>5, RestoredIs
<1>11. \A op \in Operations : \A p : state'[op] # NoState /\ state'[op].request = p
            /\ state'[op].status = "running" => Line(op, p, NoResponse)' /\ ~ TerminalLine(op)'
  BY <1>1, <1>5, <1>6, RestoredIs
<1>12. DiskInv'
  BY <1>1, <1>2, <1>5, <1>6, <1>7, <1>10, <1>11 DEF DiskInv
<1> QED
  BY <1>3, <1>9, <1>12 DEF Kept

LEMMA KeptRecoverOperation ==
  ASSUME Inv, NEW op \in Operations, RecoverOperation(op)
  PROVE  Kept'
<1>1. /\ mode = "recovering" /\ state[op] # NoState /\ state[op].status = "running"
      /\ AppendRecord(op, state[op].request, Restarted, "ok")
      /\ UNCHANGED <<mode, call, effects, answers>>
  BY DEF RecoverOperation
<1>2. PICK q \in Requests : q = state[op].request
  BY <1>1 DEF Inv, TypeOK, States
<1>3. /\ state'[op] = Answered(q, Restarted) /\ \A o \in Operations \ {op} : state'[o] = state[o]
      /\ \A o \in Operations \ {op} : index'[o] = index[o]
  BY <1>1, <1>2 DEF RecoverOperation, AppendRecord, Inv, TypeOK, JournalTypeOK
<1>4. Answered(q, Restarted).request = q /\ Answered(q, Restarted).response = Restarted
      /\ Answered(q, Restarted).status = "answered" /\ Answered(q, Restarted) # NoState /\ Restarted \in Responses
  BY WritesAssumption DEF Answered, States
<1>5. \A t \in Threads : ~ Owner(t)' /\ call'[t].at = "idle"
  BY <1>1, IdleThreads DEF Owner, Working
<1>6. OwnInv'
  BY <1>5 DEF OwnInv
<1>7. \A x \in answers : x[1] \in Operations /\ x[1] # op
  <2>1. \A x \in answers : Answered(x[2], x[3]).status = "answered"
    BY DEF Answered
  <2> QED
    BY <1>1, <2>1, AnswerIs DEF Inv, MemoryInv
<1>8. MemoryInv'
  BY <1>1, <1>3, <1>4, <1>5, <1>7 DEF Inv, MemoryInv
<1>9. ASSUME ~Gone'
      PROVE  DiskInv'
  <2>1. ~Gone /\ DiskInv
        /\ \A o, q1, r1 : Line(o, q1, r1)' <=> (Line(o, q1, r1) \/ (o = op /\ q1 = q /\ r1 = Restarted))
    BY <1>1, <1>2, <1>4, <1>9, AppendedLine DEF Inv
  <2>2. /\ \A o : AnyLine(o) => AnyLine(o)'
        /\ \A o : o # op => (AnyLine(o)' <=> AnyLine(o)) /\ (TerminalLine(o)' <=> TerminalLine(o))
    BY <2>1 DEF AnyLine, TerminalLine
  <2>3. \A p \in Requests, x \in Responses \cup {NoResponse} : Line(op, p, x) => p = q /\ x = NoResponse
    BY <1>1, <1>2, <2>1, JournalAssumption DEF DiskInv, TerminalLine
  <2>4. \A o \in Operations : Bound(o)'
    <3>1. TAKE o \in Operations
    <3>2. CASE o = op
      BY <2>1, <2>3, <3>2 DEF Bound
    <3>3. CASE o # op
      BY <2>1, <3>3 DEF Bound, DiskInv
    <3> QED
      BY <3>2, <3>3
  <2>5. \A o \in Operations : state'[o] = NoState => ~ AnyLine(o)'
    BY <1>1, <1>3, <1>4, <2>1, <2>2 DEF DiskInv
  <2>6. \A o \in Operations : effects'[o] = 1 => AnyLine(o)'
    BY <1>1, <2>1, <2>2 DEF DiskInv
  <2>7. \A x \in answers' : Line(x[1], x[2], x[3])'
    BY <1>1, <2>1 DEF DiskInv
  <2>8. \A o \in Operations : \A p, r : state'[o] # NoState /\ state'[o].request = p /\ state'[o].response = r
            /\ state'[o].status = "answered" => Line(o, p, r)'
    BY <1>1, <1>3, <1>4, <2>1 DEF DiskInv
  <2>9. \A o \in Operations : \A p : state'[o] # NoState /\ state'[o].request = p
            /\ state'[o].status = "running" => Line(o, p, NoResponse)' /\ ~ TerminalLine(o)'
    BY <1>1, <1>3, <1>4, <2>1, <2>2 DEF DiskInv
  <2> QED
    BY <1>1, <1>5, <2>4, <2>5, <2>6, <2>7, <2>8, <2>9 DEF DiskInv, Bound
<1> QED
  BY <1>6, <1>8, <1>9 DEF Kept

LEMMA KeptRecovered ==
  ASSUME Inv, Recovered
  PROVE  Kept'
<1>1. mode = "recovering" /\ mode' = "up" /\ UNCHANGED <<disk, index, state, call, effects, answers>>
  BY DEF Recovered, journalVars
<1>2. \A t \in Threads : ~ Owner(t)' /\ call'[t].at = "idle"
  BY <1>1, IdleThreads DEF Owner, Working
<1>3. OwnInv'
  BY <1>2 DEF OwnInv
<1>4. MemoryInv'
  BY <1>1, <1>2 DEF Inv, MemoryInv
<1>5. ~Gone' => DiskInv'
  BY <1>1, <1>2, SameLines DEF Inv, DiskInv, AnyLine, TerminalLine
<1> QED
  BY <1>3, <1>4, <1>5 DEF Kept

-----------------------------------------------------------------------------
(* The invariant and what follows from it, for every set of Faults.          *)

LEMMA InitInv ==
  ASSUME Init
  PROVE  Inv
<1>1. \A t \in Threads : call[t] = Idle /\ call[t].at = "idle" /\ call[t] \in Calls /\ ~ Owner(t)
  BY IdleIs DEF Init, Owner, Working
<1>2. TypeOK
  <2>1. \A a \in Attempts : chain[a] = <<>>
    BY DEF Init
  <2>2. chain \in [Attempts -> Seq(Threads)]
    BY DEF Init
  <2>3. JournalTypeOK
    BY DEF Init, JournalInit, JournalTypeOK
  <2>4. crashes \in 0..MaxCrashes
    BY WritesAssumption DEF Init
  <2>5. call \in [Threads -> Calls]
    BY IdleIs DEF Init
  <2> QED
    BY <2>2, <2>3, <2>4, <2>5 DEF Init, TypeOK
<1>3. ChainInv
  BY <1>1 DEF Init, ChainInv, Working
<1>4. OwnInv
  BY <1>1 DEF OwnInv
<1>5. MemoryInv
  BY <1>1 DEF Init, JournalInit, MemoryInv
<1>6. \A o, q, r : ~ Line(o, q, r)
  BY DEF Init, JournalInit, Line
<1>7. DiskInv
  BY <1>1, <1>6 DEF Init, DiskInv, AnyLine, TerminalLine
<1> QED
  BY <1>2, <1>3, <1>4, <1>5, <1>7 DEF Inv

LEMMA NextInv ==
  ASSUME Inv, [Next]_vars
  PROVE  Inv'
<1>1. CASE UNCHANGED vars
  <2>1. UNCHANGED <<disk, tail, next, index, mode, state, chain, known, call, effects, answers, crashes>>
    BY <1>1 DEF vars, journalVars
  <2>2. \A t \in Threads : (Owner(t)' <=> Owner(t)) /\ AttemptAt(t)' = AttemptAt(t)
    BY <2>1 DEF Owner, AttemptAt
  <2>3. TypeOK'
    BY <2>1 DEF Inv, TypeOK, JournalTypeOK
  <2>4. ChainInv'
    BY <2>1, <2>2 DEF Inv, ChainInv, AttemptAt
  <2>5. OwnInv' /\ MemoryInv'
    BY <2>1, <2>2 DEF Inv, OwnInv, MemoryInv
  <2>6. ~Gone' => DiskInv'
    BY <2>1, SameLines DEF Inv, DiskInv, AnyLine, TerminalLine
  <2> QED
    BY <2>3, <2>4, <2>5, <2>6 DEF Inv
<1>2. CASE Next
  <2>1. TypeOK'
    BY <1>2, Typed DEF Inv
  <2>2. ChainInv'
    BY <1>2, ChainKept DEF Inv
  <2>3. Kept'
    <3>1. ASSUME mode = "up", NEW t \in Threads, Arrival(t)
          PROVE  Kept'
      BY <3>1, KeptReplay, KeptJoin, KeptRegister DEF Arrival
    <3>2. ASSUME mode = "up", NEW t \in Threads, Step(t)
          PROVE  Kept'
      BY <3>2, KeptJoinReturns, KeptPrecheckFails, KeptPrecheckPasses, KeptBegin, KeptPerform, KeptFinish,
         KeptPublish, KeptPublishFails DEF Step
    <3> QED
      BY <1>2, <3>1, <3>2, KeptCrash, KeptRestart, KeptRecoverOperation, KeptRecovered DEF Next
  <2> QED
    BY <2>1, <2>2, <2>3 DEF Inv, Kept
<1> QED
  BY <1>1, <1>2

LEMMA InvHolds == Spec => []Inv
  BY InitInv, NextInv, PTL DEF Spec

\* The typing of the file, the index, the operations, the chains and the calls
\* is kept by every request, append, kill and restart.
THEOREM TypeCorrect == Spec => []TypeOK
<1>1. Inv => TypeOK
  BY DEF Inv
<1> QED
  BY <1>1, InvHolds, PTL

\* Prechecks, performs and journal writes of one attempt never overlap.
THEOREM OneAtATime == Spec => []AttemptSerial
<1>1. ASSUME Inv
      PROVE  AttemptSerial
  <2>1. SUFFICES ASSUME NEW a \in Attempts
                 PROVE  /\ {t \in Threads : AttemptAt(t) = a /\ call[t].at \in Working}
                             \subseteq {chain[a][i] : i \in DOMAIN chain[a] \cap {1}}
                        /\ {chain[a][i] : i \in DOMAIN chain[a]}
                             = {t \in Threads : AttemptAt(t) = a /\ call[t].at \in Working \cup {"queued"}}
    BY Zenon DEF AttemptSerial
  <2>2. {t \in Threads : AttemptAt(t) = a /\ call[t].at \in Working}
          \subseteq {chain[a][i] : i \in DOMAIN chain[a] \cap {1}}
    <3>1. SUFFICES ASSUME NEW t \in Threads, AttemptAt(t) = a, call[t].at \in Working
                   PROVE  t \in {chain[a][i] : i \in DOMAIN chain[a] \cap {1}}
      OBVIOUS
    <3>2. chain[a] \in Seq(Threads) /\ chain[a] # <<>> /\ chain[a][1] = t
      BY <1>1, <3>1 DEF Inv, TypeOK, ChainInv
    <3>3. 1 \in DOMAIN chain[a]
      BY <3>2
    <3> QED
      BY <3>2, <3>3
  <2>3. \A t \in Threads : Owner(t) <=> call[t].at \in Working \cup {"queued"}
    BY DEF Owner
  <2>4. \A i \in DOMAIN chain[a] : chain[a][i] \in Threads
    BY <1>1 DEF Inv, TypeOK
  <2>5. \A i \in DOMAIN chain[a] : Owner(chain[a][i]) /\ AttemptAt(chain[a][i]) = a
    BY <1>1, <2>4 DEF Inv, ChainInv
  <2>6. \A t \in Threads : Owner(t) /\ AttemptAt(t) = a => \E i \in DOMAIN chain[a] : chain[a][i] = t
    BY <1>1 DEF Inv, ChainInv
  <2>7. {chain[a][i] : i \in DOMAIN chain[a]}
          = {t \in Threads : AttemptAt(t) = a /\ call[t].at \in Working \cup {"queued"}}
    BY <2>3, <2>4, <2>5, <2>6
  <2> QED
    BY <2>2, <2>7
<1> QED
  BY <1>1, InvHolds, PTL

\* Whatever appends fail and however often the controller is killed, the
\* backend performs no operation twice.
THEOREM PerformedAtMostOnce == Spec => []AtMostOnce
<1>1. Inv => AtMostOnce
  BY DEF Inv, MemoryInv, AtMostOnce
<1> QED
  BY <1>1, InvHolds, PTL

\* Every answer a client was given is the one terminal record of its
\* operation, in every file a restart accepts.
THEOREM AnswersStayFinal == Spec => []AnswersAreFinal
<1>1. ASSUME Inv
      PROVE  AnswersAreFinal
  <2>1. SUFFICES ASSUME NEW x \in answers
                 PROVE  /\ \A y \in answers : x[1] = y[1] => x = y
                        /\ Loadable => \E i \in DOMAIN disk :
                              disk[i].op = x[1] /\ disk[i].request = x[2] /\ disk[i].response = x[3]
    BY DEF AnswersAreFinal
  <2>2. \A y \in answers : x[1] = y[1] => x = y
    BY <1>1 DEF Inv, MemoryInv
  <2>3. ASSUME Loadable
        PROVE  \E i \in DOMAIN disk : disk[i].op = x[1] /\ disk[i].request = x[2] /\ disk[i].response = x[3]
    <3>1. ~Gone
      BY <2>3 DEF Loadable, Gone
    <3>2. Line(x[1], x[2], x[3])
      BY <1>1, <3>1 DEF Inv, DiskInv
    <3> QED
      BY <3>2 DEF Line
  <2> QED
    BY <2>2, <2>3
<1> QED
  BY <1>1, InvHolds, PTL

-----------------------------------------------------------------------------
(* RuntimeWrites implements ExactlyOnce, as long as no append that the        *)
(* process survives tears a line.                                            *)

\* While the controller runs, its file ends with a complete line.
Clean == ~Gone /\ (mode # "down" => tail = "none")

\* What Outcome returns, in terms of the lines of an operation.
OutcomeAgrees ==
    \A op \in Operations :
        /\ ~ AnyLine(op) => Outcome(op) = NoRecord
        /\ \A q \in Requests : Line(op, q, NoResponse) /\ ~ TerminalLine(op) =>
              Outcome(op) = [request |-> q, response |-> NoResponse]
        /\ \A q \in Requests, r \in Responses : Line(op, q, r) =>
              Outcome(op) = [request |-> q, response |-> r]
        /\ AnyLine(op) => TerminalLine(op) \/ \E q \in Requests : Line(op, q, NoResponse)

LEMMA Agree == Inv /\ ~Gone => OutcomeAgrees
<1> SUFFICES ASSUME Inv, ~Gone, NEW op \in Operations
             PROVE  /\ ~ AnyLine(op) => Outcome(op) = NoRecord
                    /\ \A q \in Requests : Line(op, q, NoResponse) /\ ~ TerminalLine(op) =>
                          Outcome(op) = [request |-> q, response |-> NoResponse]
                    /\ \A q \in Requests, r \in Responses : Line(op, q, r) =>
                          Outcome(op) = [request |-> q, response |-> r]
                    /\ AnyLine(op) => TerminalLine(op) \/ \E q \in Requests : Line(op, q, NoResponse)
  BY DEF OutcomeAgrees
<1>1. \A i \in DOMAIN disk : disk[i].request \in Requests /\ disk[i].response \in Responses \cup {NoResponse}
  <2>1. disk \in Seq(Records \cup {Garbled}) /\ \A i \in DOMAIN disk : disk[i] # Garbled
    BY DEF Inv, TypeOK, JournalTypeOK, Gone
  <2> QED
    BY <2>1 DEF Records
<1>2. \A q1, q2 \in Requests : \A r1, r2 \in Responses \cup {NoResponse} :
         Line(op, q1, r1) /\ Line(op, q2, r2) => q1 = q2 /\ (r1 = r2 \/ r1 = NoResponse \/ r2 = NoResponse)
  BY DEF Inv, DiskInv
<1>3. \A i \in Lines(op) : Line(op, disk[i].request, disk[i].response)
  BY DEF Lines, Line
<1>4. \A i \in Lines(op) : i \in DOMAIN disk
  BY DEF Lines
<1>5. NoResponse \notin Responses
  BY JournalAssumption
<1>6. AnyLine(op) <=> Lines(op) # {}
  <2>1. AnyLine(op) => Lines(op) # {}
    BY DEF AnyLine, Line, Lines
  <2>2. \A i \in Lines(op) : AnyLine(op)
    BY <1>1, <1>3, <1>4 DEF AnyLine
  <2> QED
    BY <2>1, <2>2
<1>7. TerminalLine(op) <=> Terminal(op) # {}
  BY <1>1, <1>3, <1>4, <1>5 DEF TerminalLine, Line, Lines, Terminal
<1>8. ASSUME NEW q \in Requests, Line(op, q, NoResponse), ~ TerminalLine(op)
      PROVE  Outcome(op) = [request |-> q, response |-> NoResponse]
  <2> DEFINE i == CHOOSE i \in Lines(op) : TRUE
  <2>1. Lines(op) # {} /\ Terminal(op) = {}
    BY <1>6, <1>7, <1>8 DEF AnyLine
  <2>2. i \in Lines(op)
    BY <2>1
  <2>3. Outcome(op) = [request |-> disk[i].request, response |-> disk[i].response]
    BY <2>1 DEF Outcome
  <2> HIDE DEF i
  <2>4. disk[i].response = NoResponse
    BY <2>1, <2>2 DEF Terminal
  <2>5. disk[i].request = q
    BY <1>1, <1>2, <1>3, <1>4, <1>8, <2>2
  <2> QED
    BY <2>3, <2>4, <2>5
<1>9. ASSUME NEW q \in Requests, NEW r \in Responses, Line(op, q, r)
      PROVE  Outcome(op) = [request |-> q, response |-> r]
  <2> DEFINE i == CHOOSE i \in Terminal(op) : TRUE
  <2>1. Lines(op) # {} /\ Terminal(op) # {}
    BY <1>6, <1>7, <1>9 DEF AnyLine, TerminalLine
  <2>2. i \in Terminal(op)
    BY <2>1
  <2>3. Outcome(op) = [request |-> disk[i].request, response |-> disk[i].response]
    BY <2>1 DEF Outcome
  <2> HIDE DEF i
  <2>4. i \in Lines(op) /\ disk[i].response # NoResponse
    BY <2>2 DEF Terminal
  <2>5. disk[i].request = q /\ disk[i].response = r
    BY <1>1, <1>2, <1>3, <1>4, <1>5, <1>9, <2>4
  <2> QED
    BY <2>3, <2>5
<1>10. AnyLine(op) => TerminalLine(op) \/ \E q \in Requests : Line(op, q, NoResponse)
  BY DEF AnyLine, TerminalLine
<1>11. ~ AnyLine(op) => Outcome(op) = NoRecord
  BY <1>6 DEF Outcome
<1> QED
  BY <1>8, <1>9, <1>10, <1>11
-----------------------------------------------------------------------------
(* The steps of the abstract specification.                                 *)

Others(op) == \A o \in Operations \ {op} : Outcome(o)' = Outcome(o)

LEMMA AcceptStep ==
  ASSUME NEW op \in Operations, NEW q \in Requests, Outcome(op) = NoRecord,
         Outcome(op)' = [request |-> q, response |-> NoResponse], Others(op), UNCHANGED <<effects, answers>>
  PROVE  Promise!Next
<1>1. Promise!Accept(op, q)
  BY DEF Promise!Accept, Others
<1> QED
  BY <1>1 DEF Promise!Next

LEMMA SettleStep ==
  ASSUME NEW op \in Operations, NEW q \in Requests, NEW r \in Responses,
         Outcome(op) = [request |-> q, response |-> NoResponse],
         Outcome(op)' = [request |-> q, response |-> r], Others(op), UNCHANGED <<effects, answers>>
  PROVE  Promise!Next
<1>0. [request |-> q, response |-> NoResponse] # NoRecord
  BY JournalAssumption
<1>1. Promise!Accepted(op)
  BY <1>0 DEF Promise!Accepted
<1>2. [Outcome(op) EXCEPT !.response = r] = [request |-> q, response |-> r]
  OBVIOUS
<1>3. Promise!Settle(op, r)
  BY <1>1, <1>2 DEF Promise!Settle, Others
<1> QED
  BY <1>3 DEF Promise!Next

LEMMA EffectStep ==
  ASSUME TypeOK, NEW op \in Operations, NEW q \in Requests,
         Outcome(op) = [request |-> q, response |-> NoResponse],
         effects[op] = 0, effects' = [effects EXCEPT ![op] = @ + 1], UNCHANGED <<disk, answers>>
  PROVE  Promise!Next
<1>0. [request |-> q, response |-> NoResponse] # NoRecord
  BY JournalAssumption
<1>1. Promise!Accepted(op)
  BY <1>0 DEF Promise!Accepted
<1>2. effects' = [effects EXCEPT ![op] = 1]
  BY DEF TypeOK
<1>3. [o \in Operations |-> Outcome(o)]' = [o \in Operations |-> Outcome(o)]
  BY DEF Outcome, Terminal, Lines
<1>4. Promise!Effect(op)
  BY <1>1, <1>2, <1>3 DEF Promise!Effect
<1> QED
  BY <1>4 DEF Promise!Next

LEMMA AnswerStep ==
  ASSUME NEW op \in Operations, NEW q \in Requests, NEW r \in Responses,
         Outcome(op) = [request |-> q, response |-> r],
         answers' = answers \cup {<<op, q, r>>}, UNCHANGED <<disk, effects>>
  PROVE  Promise!Next
<1>0. [request |-> q, response |-> r] # NoRecord /\ r # NoResponse
  BY JournalAssumption
<1>1. Promise!Settled(op)
  BY <1>0 DEF Promise!Settled
<1>3. [o \in Operations |-> Outcome(o)]' = [o \in Operations |-> Outcome(o)]
  BY DEF Outcome, Terminal, Lines
<1>4. Promise!Answer(op)
  BY <1>1, <1>3 DEF Promise!Answer
<1> QED
  BY <1>4 DEF Promise!Next

LEMMA Stutter ==
  ASSUME UNCHANGED <<disk, effects, answers>>
  PROVE  UNCHANGED Promise!vars
<1>1. [o \in Operations |-> Outcome(o)]' = [o \in Operations |-> Outcome(o)]
  BY DEF Outcome, Terminal, Lines
<1> QED
  BY <1>1 DEF Promise!vars

-----------------------------------------------------------------------------
(* Every step of RuntimeWrites is one of them, or a stutter.                 *)

\* The invariant of the refinement.
PromiseInv == Inv /\ Clean

LEMMA AppendStep ==
  ASSUME PromiseInv, PromiseInv',
         NEW op \in Operations, NEW q \in Requests, NEW r \in Responses \cup {NoResponse},
         NEW outcome \in {"ok", "unsynced"}, AppendRecord(op, q, r, outcome), UNCHANGED <<effects, answers>>,
         \/ r = NoResponse /\ ~ AnyLine(op)
         \/ r # NoResponse /\ Line(op, q, NoResponse) /\ ~ TerminalLine(op)
  PROVE  Promise!Next
<1>1. ~Gone /\ ~Gone' /\ TypeOK /\ NoResponse \notin Responses
  BY JournalAssumption DEF PromiseInv, Clean, Inv
<1>2. OutcomeAgrees
  BY <1>1, Agree DEF PromiseInv
<1>3. OutcomeAgrees'
  <2>1. (Inv /\ ~Gone => OutcomeAgrees)'
    BY Agree, PTL
  <2> QED
    BY <1>1, <2>1 DEF PromiseInv
<1>4. \A o, p, x : Line(o, p, x)' <=> (Line(o, p, x) \/ (o = op /\ p = q /\ x = r))
  BY <1>1, AppendedLine
<1>5. Others(op)
  <2> SUFFICES ASSUME NEW o \in Operations, o # op
               PROVE  Outcome(o)' = Outcome(o)
    BY DEF Others
  <2>1. (AnyLine(o)' <=> AnyLine(o)) /\ (TerminalLine(o)' <=> TerminalLine(o))
    BY <1>4 DEF AnyLine, TerminalLine
  <2>2. CASE ~ AnyLine(o)
    BY <1>2, <1>3, <2>1, <2>2 DEF OutcomeAgrees
  <2>3. CASE TerminalLine(o)
    <3>1. PICK p \in Requests, x \in Responses : Line(o, p, x)
      BY <2>3 DEF TerminalLine
    <3>2. Line(o, p, x)'
      BY <1>4, <3>1
    <3> QED
      BY <1>2, <1>3, <3>1, <3>2 DEF OutcomeAgrees
  <2>4. CASE AnyLine(o) /\ ~ TerminalLine(o)
    <3>1. PICK p \in Requests : Line(o, p, NoResponse)
      BY <1>2, <2>4 DEF OutcomeAgrees
    <3>2. Line(o, p, NoResponse)'
      BY <1>4, <3>1
    <3> QED
      BY <1>2, <1>3, <2>1, <2>4, <3>1, <3>2 DEF OutcomeAgrees
  <2> QED
    BY <2>2, <2>3, <2>4
<1>6. CASE r = NoResponse /\ ~ AnyLine(op)
  <2>1. Outcome(op) = NoRecord
    BY <1>2, <1>6 DEF OutcomeAgrees
  <2>2. Line(op, q, NoResponse)' /\ ~ TerminalLine(op)'
    BY <1>1, <1>4, <1>6 DEF AnyLine, TerminalLine
  <2>3. Outcome(op)' = [request |-> q, response |-> NoResponse]
    BY <1>3, <2>2 DEF OutcomeAgrees
  <2> QED
    BY <1>5, <2>1, <2>3, AcceptStep
<1>7. CASE r # NoResponse /\ Line(op, q, NoResponse) /\ ~ TerminalLine(op)
  <2>1. Outcome(op) = [request |-> q, response |-> NoResponse]
    BY <1>2, <1>7 DEF OutcomeAgrees
  <2>2. r \in Responses /\ Line(op, q, r)'
    BY <1>4, <1>7
  <2>3. Outcome(op)' = [request |-> q, response |-> r]
    BY <1>3, <2>2 DEF OutcomeAgrees
  <2> QED
    BY <1>5, <2>1, <2>2, <2>3, SettleStep
<1> QED
  BY <1>6, <1>7

LEMMA CleanKept ==
  ASSUME PromiseInv, [Next]_vars, "torn" \notin Faults
  PROVE  Clean'
<1>1. ASSUME mode # "down", NEW op, NEW q, NEW r, NEW outcome \in Outcomes, outcome # "torn" \/ mode' = "down",
             AppendRecord(op, q, r, outcome), op \in Operations, q \in Requests, r \in Responses \cup {NoResponse}
      PROVE  Clean'
  <2> DEFINE record == [seq |-> next, op |-> op, request |-> q, response |-> r]
  <2>1. record # Garbled /\ disk \in Seq(Records \cup {Garbled}) /\ record \in Records
    BY <1>1, JournalAssumption DEF Records, PromiseInv, Inv, TypeOK, JournalTypeOK
  <2>2. tail = "none" /\ ~Gone
    BY <1>1 DEF PromiseInv, Clean
  <2>3. CASE outcome \in {"ok", "unsynced"}
    <3>1. disk' = Append(disk, record) /\ tail' = "none"
      BY <1>1, <2>2, <2>3 DEF AppendRecord, Written
    <3> HIDE DEF record
    <3> QED
      BY <2>1, <2>2, <3>1 DEF Clean, Gone
  <2>4. CASE outcome = "lost"
    BY <1>1, <2>2, <2>4 DEF AppendRecord, journalVars, Clean, Gone
  <2>5. CASE outcome = "torn"
    BY <1>1, <2>2, <2>5 DEF AppendRecord, Clean, Gone
  <2> QED
    BY <2>3, <2>4, <2>5 DEF Outcomes
<1>2. CASE UNCHANGED journalVars /\ (mode' # "down" => mode # "down")
  BY <1>2 DEF journalVars, PromiseInv, Clean, Gone
<1>3. ASSUME mode = "up", NEW t \in Threads, Arrival(t) \/ Step(t)
      PROVE  Clean'
  <2>1. mode' = mode
    BY <1>3 DEF Arrival, Step, Replay, Join, Register, JoinReturns, PrecheckFails, PrecheckPasses, Begin, Perform,
       Finish, Publish, PublishFails
  <2>2. \/ UNCHANGED journalVars
        \/ \E r \in {NoResponse, call[t].response}, outcome \in Faults \cup {"ok"} :
              AppendRecord(call[t].op, call[t].request, r, outcome)
    BY <1>3 DEF Arrival, Step, Replay, Join, Register, JoinReturns, PrecheckFails, PrecheckPasses, Begin, Perform,
       Finish, Publish, PublishFails
  <2>3. Faults \cup {"ok"} \subseteq Outcomes \ {"torn"}
    BY JournalAssumption DEF Outcomes
  <2> QED
    BY <1>1, <1>2, <1>3, <2>1, <2>2, <2>3, CallTyped DEF PromiseInv, Inv
<1>4. CASE Crash
  <2>1. mode # "down" /\ mode' = "down"
    BY <1>4 DEF Crash
  <2>2. CASE UNCHANGED journalVars
    BY <1>2, <2>1, <2>2
  <2>3. ASSUME NEW op, NEW q, NEW r, KilledAppend(op, q, r), op \in Operations, q \in Requests,
               r \in Responses \cup {NoResponse}
        PROVE  Clean'
    BY <1>1, <2>1, <2>3 DEF KilledAppend, Outcomes
  <2>4. \A op \in Operations : state[op] # NoState => state[op].request \in Requests
    BY DEF PromiseInv, Inv, TypeOK, States
  <2> QED
    BY <1>4, <2>2, <2>3, <2>4, CallTyped, WritesAssumption DEF Crash, Appending, PromiseInv, Inv
<1>5. CASE Restart
  BY <1>5 DEF Restart, Load, PromiseInv, Clean, Gone
<1>6. ASSUME NEW op \in Operations, RecoverOperation(op)
      PROVE  Clean'
  <2>1. state[op].request \in Requests
    BY <1>6 DEF RecoverOperation, PromiseInv, Inv, TypeOK, States
  <2> QED
    BY <1>1, <1>6, <2>1, WritesAssumption DEF RecoverOperation, Outcomes
<1>7. CASE Recovered
  BY <1>2, <1>7 DEF Recovered
<1>8. CASE UNCHANGED vars
  BY <1>2, <1>8 DEF vars
<1> QED
  BY <1>3, <1>4, <1>5, <1>6, <1>7, <1>8 DEF Next

\* An append that fails, and that the process survives or not.
LEMMA FailedStep ==
  ASSUME PromiseInv, PromiseInv',
         NEW op \in Operations, NEW q \in Requests, NEW r \in Responses \cup {NoResponse},
         NEW outcome \in {"lost", "torn", "unsynced"}, AppendRecord(op, q, r, outcome), UNCHANGED <<effects, answers>>,
         \/ r = NoResponse /\ ~ AnyLine(op)
         \/ r # NoResponse /\ Line(op, q, NoResponse) /\ ~ TerminalLine(op)
  PROVE  [Promise!Next]_(Promise!vars)
<1>1. CASE outcome = "unsynced"
  BY <1>1, AppendStep
<1>2. CASE outcome # "unsynced"
  BY <1>2, Stutter DEF AppendRecord, journalVars
<1> QED
  BY <1>1, <1>2

LEMMA PromiseStep ==
  ASSUME PromiseInv, PromiseInv', [Next]_vars
  PROVE  [Promise!Next]_(Promise!vars)
<1> USE DEF PromiseInv
<1>0. ~Gone /\ DiskInv /\ TypeOK /\ NoResponse \notin Responses
  BY JournalAssumption DEF Clean, Inv
<1>1. OutcomeAgrees
  BY <1>0, Agree
<1>2. \A t \in Threads : call[t].op \in Operations /\ call[t].request \in Requests
  BY <1>0, CallTyped
<1>3. ASSUME NEW op \in Operations, NEW q, NEW r, mode = "up", state[op] # NoState, state[op].status = "answered",
             q = state[op].request, r = state[op].response,
             answers' = answers \cup {<<op, q, r>>}, UNCHANGED <<disk, effects>>
      PROVE  Promise!Next
  <2>1. Line(op, q, r) /\ q \in Requests /\ r \in Responses
    BY <1>0, <1>3 DEF DiskInv, TypeOK, States
  <2>2. Outcome(op) = [request |-> q, response |-> r]
    BY <1>1, <2>1 DEF OutcomeAgrees
  <2> QED
    BY <1>3, <2>1, <2>2, AnswerStep
<1>4. ASSUME mode = "up", NEW t \in Threads, NEW s \in Submissions, Replay(t, s[1], s[2])
      PROVE  Promise!Next
  <2>1. s[1] \in Operations
    BY WritesAssumption
  <2> QED
    BY <1>3, <1>4, <2>1 DEF Replay, Same, journalVars
<1>5. ASSUME mode = "up", NEW t \in Threads, JoinReturns(t)
      PROVE  [Promise!Next]_(Promise!vars)
  <2>1. CASE answers' = answers
    BY <1>5, <2>1, Stutter DEF JoinReturns, journalVars
  <2>2. CASE /\ call[t].at = "joined" /\ state[call[t].op].status = "answered"
             /\ answers' = answers \cup {<<call[t].op, call[t].request, state[call[t].op].response>>}
    <3>1. state[call[t].op] # NoState /\ state[call[t].op].request = call[t].request
      BY <2>2 DEF Inv, OwnInv
    <3> QED
      BY <1>2, <1>3, <1>5, <2>2, <3>1 DEF JoinReturns, journalVars
  <2> QED
    BY <1>5, <2>1, <2>2 DEF JoinReturns
<1>6. ASSUME mode = "up", NEW t \in Threads, Begin(t)
      PROVE  [Promise!Next]_(Promise!vars)
  <2>1. ~ AnyLine(call[t].op) /\ UNCHANGED <<effects, answers>>
    BY <1>0, <1>6 DEF Begin, DiskInv
  <2>2. CASE UNCHANGED journalVars
    BY <2>1, <2>2, Stutter DEF journalVars
  <2>3. CASE AppendRecord(call[t].op, call[t].request, NoResponse, "ok")
    BY <1>2, <2>1, <2>3, AppendStep
  <2>4. ASSUME NEW fault \in Faults, AppendRecord(call[t].op, call[t].request, NoResponse, fault)
        PROVE  [Promise!Next]_(Promise!vars)
    BY <1>2, <2>1, <2>4, FailedStep, JournalAssumption DEF Outcomes
  <2> QED
    BY <1>6, <2>2, <2>3, <2>4 DEF Begin
<1>7. ASSUME mode = "up", NEW t \in Threads, NEW response \in Responses, Perform(t, response)
      PROVE  Promise!Next
  <2>1. Line(call[t].op, call[t].request, NoResponse) /\ ~ TerminalLine(call[t].op) /\ effects[call[t].op] = 0
    BY <1>0, <1>7 DEF Perform, DiskInv, Inv, MemoryInv
  <2>2. Outcome(call[t].op) = [request |-> call[t].request, response |-> NoResponse]
    BY <1>1, <1>2, <2>1 DEF OutcomeAgrees
  <2> QED
    BY <1>0, <1>2, <1>7, <2>1, <2>2, EffectStep DEF Perform, journalVars
<1>8. ASSUME mode = "up", NEW t \in Threads, Finish(t)
      PROVE  [Promise!Next]_(Promise!vars)
  <2>1. /\ Line(call[t].op, call[t].request, NoResponse) /\ ~ TerminalLine(call[t].op)
        /\ call[t].response \in Responses /\ UNCHANGED <<effects, answers>>
    BY <1>0, <1>8 DEF Finish, DiskInv, Inv, MemoryInv
  <2>2. CASE UNCHANGED journalVars
    BY <2>1, <2>2, Stutter DEF journalVars
  <2>3. CASE AppendRecord(call[t].op, call[t].request, call[t].response, "ok")
    BY <1>0, <1>2, <2>1, <2>3, AppendStep
  <2>4. ASSUME NEW fault \in Faults, AppendRecord(call[t].op, call[t].request, call[t].response, fault)
        PROVE  [Promise!Next]_(Promise!vars)
    BY <1>0, <1>2, <2>1, <2>4, FailedStep, JournalAssumption DEF Outcomes
  <2> QED
    BY <1>8, <2>2, <2>3, <2>4 DEF Finish
<1>9. ASSUME mode = "up", NEW t \in Threads, Publish(t)
      PROVE  Promise!Next
  <2>1. Line(call[t].op, call[t].request, call[t].response) /\ call[t].response \in Responses
    BY <1>0, <1>9 DEF Publish, DiskInv, Inv, MemoryInv
  <2>2. Outcome(call[t].op) = [request |-> call[t].request, response |-> call[t].response]
    BY <1>1, <1>2, <2>1 DEF OutcomeAgrees
  <2> QED
    BY <1>2, <1>9, <2>1, <2>2, AnswerStep DEF Publish, journalVars
<1>10. ASSUME mode = "up", NEW t \in Threads, NEW s \in Submissions,
              \/ Join(t, s[1], s[2]) \/ Register(t, s[1], s[2])
              \/ PrecheckFails(t) \/ PrecheckPasses(t) \/ PublishFails(t)
       PROVE  [Promise!Next]_(Promise!vars)
  BY <1>10, Stutter DEF Join, Register, PrecheckFails, PrecheckPasses, PublishFails, journalVars
<1>11. ASSUME NEW op \in Operations, mode = "recovering", state[op] # NoState, state[op].status = "running"
       PROVE  /\ state[op].request \in Requests /\ Restarted \in Responses
              /\ Line(op, state[op].request, NoResponse) /\ ~ TerminalLine(op)
  BY <1>0, <1>11, WritesAssumption DEF DiskInv, TypeOK, States
<1>12. CASE Crash
  <2>1. UNCHANGED <<effects, answers>> /\ mode # "down"
    BY <1>12 DEF Crash
  <2>2. CASE UNCHANGED journalVars
    BY <2>1, <2>2, Stutter DEF journalVars
  <2>3. ASSUME NEW t \in Threads, call[t].at = "accepting",
               KilledAppend(call[t].op, call[t].request, NoResponse)
        PROVE  [Promise!Next]_(Promise!vars)
    <3>1. ~ AnyLine(call[t].op)
      BY <1>0, <2>1, <2>3 DEF DiskInv
    <3> QED
      BY <1>2, <2>1, <2>3, <3>1, FailedStep DEF KilledAppend
  <2>4. ASSUME NEW t \in Threads, call[t].at = "finishing",
               KilledAppend(call[t].op, call[t].request, call[t].response)
        PROVE  [Promise!Next]_(Promise!vars)
    <3>1. /\ Line(call[t].op, call[t].request, NoResponse) /\ ~ TerminalLine(call[t].op)
          /\ call[t].response \in Responses
      BY <1>0, <2>1, <2>4 DEF DiskInv, Inv, MemoryInv
    <3> QED
      BY <1>0, <1>2, <2>1, <2>4, <3>1, FailedStep DEF KilledAppend
  <2>5. ASSUME NEW op \in Operations, mode = "recovering", state[op] # NoState, state[op].status = "running",
               KilledAppend(op, state[op].request, Restarted)
        PROVE  [Promise!Next]_(Promise!vars)
    BY <1>0, <1>11, <2>1, <2>5, FailedStep DEF KilledAppend
  <2> QED
    BY <1>12, <2>2, <2>3, <2>4, <2>5 DEF Crash, Appending
<1>13. CASE Restart \/ Recovered
  BY <1>13, Stutter DEF Restart, Recovered, Load, journalVars
<1>14. ASSUME NEW op \in Operations, RecoverOperation(op)
       PROVE  Promise!Next
  BY <1>0, <1>11, <1>14, AppendStep DEF RecoverOperation
<1>15. CASE UNCHANGED vars
  BY <1>15, Stutter DEF vars, journalVars
<1>16. PICK s \in Submissions : TRUE
  BY WritesAssumption
<1> QED
  BY <1>4, <1>5, <1>6, <1>7, <1>8, <1>9, <1>10, <1>12, <1>13, <1>14, <1>15, <1>16 DEF Next, Arrival, Step

\* Requests, repeats, kills and restarts together behave like a store that
\* accepts, performs, settles and answers each operation in this order, once.
THEOREM ImplementsPromise == "torn" \notin Faults => (Spec => KeepsPromise)
<1> SUFFICES ASSUME "torn" \notin Faults
             PROVE  Spec => KeepsPromise
  OBVIOUS
<1>1. Init => PromiseInv
  <2>1. Init => Clean
    BY DEF Init, JournalInit, Clean, Gone
  <2> QED
    BY <2>1, InitInv DEF PromiseInv
<1>2. PromiseInv /\ [Next]_vars => PromiseInv'
  BY NextInv, CleanKept DEF PromiseInv
<1>3. Init => Promise!Init
  <2>1. ASSUME Init
        PROVE  \A op \in Operations : Outcome(op) = NoRecord
    BY <2>1 DEF Init, JournalInit, Outcome, Lines
  <2> QED
    BY <2>1 DEF Init, Promise!Init
<1>4. PromiseInv /\ PromiseInv' /\ [Next]_vars => [Promise!Next]_(Promise!vars)
  BY PromiseStep
<1> QED
  BY <1>1, <1>2, <1>3, <1>4, PTL DEF Spec, KeepsPromise, Promise!Spec
-----------------------------------------------------------------------------
(* A file without torn lines can always be loaded.                           *)

DistinctSeqs == \A i, j \in DOMAIN disk : disk[i].seq = disk[j].seq => i = j

Accepts(i) == disk[i].response = NoResponse

\* The accepted line of an operation comes first, and there is one of each kind.
\* The numbers count the lines; next counts them but perhaps for the last one.
FileInv ==
    /\ \A i, j \in DOMAIN disk : disk[i].op = disk[j].op =>
          /\ (Accepts(i) <=> Accepts(j)) => i = j
          /\ Accepts(i) /\ ~Accepts(j) => i < j
    /\ \A i \in DOMAIN disk : ~Accepts(i) =>
          \E j \in DOMAIN disk : disk[j].op = disk[i].op /\ Accepts(j)
    /\ DistinctSeqs => /\ \A i \in DOMAIN disk : disk[i].seq = i - 1
                       /\ mode # "down" => next = Len(disk) \/ next + 1 = Len(disk)

\* The record an append may write: the first of its operation, or the second.
Appendable(op, q, r) ==
    \/ r = NoResponse /\ ~ AnyLine(op)
    \/ r \in Responses /\ Line(op, q, NoResponse) /\ ~ TerminalLine(op)

Appends(op, q, r) ==
    /\ mode # "down"
    /\ Appendable(op, q, r)
    /\ disk' = Append(disk, [seq |-> next, op |-> op, request |-> q, response |-> r])
    /\ next' \in {next, next + 1}

\* What a step does to the file and its counter.
FileStep ==
    \/ UNCHANGED <<disk, next>> /\ (mode' # "down" => mode # "down")
    \/ \E op \in Operations, q \in Requests, r \in Responses \cup {NoResponse} : Appends(op, q, r)
    \/ UNCHANGED disk /\ next' = Len(disk) /\ Loadable

LEMMA AppendIs ==
  ASSUME PromiseInv, mode # "down", NEW op \in Operations, NEW q \in Requests,
         NEW r \in Responses \cup {NoResponse}, Appendable(op, q, r),
         NEW outcome, AppendRecord(op, q, r, outcome)
  PROVE  FileStep
<1>1. tail = "none"
  BY DEF PromiseInv, Clean
<1>2. CASE outcome \in {"ok", "unsynced"}
  BY <1>1, <1>2 DEF AppendRecord, Written, FileStep, Appends
<1>3. CASE outcome \in {"lost", "torn"}
  BY <1>3 DEF AppendRecord, journalVars, FileStep
<1> QED
  BY <1>2, <1>3 DEF AppendRecord

LEMMA FileSteps ==
  ASSUME PromiseInv, [Next]_vars
  PROVE  FileStep
<1>0. ~Gone /\ DiskInv /\ TypeOK /\ MemoryInv /\ NoResponse \notin Responses
  BY JournalAssumption DEF PromiseInv, Clean, Inv
<1>1. CASE UNCHANGED journalVars /\ (mode' # "down" => mode # "down")
  BY <1>1 DEF journalVars, FileStep
<1>2. ASSUME mode = "up", NEW t \in Threads, Arrival(t) \/ Step(t), ~ Begin(t), ~ Finish(t)
      PROVE  FileStep
  BY <1>1, <1>2 DEF Arrival, Step, Replay, Join, Register, JoinReturns, PrecheckFails, PrecheckPasses, Perform,
     Publish, PublishFails
<1>3. ASSUME mode # "down", NEW t \in Threads, call[t].at = "accepting"
      PROVE  Appendable(call[t].op, call[t].request, NoResponse)
  BY <1>0, <1>3 DEF DiskInv, Appendable
<1>4. ASSUME mode # "down", NEW t \in Threads, call[t].at = "finishing"
      PROVE  Appendable(call[t].op, call[t].request, call[t].response)
  BY <1>0, <1>4 DEF DiskInv, MemoryInv, Appendable
<1>5. ASSUME mode = "up", NEW t \in Threads, Begin(t)
      PROVE  FileStep
  <2>1. UNCHANGED mode /\ (UNCHANGED journalVars \/
          \E outcome \in Outcomes : AppendRecord(call[t].op, call[t].request, NoResponse, outcome))
    BY <1>5, JournalAssumption DEF Begin, Outcomes
  <2>2. call[t].at = "accepting"
    BY <1>5 DEF Begin
  <2> QED
    BY <1>0, <1>1, <1>3, <1>5, <2>1, <2>2, CallTyped, AppendIs
<1>6. ASSUME mode = "up", NEW t \in Threads, Finish(t)
      PROVE  FileStep
  <2>1. UNCHANGED mode /\ (UNCHANGED journalVars \/
          \E outcome \in Outcomes : AppendRecord(call[t].op, call[t].request, call[t].response, outcome))
    BY <1>6, JournalAssumption DEF Finish, Outcomes
  <2>2. call[t].at = "finishing"
    BY <1>6 DEF Finish
  <2> QED
    BY <1>0, <1>1, <1>4, <1>6, <2>1, <2>2, CallTyped, AppendIs
<1>7. ASSUME NEW op \in Operations, mode = "recovering", state[op] # NoState, state[op].status = "running"
      PROVE  state[op].request \in Requests /\ Restarted \in Responses /\ Appendable(op, state[op].request, Restarted)
  BY <1>0, <1>7, WritesAssumption DEF DiskInv, TypeOK, States, Appendable
<1>8. CASE Crash
  <2>1. mode # "down"
    BY <1>8 DEF Crash
  <2>2. CASE UNCHANGED journalVars
    BY <1>1, <2>1, <2>2
  <2>3. ASSUME NEW t \in Threads, call[t].at = "accepting",
               KilledAppend(call[t].op, call[t].request, NoResponse)
        PROVE  FileStep
    BY <1>0, <1>3, <2>1, <2>3, CallTyped, AppendIs DEF KilledAppend
  <2>4. ASSUME NEW t \in Threads, call[t].at = "finishing",
               KilledAppend(call[t].op, call[t].request, call[t].response)
        PROVE  FileStep
    BY <1>0, <1>4, <2>1, <2>4, CallTyped, AppendIs DEF KilledAppend
  <2>5. ASSUME NEW op \in Operations, mode = "recovering", state[op] # NoState, state[op].status = "running",
               KilledAppend(op, state[op].request, Restarted)
        PROVE  FileStep
    BY <1>7, <2>1, <2>5, AppendIs DEF KilledAppend
  <2> QED
    BY <1>8, <2>2, <2>3, <2>4, <2>5 DEF Crash, Appending
<1>9. CASE Restart
  BY <1>9 DEF Restart, Load, FileStep
<1>10. ASSUME NEW op \in Operations, RecoverOperation(op)
       PROVE  FileStep
  <2>1. mode = "recovering" /\ state[op] # NoState /\ state[op].status = "running"
        /\ AppendRecord(op, state[op].request, Restarted, "ok")
    BY <1>10 DEF RecoverOperation
  <2> QED
    BY <1>7, <2>1, AppendIs
<1>11. CASE Recovered
  BY <1>1, <1>11 DEF Recovered
<1>12. CASE UNCHANGED vars
  BY <1>1, <1>12 DEF vars
<1> QED
  BY <1>2, <1>5, <1>6, <1>8, <1>9, <1>10, <1>11, <1>12 DEF Next

\* The lines of a file that has no garbled one.
LEMMA LinesAre ==
  ASSUME PromiseInv
  PROVE  /\ disk \in Seq(Records)
         /\ \A i \in DOMAIN disk : disk[i].op \in Operations /\ disk[i].request \in Requests
               /\ disk[i].response \in Responses \cup {NoResponse}
               /\ Line(disk[i].op, disk[i].request, disk[i].response)
<1>1. disk \in Seq(Records \cup {Garbled}) /\ \A i \in DOMAIN disk : disk[i] # Garbled
  BY DEF PromiseInv, Inv, TypeOK, JournalTypeOK, Clean, Gone
<1>2. disk \in Seq(Records)
  BY <1>1
<1> QED
  BY <1>1, <1>2 DEF Records, Line

LEMMA FileKept ==
  ASSUME PromiseInv, PromiseInv', FileInv, FileStep
  PROVE  FileInv'
<1>1. CASE UNCHANGED <<disk, next>> /\ (mode' # "down" => mode # "down")
  BY <1>1 DEF FileInv, Accepts, DistinctSeqs
<1>2. CASE UNCHANGED disk /\ next' = Len(disk) /\ Loadable
  BY <1>2 DEF FileInv, Accepts, DistinctSeqs
<1>3. ASSUME NEW op \in Operations, NEW q \in Requests, NEW r \in Responses \cup {NoResponse}, Appends(op, q, r)
      PROVE  FileInv'
  <2> DEFINE record == [seq |-> next, op |-> op, request |-> q, response |-> r]
             n == Len(disk)
  <2>0. disk \in Seq(Records) /\ n \in Nat /\ next \in Nat /\ NoResponse \notin Responses
    BY LinesAre, JournalAssumption DEF PromiseInv, Inv, TypeOK, JournalTypeOK
  <2>1. disk' = Append(disk, record)
    BY <1>3 DEF Appends
  <2>2. record.seq = next /\ record.op = op /\ record.request = q /\ record.response = r
    OBVIOUS
  <2> HIDE DEF record
  <2>3. /\ DOMAIN disk = 1..n /\ DOMAIN disk' = 1..(n + 1)
        /\ \A i \in 1..n : disk'[i] = disk[i]
        /\ disk'[n + 1] = record
        /\ Len(disk') = n + 1
    BY <2>0, <2>1
  <2> HIDE DEF n
  <2>5. DistinctSeqs' => /\ \A i \in DOMAIN disk' : disk'[i].seq = i - 1
                         /\ mode' # "down" => next' = Len(disk') \/ next' + 1 = Len(disk')
    <3>1. SUFFICES ASSUME DistinctSeqs'
                   PROVE  /\ \A i \in DOMAIN disk' : disk'[i].seq = i - 1
                          /\ mode' # "down" => next' = Len(disk') \/ next' + 1 = Len(disk')
      OBVIOUS
    <3>2. DistinctSeqs
      BY <2>0, <2>3, <3>1 DEF DistinctSeqs
    <3>3. next = n \/ next + 1 = n
      BY <1>3, <3>2 DEF FileInv, Appends, n
    <3>4. \A i \in 1..n : disk[i].seq = i - 1
      BY <2>3, <3>2 DEF FileInv
    <3>5. next # n - 1
      BY <2>0, <2>2, <2>3, <3>1, <3>4 DEF DistinctSeqs
    <3>6. next = n
      BY <2>0, <3>3, <3>5
    <3> QED
      BY <1>3, <2>0, <2>2, <2>3, <3>4, <3>6 DEF Appends
  <2>4. CASE r = NoResponse
    <3>1. \A i \in 1..n : disk[i].op # op
      BY <1>3, <2>0, <2>3, <2>4, LinesAre DEF Appends, Appendable, AnyLine
    <3>2. \A i, j \in 1..(n + 1) : disk'[i].op = disk'[j].op =>
            /\ (Accepts(i)' <=> Accepts(j)') => i = j
            /\ Accepts(i)' /\ ~Accepts(j)' => i < j
      BY <2>0, <2>2, <2>3, <2>4, <3>1 DEF FileInv, Accepts
    <3>3. \A i \in 1..(n + 1) : ~Accepts(i)' =>
            \E j \in 1..(n + 1) : disk'[j].op = disk'[i].op /\ Accepts(j)'
      BY <2>0, <2>2, <2>3, <2>4 DEF FileInv, Accepts
    <3>4. DistinctSeqs' => /\ \A i \in DOMAIN disk' : disk'[i].seq = i - 1
                           /\ mode' # "down" => next' = Len(disk') \/ next' + 1 = Len(disk')
      BY <2>5
    <3> QED
      BY <2>3, <3>2, <3>3, <3>4 DEF FileInv
  <2>6. CASE r \in Responses
    <3>1. ~ (\E i \in 1..n : disk[i].op = op /\ ~Accepts(i))
      BY <1>3, <2>0, <2>3, <2>6, LinesAre DEF Appends, Appendable, TerminalLine, Accepts
    <3>2. PICK k \in 1..n : disk[k].op = op /\ Accepts(k)
      BY <1>3, <2>0, <2>3, <2>6 DEF Appends, Appendable, Line, Accepts
    <3>3. \A i \in 1..n : Accepts(i)' <=> Accepts(i)
      BY <2>3 DEF Accepts
    <3>4. \A i \in {n + 1} : ~Accepts(i)'
      BY <2>0, <2>2, <2>3, <2>6 DEF Accepts
    <3>5. \A i, j \in 1..(n + 1) : disk'[i].op = disk'[j].op =>
            /\ (Accepts(i)' <=> Accepts(j)') => i = j
            /\ Accepts(i)' /\ ~Accepts(j)' => i < j
      BY <2>0, <2>2, <2>3, <3>1, <3>3, <3>4, SMTT(15) DEF FileInv
    <3>6. \A i \in 1..(n + 1) : ~Accepts(i)' =>
            \E j \in 1..(n + 1) : disk'[j].op = disk'[i].op /\ Accepts(j)'
      BY <2>0, <2>2, <2>3, <3>2, <3>3, <3>4 DEF FileInv
    <3> QED
      BY <2>3, <2>5, <3>5, <3>6 DEF FileInv
  <2> QED
    BY <1>3, <2>4, <2>6
<1> QED
  BY <1>1, <1>2, <1>3 DEF FileStep

LEMMA FileHolds == "torn" \notin Faults => (Spec => [](PromiseInv /\ FileInv))
<1> SUFFICES ASSUME "torn" \notin Faults
             PROVE  Spec => [](PromiseInv /\ FileInv)
  OBVIOUS
<1>1. Init => PromiseInv /\ FileInv
  <2>1. ASSUME Init
        PROVE  Clean /\ FileInv
    <3>1. disk = <<>> /\ next = 0 /\ tail = "none"
      BY <2>1 DEF Init, JournalInit
    <3> QED
      BY <3>1 DEF Clean, Gone, FileInv
  <2> QED
    BY <2>1, InitInv DEF PromiseInv
<1>2. PromiseInv /\ [Next]_vars => PromiseInv'
  BY NextInv, CleanKept DEF PromiseInv
<1>3. PromiseInv /\ FileInv /\ PromiseInv' /\ [Next]_vars => FileInv'
  BY FileSteps, FileKept
<1> QED
  BY <1>1, <1>2, <1>3, PTL DEF Spec

\* Whichever appends fail and whenever the controller is killed, it can load
\* the file it left, unless a failed append let two lines take one number.
THEOREM AlwaysLoads == "torn" \notin Faults => (Spec => []AlwaysLoadable)
<1>1. ASSUME PromiseInv, FileInv
      PROVE  AlwaysLoadable
  <2>1. \A i \in DOMAIN disk : disk[i] # Garbled
    BY <1>1 DEF PromiseInv, Clean, Gone
  <2>2. SUFFICES ASSUME DistinctSeqs
                 PROVE  Loadable
    BY <2>1 DEF AlwaysLoadable, DistinctSeqs
  <2>3. \A i \in DOMAIN disk : disk[i] # Garbled /\ disk[i].seq = i - 1
    BY <1>1, <2>1, <2>2 DEF FileInv
  <2>4. DOMAIN disk \subseteq Nat
    BY <1>1, LinesAre
  <2>5. \A i \in DOMAIN disk : \A j \in Lines(disk[i].op) : j \in DOMAIN disk /\ disk[j].op = disk[i].op
    BY DEF Lines
  <2>6. ASSUME NEW i \in DOMAIN disk, Accepts(i)
        PROVE  \A j \in Lines(disk[i].op) : j >= i
    <3> SUFFICES ASSUME NEW j \in Lines(disk[i].op)
                 PROVE  j >= i
      OBVIOUS
    <3>1. j \in DOMAIN disk /\ disk[i].op = disk[j].op
      BY <2>5
    <3>2. i = j \/ i < j
      BY <1>1, <2>6, <3>1 DEF FileInv
    <3> QED
      BY <2>4, <3>1, <3>2
  <2>7. ASSUME NEW i \in DOMAIN disk, ~Accepts(i)
        PROVE  \E j \in Lines(disk[i].op) :
                  /\ j < i
                  /\ Lines(disk[i].op) = {i, j}
                  /\ disk[j].response = NoResponse
                  /\ disk[j].request = disk[i].request
    <3>1. PICK j \in DOMAIN disk : disk[j].op = disk[i].op /\ Accepts(j)
      BY <1>1, <2>7 DEF FileInv
    <3>2. j < i /\ Lines(disk[i].op) = {i, j}
      BY <1>1, <2>1, <2>7, <3>1 DEF FileInv, Lines
    <3>3. disk[j].request = disk[i].request
      BY <1>1, <3>1, LinesAre DEF PromiseInv, Clean, Inv, DiskInv
    <3> QED
      BY <3>1, <3>2, <3>3 DEF Accepts
  <2> QED
    BY <2>3, <2>6, <2>7 DEF Loadable, Accepts
<1> QED
  BY <1>1, FileHolds, PTL

-----------------------------------------------------------------------------
(* Nobody waits for an event that is not set.                               *)

\* Between two kills an operation is "running" only as long as a thread works on it.
RunnerInv ==
    mode = "up" =>
        \A op \in Operations : state[op] # NoState /\ state[op].status = "running" =>
            \E t \in Threads : Owner(t) /\ call[t].op = op

\* The steps of one thread: what is running afterwards was running and is not the
\* operation it leaves, or is the one it works on.
LEMMA RunnerKept ==
  ASSUME Inv, RunnerInv, mode = "up", NEW t \in Threads,
         \A u \in Threads \ {t} : Owner(u) => call'[u] = call[u],
         \A op \in Operations : state'[op] # NoState /\ state'[op].status = "running" =>
            \/ Owner(t)' /\ call'[t].op = op
            \/ /\ state'[op] = state[op]
               /\ Owner(t) => call[t].op # op
  PROVE  RunnerInv'
<1> SUFFICES ASSUME NEW op \in Operations, state'[op] # NoState, state'[op].status = "running"
             PROVE  \E u \in Threads : Owner(u)' /\ call'[u].op = op
  BY DEF RunnerInv
<1>1. CASE Owner(t)' /\ call'[t].op = op
  BY <1>1
<1>2. CASE state'[op] = state[op] /\ (Owner(t) => call[t].op # op)
  <2>1. PICK u \in Threads : Owner(u) /\ call[u].op = op
    BY <1>2 DEF RunnerInv
  <2>2. call'[u] = call[u]
    BY <1>2, <2>1
  <2> QED
    BY <2>1, <2>2 DEF Owner
<1> QED
  BY <1>1, <1>2

LEMMA RunnerUnavailable ==
  ASSUME Inv, RunnerInv, mode = "up", NEW t \in Threads, Owner(t), BecomesUnavailable(t)
  PROVE  RunnerInv'
<1>1. call[t].op \in Operations /\ call[t].request \in Requests
  BY CallTyped DEF Inv
<1>2. /\ \A u \in Threads \ {t} : call'[u] = call[u]
      /\ state'[call[t].op] = Unavailable(call[t].request)
      /\ \A op \in Operations \ {call[t].op} : state'[op] = state[op]
  BY <1>1 DEF BecomesUnavailable, Inv, TypeOK
<1>3. Unavailable(call[t].request).status = "unavailable"
  BY DEF Unavailable
<1> QED
  BY <1>2, <1>3, RunnerKept

LEMMA RunnerArrival ==
  ASSUME Inv, RunnerInv, mode = "up", NEW t \in Threads, Arrival(t)
  PROVE  RunnerInv'
<1>1. PICK s \in Submissions :
         Replay(t, s[1], s[2]) \/ Join(t, s[1], s[2]) \/ Register(t, s[1], s[2])
  BY DEF Arrival
<1>2. call[t].at = "idle" /\ ~ Owner(t)
  BY <1>1 DEF Replay, Join, Register, Owner, Working
<1>3. CASE Replay(t, s[1], s[2]) \/ Join(t, s[1], s[2])
  <2>1. UNCHANGED state /\ \A u \in Threads \ {t} : call'[u] = call[u]
    BY <1>3 DEF Replay, Join, Inv, TypeOK
  <2> QED
    BY <1>2, <2>1, RunnerKept
<1>4. CASE Register(t, s[1], s[2])
  <2>1. /\ s[1] \in Operations
        /\ call'[t] = [at |-> "queued", op |-> s[1], request |-> s[2], response |-> NoResponse]
        /\ \A u \in Threads \ {t} : call'[u] = call[u]
        /\ \A op \in Operations \ {s[1]} : state'[op] = state[op]
    BY <1>4, WritesAssumption DEF Register, Inv, TypeOK
  <2>2. Owner(t)' /\ call'[t].op = s[1]
    BY <2>1 DEF Owner, Working
  <2> QED
    BY <1>2, <2>1, <2>2, RunnerKept
<1> QED
  BY <1>1, <1>3, <1>4

LEMMA RunnerThread ==
  ASSUME Inv, RunnerInv, mode = "up", NEW t \in Threads, Step(t)
  PROVE  RunnerInv'
<1> DEFINE op == call[t].op
<1>0. op \in Operations /\ call[t] \in Calls
  BY CallTyped DEF Inv, TypeOK
<1>1. CASE JoinReturns(t)
  <2>1. UNCHANGED state /\ (\A u \in Threads \ {t} : call'[u] = call[u]) /\ ~ Owner(t)
    BY <1>1 DEF JoinReturns, Inv, TypeOK, Owner, Working
  <2> QED
    BY <2>1, RunnerKept
<1>2. CASE PrecheckFails(t)
  <2>1. /\ state'[op] = NoState /\ \A o \in Operations \ {op} : state'[o] = state[o]
        /\ \A u \in Threads \ {t} : call[u].at # "joined" => call'[u] = call[u]
    BY <1>0, <1>2 DEF PrecheckFails, Inv, TypeOK
  <2>2. \A u \in Threads \ {t} : Owner(u) => call'[u] = call[u]
    BY <2>1 DEF Owner, Working
  <2> QED
    BY <2>1, <2>2, RunnerKept
<1>3. CASE PrecheckPasses(t) \/ \E r \in Responses : Perform(t, r)
  <2>1. /\ UNCHANGED state /\ \A u \in Threads \ {t} : call'[u] = call[u]
        /\ Owner(t) /\ Owner(t)' /\ call'[t].op = op
    BY <1>0, <1>3 DEF PrecheckPasses, Perform, MyTurn, Inv, TypeOK, Owner, Working, Calls
  <2> QED
    BY <2>1, RunnerKept
<1>4. CASE Begin(t) \/ Finish(t)
  <2>1. Owner(t)
    BY <1>4 DEF Begin, Finish, Owner, Working
  <2>2. CASE BecomesUnavailable(t)
    BY <2>1, <2>2, RunnerUnavailable
  <2>3. CASE /\ UNCHANGED state
             /\ \/ call' = [call EXCEPT ![t].at = "performing"]
                \/ call' = [call EXCEPT ![t].at = "publishing"]
    <3>1. /\ \A u \in Threads \ {t} : call'[u] = call[u]
          /\ Owner(t)' /\ call'[t].op = op
      BY <1>0, <2>3 DEF Inv, TypeOK, Owner, Working, Calls
    <3> QED
      BY <2>1, <2>3, <3>1, RunnerKept
  <2> QED
    BY <1>4, <2>2, <2>3 DEF Begin, Finish
<1>5. CASE Publish(t)
  <2>1. /\ \A u \in Threads \ {t} : call'[u] = call[u]
        /\ state'[op] = Answered(call[t].request, call[t].response)
        /\ \A o \in Operations \ {op} : state'[o] = state[o]
    BY <1>0, <1>5 DEF Publish, Inv, TypeOK
  <2>2. state'[op].status = "answered"
    BY <2>1 DEF Answered
  <2> QED
    BY <2>1, <2>2, RunnerKept
<1>6. CASE PublishFails(t)
  BY <1>6, RunnerUnavailable DEF PublishFails, Owner, Working
<1> QED
  BY <1>1, <1>2, <1>3, <1>4, <1>5, <1>6 DEF Step

LEMMA RunnerStep ==
  ASSUME Inv, RunnerInv, [Next]_vars
  PROVE  RunnerInv'
<1>1. CASE UNCHANGED vars
  BY <1>1 DEF vars, RunnerInv, Owner
<1>2. ASSUME mode = "up", NEW t \in Threads, Arrival(t) \/ Step(t)
      PROVE  RunnerInv'
  BY <1>2, RunnerArrival, RunnerThread
<1>3. CASE Crash \/ Restart \/ \E op \in Operations : RecoverOperation(op)
  <2>1. mode' # "up"
    BY <1>3 DEF Crash, Restart, RecoverOperation
  <2> QED
    BY <2>1 DEF RunnerInv
<1>4. CASE Recovered
  BY <1>4 DEF Recovered, RunnerInv
<1> QED
  BY <1>1, <1>2, <1>3, <1>4 DEF Next

\* A thread that does not wait for another one: it is refused, has an answer, or
\* works; or its turn in the chain of its attempt has come.
CanGoOn(t) ==
    \/ call[t].at \in Working \cup {"refused"}
    \/ MyTurn(t)
    \/ call[t].at = "joined" /\ state[call[t].op].status # "running"

\* The head of a chain goes on.
LEMMA HeadGoesOn ==
  ASSUME Inv, NEW t \in Threads, Owner(t)
  PROVE  \E u \in Threads : Owner(u) /\ CanGoOn(u) /\ AttemptAt(u) = AttemptAt(t)
<1> DEFINE a == AttemptAt(t)
           c == chain[a]
<1>1. a \in Attempts /\ c \in Seq(Threads)
  BY CallTyped DEF Inv, TypeOK
<1>2. PICK i \in DOMAIN c : c[i] = t
  BY DEF Inv, ChainInv
<1>3. 1 \in DOMAIN c /\ c[1] \in Threads /\ Head(c) = c[1]
  BY <1>1, <1>2
<1> DEFINE u == c[1]
<1>4. Owner(u) /\ AttemptAt(u) = a
  BY <1>1, <1>3 DEF Inv, ChainInv
<1> HIDE DEF u
<1>5. CanGoOn(u)
  <2>1. CASE call[u].at \in Working
    BY <2>1 DEF CanGoOn
  <2>2. CASE call[u].at = "queued"
    BY <1>3, <1>4, <2>2 DEF CanGoOn, MyTurn, u
  <2> QED
    BY <1>4, <2>1, <2>2 DEF Owner
<1> QED
  BY <1>3, <1>4, <1>5 DEF u

\* Nobody waits for somebody who waits for nobody.
NobodyBlocked ==
    mode = "up" =>
        \A t \in Threads : call[t].at # "idle" =>
            \/ CanGoOn(t)
            \/ \E u \in Threads : Owner(u) /\ CanGoOn(u) /\ AttemptAt(u) = AttemptAt(t)

\* While the controller serves requests, a request that waits - for the operations of
\* its attempt that were registered before it, or for the response of the operation
\* it repeats (replay_wait) - waits behind a thread of the same attempt that can go
\* on: an event of _execute_write that nobody would set is never waited for, for any
\* threads, attempts, journal faults and kills.
THEOREM NobodyWaitsInVain == Spec => []NobodyBlocked
<1>1. Init => RunnerInv
  BY DEF Init, RunnerInv
<1>2. Inv /\ RunnerInv /\ [Next]_vars => RunnerInv'
  BY RunnerStep
<1>3. Inv /\ RunnerInv => NobodyBlocked
  <2> SUFFICES ASSUME Inv, RunnerInv, mode = "up", NEW t \in Threads, call[t].at # "idle"
               PROVE  \/ CanGoOn(t)
                      \/ \E u \in Threads : Owner(u) /\ CanGoOn(u) /\ AttemptAt(u) = AttemptAt(t)
    BY DEF NobodyBlocked
  <2>1. CASE Owner(t)
    BY <2>1, HeadGoesOn
  <2>2. CASE call[t].at = "joined" /\ state[call[t].op].status = "running"
    <3>1. /\ call[t].op \in Operations /\ state[call[t].op] # NoState
          /\ state[call[t].op].request = call[t].request
      BY <2>2, CallTyped DEF Inv, OwnInv
    <3>2. PICK u \in Threads : Owner(u) /\ call[u].op = call[t].op
      BY <2>2, <3>1 DEF RunnerInv
    <3>3. call[u].request = call[t].request
      <4>1. state[call[u].op] = Running(call[u].request)
        BY <3>2 DEF Inv, OwnInv
      <4>2. Running(call[u].request).request = call[u].request
        BY DEF Running
      <4> QED
        BY <3>1, <3>2, <4>1, <4>2
    <3>4. AttemptAt(u) = AttemptAt(t)
      BY <3>3 DEF AttemptAt
    <3> QED
      BY <3>2, <3>4, HeadGoesOn
  <2>3. CASE \/ call[t].at = "refused"
             \/ call[t].at = "joined" /\ state[call[t].op].status # "running"
    BY <2>3 DEF CanGoOn
  <2>4. call[t].at \in Positions
    BY DEF Inv, TypeOK, Calls
  <2> QED
    BY <2>1, <2>2, <2>3, <2>4 DEF Positions, Owner, Working
<1> QED
  BY <1>1, <1>2, <1>3, InvHolds, PTL DEF Spec
=============================================================================
