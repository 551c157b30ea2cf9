---------------------------- MODULE RuntimeWrites ---------------------------
(***************************************************************************)
(* RuntimeOperationService._execute_write and _recover (runtime_service.py):  *)
(* how every write request becomes one journaled operation.  Threads are the *)
(* HTTP requests in progress; clients repeat a request under the same        *)
(* operation_id; operations of one attempt form a chain of events; the       *)
(* controller may be killed at any point and recovers from its journal.      *)
(* What prechecks and performs do to an attempt is AttemptLifecycle's part.  *)
(***************************************************************************)
EXTENDS RuntimeJournal

CONSTANTS
    Threads, Attempts,
    AttemptOf,    \* [Requests -> Attempts]
    Aborts,       \* the requests of type runtime_abort_attempt
    Submissions,  \* the pairs <<operation_id, request>> clients send
    Restarted,    \* the response controller_restarted
    NoState,
    MaxCrashes

VARIABLES
    mode,     \* "up", "down", or "recovering" (_recover in progress)
    state,    \* _operations
    chain,    \* the threads registered and not finished on each attempt, in order
    known,    \* DOMAIN _attempts
    call,     \* local variables of each thread
    effects,  \* how often the backend performed each operation, ever
    answers,  \* <<operation, request, response>> given to clients, ever
    crashes

vars == <<journalVars, mode, state, chain, known, call, effects, answers, crashes>>

Positions == {"idle", "joined", "refused", "queued", "accepting", "performing",
              "finishing", "publishing"}

States ==
    [request : Requests, status : {"running", "unavailable"}, response : {NoResponse}]
    \cup [request : Requests, status : {"answered"}, response : Responses]

Calls == [at : Positions, op : Operations, request : Requests,
          response : Responses \cup {NoResponse}]

ASSUME WritesAssumption ==
    /\ AttemptOf \in [Requests -> Attempts]
    /\ Aborts \subseteq Requests
    /\ Submissions \subseteq Operations \X Requests
    /\ Submissions # {}
    /\ Restarted \in Responses
    /\ NoState \notin States
    /\ MaxCrashes \in Nat

TypeOK ==
    /\ JournalTypeOK
    /\ mode \in {"up", "down", "recovering"}
    /\ state \in [Operations -> States \cup {NoState}]
    /\ chain \in [Attempts -> Seq(Threads)]
    /\ known \in SUBSET Attempts
    /\ call \in [Threads -> Calls]
    /\ effects \in [Operations -> Nat]
    /\ answers \in SUBSET (Operations \X Requests \X Responses)
    /\ crashes \in 0..MaxCrashes

\* The three conditions of an _OperationState.
Running(request) == [request |-> request, status |-> "running", response |-> NoResponse]

Unavailable(request) == [request |-> request, status |-> "unavailable", response |-> NoResponse]

Answered(request, response) == [request |-> request, status |-> "answered", response |-> response]

Idle == CHOOSE c \in Calls : c.at = "idle"

Init ==
    /\ JournalInit
    /\ mode = "up"
    /\ state = [op \in Operations |-> NoState]
    /\ chain = [a \in Attempts |-> <<>>]
    /\ known = {}
    /\ call = [t \in Threads |-> Idle]
    /\ effects = [op \in Operations |-> 0]
    /\ answers = {}
    /\ crashes = 0
-----------------------------------------------------------------------------
(* Arrival of a request, under _lock.  A conflicting request, and one whose  *)
(* operation is unavailable, is refused and changes nothing.                 *)

\* Faulty: the stored request is not compared.
SameOperation(op, request) == state[op] # NoState /\ request \in Requests

Same(op, request) == state[op] # NoState /\ state[op].request = request

Replay(t, op, request) ==
    /\ call[t].at = "idle"
    /\ Same(op, request)
    /\ state[op].status = "answered"
    /\ answers' = answers \cup {<<op, request, state[op].response>>}
    /\ UNCHANGED <<journalVars, mode, state, chain, known, call, effects, crashes>>

Join(t, op, request) ==
    /\ call[t].at = "idle"
    /\ Same(op, request)
    /\ state[op].status = "running"
    /\ call' = [call EXCEPT ![t] = [at |-> "joined", op |-> op, request |-> request,
                                    response |-> NoResponse]]
    /\ UNCHANGED <<journalVars, mode, state, chain, known, effects, answers, crashes>>

\* A new operation enters the chain of its attempt.
Register(t, op, request) ==
    /\ call[t].at = "idle"
    /\ state[op] = NoState
    /\ request \in Aborts => AttemptOf[request] \in known
    /\ state' = [state EXCEPT ![op] = Running(request)]
    /\ chain' = [chain EXCEPT ![AttemptOf[request]] = Append(@, t)]
    /\ known' = known \cup {AttemptOf[request]}
    /\ call' = [call EXCEPT ![t] = [at |-> "queued", op |-> op, request |-> request,
                                    response |-> NoResponse]]
    /\ UNCHANGED <<journalVars, mode, effects, answers, crashes>>

\* replay_wait is over.
JoinReturns(t) ==
    /\ \/ call[t].at = "refused" /\ UNCHANGED answers
       \/ /\ call[t].at = "joined"
          /\ state[call[t].op].status = "answered"
          /\ answers' = answers \cup {<<call[t].op, call[t].request, state[call[t].op].response>>}
       \/ /\ call[t].at = "joined"
          /\ state[call[t].op].status = "unavailable"
          /\ UNCHANGED answers
    /\ call' = [call EXCEPT ![t] = Idle]
    /\ UNCHANGED <<journalVars, mode, state, chain, known, effects, crashes>>
-----------------------------------------------------------------------------
(* The thread that registered the operation.                                *)

AttemptAt(t) == AttemptOf[call[t].request]

\* Faulty: the previous operation is not waited for.
MyTurnAnyway(t) == call[t].at = "queued" /\ \E i \in DOMAIN chain[AttemptAt(t)] : chain[AttemptAt(t)][i] = t

\* previous_operation.wait() and the execution lock.
MyTurn(t) == call[t].at = "queued" /\ Head(chain[AttemptAt(t)]) = t

\* Faulty: the event is not set.
LeaveSilently(t) == chain' = [chain EXCEPT ![AttemptAt(t)] = @]

\* state.event.set(): the operation leaves the chain.
LeaveChain(t) == chain' = [chain EXCEPT ![AttemptAt(t)] = Tail(@)]

\* precheck raised: the operation is forgotten, its joined calls find no response.
PrecheckFails(t) ==
    /\ MyTurn(t)
    /\ state' = [state EXCEPT ![call[t].op] = NoState]
    /\ call' = [u \in Threads |->
                  IF u = t THEN Idle
                  ELSE IF call[u].at = "joined" /\ call[u].op = call[t].op
                       THEN [call[u] EXCEPT !.at = "refused"]
                       ELSE call[u]]
    /\ LeaveChain(t)
    /\ UNCHANGED <<journalVars, mode, known, effects, answers, crashes>>

PrecheckPasses(t) ==
    /\ MyTurn(t)
    /\ call' = [call EXCEPT ![t].at = "accepting"]
    /\ UNCHANGED <<journalVars, mode, state, chain, known, effects, answers, crashes>>

\* An exception that is not a terminal response of the operation.
BecomesUnavailable(t) ==
    /\ state' = [state EXCEPT ![call[t].op] = Unavailable(call[t].request)]
    /\ call' = [call EXCEPT ![t] = Idle]
    /\ LeaveChain(t)

Begin(t) ==
    /\ call[t].at = "accepting"
    /\ \/ /\ MayBegin(call[t].op)
          /\ AppendRecord(call[t].op, call[t].request, NoResponse, "ok")
          /\ call' = [call EXCEPT ![t].at = "performing"]
          /\ UNCHANGED <<state, chain>>
       \/ /\ MayBegin(call[t].op)
          /\ \E fault \in Faults : AppendRecord(call[t].op, call[t].request, NoResponse, fault)
          /\ BecomesUnavailable(t)
       \/ /\ ~ MayBegin(call[t].op)
          /\ UNCHANGED journalVars
          /\ BecomesUnavailable(t)
    /\ UNCHANGED <<mode, known, effects, answers, crashes>>

\* perform(), or the response made from the error it raised.
Perform(t, response) ==
    /\ call[t].at = "performing"
    /\ effects' = [effects EXCEPT ![call[t].op] = @ + 1]
    /\ call' = [call EXCEPT ![t].at = "finishing", ![t].response = response]
    /\ UNCHANGED <<journalVars, mode, state, chain, known, answers, crashes>>

\* Faulty: the client is answered before the terminal record is synced.
FinishEarly(t) ==
    /\ call[t].at = "finishing"
    /\ UNCHANGED journalVars
    /\ call' = [call EXCEPT ![t].at = "publishing"]
    /\ UNCHANGED <<mode, state, chain, known, effects, answers, crashes>>

Finish(t) ==
    /\ call[t].at = "finishing"
    /\ \/ /\ MayFinish(call[t].op, call[t].request)
          /\ AppendRecord(call[t].op, call[t].request, call[t].response, "ok")
          /\ call' = [call EXCEPT ![t].at = "publishing"]
          /\ UNCHANGED <<state, chain>>
       \/ /\ MayFinish(call[t].op, call[t].request)
          /\ \E fault \in Faults : AppendRecord(call[t].op, call[t].request, call[t].response, fault)
          /\ BecomesUnavailable(t)
       \/ /\ ~ MayFinish(call[t].op, call[t].request)
          /\ UNCHANGED journalVars
          /\ BecomesUnavailable(t)
    /\ UNCHANGED <<mode, known, effects, answers, crashes>>

\* publish_release, state.response, the answer.
Publish(t) ==
    /\ call[t].at = "publishing"
    /\ state' = [state EXCEPT ![call[t].op] = Answered(call[t].request, call[t].response)]
    /\ answers' = answers \cup {<<call[t].op, call[t].request, call[t].response>>}
    /\ call' = [call EXCEPT ![t] = Idle]
    /\ LeaveChain(t)
    /\ UNCHANGED <<journalVars, mode, known, effects, crashes>>

PublishFails(t) ==
    /\ call[t].at = "publishing"
    /\ BecomesUnavailable(t)
    /\ UNCHANGED <<journalVars, mode, known, effects, answers, crashes>>
-----------------------------------------------------------------------------
(* Kill and restart.                                                        *)

Appending == {t \in Threads : call[t].at \in {"accepting", "finishing"}}

\* What an append in progress had left on disk when the process was killed.
\* The index dies with the process.
KilledAppend(op, request, response) ==
    \E outcome \in {"torn", "unsynced"} : AppendRecord(op, request, response, outcome)

Crash ==
    /\ mode # "down"
    /\ crashes < MaxCrashes
    /\ crashes' = crashes + 1
    /\ mode' = "down"
    /\ \/ UNCHANGED journalVars
       \/ \E t \in Appending :
             IF call[t].at = "accepting"
             THEN MayBegin(call[t].op) /\ KilledAppend(call[t].op, call[t].request, NoResponse)
             ELSE MayFinish(call[t].op, call[t].request)
                  /\ KilledAppend(call[t].op, call[t].request, call[t].response)
       \/ /\ mode = "recovering"
          /\ \E op \in Operations :
                /\ state[op] # NoState /\ state[op].status = "running"
                /\ KilledAppend(op, state[op].request, Restarted)
    /\ call' = [t \in Threads |-> Idle]
    /\ chain' = [a \in Attempts |-> <<>>]
    /\ state' = [op \in Operations |-> NoState]
    /\ known' = {}
    /\ UNCHANGED <<effects, answers>>

\* The _OperationState _recover makes of a persisted operation.
Restored(op) ==
    IF Stored(op) = NoRecord THEN NoState
    ELSE IF Stored(op).response = NoResponse THEN Running(Stored(op).request)
    ELSE Answered(Stored(op).request, Stored(op).response)

Restart ==
    /\ mode = "down"
    /\ Load
    /\ state' = [op \in Operations |-> Restored(op)]
    /\ known' = {AttemptOf[disk[i].request] : i \in DOMAIN disk}
    /\ mode' = "recovering"
    /\ UNCHANGED <<chain, call, effects, answers, crashes>>

\* A pending operation gets its terminal response controller_restarted.
RecoverOperation(op) ==
    /\ mode = "recovering"
    /\ state[op] # NoState
    /\ state[op].status = "running"
    /\ MayFinish(op, state[op].request)
    /\ AppendRecord(op, state[op].request, Restarted, "ok")
    /\ state' = [state EXCEPT ![op] = Answered(state[op].request, Restarted)]
    /\ UNCHANGED <<mode, chain, known, call, effects, answers, crashes>>

Recovered ==
    /\ mode = "recovering"
    /\ \A op \in Operations : state[op] # NoState => state[op].status # "running"
    /\ mode' = "up"
    /\ UNCHANGED <<journalVars, state, chain, known, call, effects, answers, crashes>>

Step(t) ==
    \/ JoinReturns(t)
    \/ PrecheckFails(t)
    \/ PrecheckPasses(t)
    \/ Begin(t)
    \/ \E r \in Responses \ {Restarted} : Perform(t, r)
    \/ Finish(t)
    \/ Publish(t)
    \/ PublishFails(t)

Arrival(t) ==
    \E s \in Submissions : Replay(t, s[1], s[2]) \/ Join(t, s[1], s[2]) \/ Register(t, s[1], s[2])

Next ==
    \/ mode = "up" /\ \E t \in Threads : Arrival(t) \/ Step(t)
    \/ Crash
    \/ Restart
    \/ \E op \in Operations : RecoverOperation(op)
    \/ Recovered

Spec == Init /\ [][Next]_vars

\* Calls of the backend return (every Docker call has a deadline) and threads
\* are scheduled; the container platform restarts a killed controller.
FairSpec ==
    /\ Spec
    /\ \A t \in Threads : WF_vars(mode = "up" /\ Step(t))
    /\ WF_vars(Restart)
    /\ \A op \in Operations : WF_vars(RecoverOperation(op))
    /\ WF_vars(Recovered)
-----------------------------------------------------------------------------
(* Properties.                                                              *)

\* However often a request is sent and the controller is killed, the backend
\* performs an operation at most once.
AtMostOnce == \A op \in Operations : effects[op] <= 1

\* All clients of an operation are given one response, to one request, and it
\* is a terminal record on disk: a restart repeats the answer, or refuses to
\* start because an append that failed earlier left a file it cannot load.
AnswersAreFinal ==
    \A a \in answers :
        /\ \A b \in answers : a[1] = b[1] => a = b
        /\ Loadable => \E i \in DOMAIN disk :
              disk[i].op = a[1] /\ disk[i].request = a[2] /\ disk[i].response = a[3]

Working == {"accepting", "performing", "finishing", "publishing"}

\* Prechecks, performs and journal writes of one attempt never overlap: they
\* belong to the head of its chain, which holds each registered thread once.
AttemptSerial ==
    \A a \in Attempts :
        /\ {t \in Threads : AttemptAt(t) = a /\ call[t].at \in Working}
              \subseteq {chain[a][i] : i \in DOMAIN chain[a] \cap {1}}
        /\ {chain[a][i] : i \in DOMAIN chain[a]}
              = {t \in Threads : AttemptAt(t) = a /\ call[t].at \in Working \cup {"queued"}}

\* Whatever instant the controller is killed at, the file it leaves can be
\* loaded.  Not claimed where an append that failed after its line was written
\* let the next line take the same sequence number.
AlwaysLoadable ==
    LET whole == {i \in DOMAIN disk : disk[i] # Garbled} IN
    (\A i, j \in whole : disk[i].seq = disk[j].seq => i = j) => Loadable

\* Every request is answered or refused, kills included: no event is forgotten.
EveryCallReturns == \A t \in Threads : call[t].at # "idle" ~> call[t].at = "idle"

Terminal(op) == {i \in Lines(op) : disk[i].response # NoResponse}

\* The state of an operation, read off the file.
Outcome(op) ==
    LET Of(S) == LET i == CHOOSE i \in S : TRUE
                 IN  [request |-> disk[i].request, response |-> disk[i].response]
    IN  IF Lines(op) = {} THEN NoRecord
        ELSE IF Terminal(op) = {} THEN Of(Lines(op)) ELSE Of(Terminal(op))

Promise == INSTANCE ExactlyOnce WITH outcome <- [op \in Operations |-> Outcome(op)]

\* The protocol keeps the promise: effects happen at most once, between the
\* accepted and the terminal record, and answers repeat the terminal record.
\* A line torn by an append that the process survives is excepted: the record
\* behind it is lost (and the file no longer loads).
KeepsPromise == Promise!Spec
=============================================================================
