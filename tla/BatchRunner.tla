------------------------------ MODULE BatchRunner ------------------------------
(***************************************************************************)
(* executeBatch (runner/batch-runner.ts) over the state store                *)
(* (runner/batch-state.ts), the token ledger and the two lease files: one    *)
(* process at a time works through the runs in order, at most Concurrency    *)
(* of them together, may be killed at any instant and started again.  Every  *)
(* await of the source separates two steps here.                             *)
(***************************************************************************)
EXTENDS BudgetLedger, FiniteSets

CONSTANTS
    Last,         \* the runs of the batch are 1..Last, as store.values sorts them
    Concurrency,
    Reservation,  \* per_run_reservation_tokens
    Amounts,      \* what a run may spend with the Provider
    StopOnPre,    \* stop_on_pre_provider_failure
    MaxCrashes

ASSUME BatchAssumption ==
    /\ Last \in Nat \ {0}
    /\ Concurrency \in {1, 2}
    /\ Reservation \in Nat \ {0}
    /\ Amounts \subseteq Nat \ {0}
    /\ StopOnPre \in BOOLEAN
    /\ MaxCrashes \in Nat

Runs == 1..Last

Statuses == {"none", "queued", "preparing", "running", "agent_finished", "evaluating",
             "completed", "failed"}

VARIABLES
    \* files
    log,        \* status of each run according to batch-events.jsonl
    readable,   \* whether that file can be read back
    results,    \* runs with a result file
    leases,     \* lease files that exist
    \* memory of the process
    at,         \* where executeBatch is
    cursor,     \* the run its loop is at
    awaited,    \* the runs it waits for one of
    status,     \* status of each run according to the store
    ahead,      \* whether the log ends with a line the store does not know
    task,       \* where executeRun is for each run
    error,      \* what it has caught
    holds,      \* runs whose `reservation` is not null
    stop,       \* stopDispatch
    fatal,      \* an error that executeBatch will raise
    cancelled,  \* options.signal
    \* the world
    spent,      \* tokens each run was billed by the Provider
    executions, \* how often each run was handed to the executor
    crashes

storeVars == <<log, readable, status, ahead>>
ledgerVars == <<memory, file>>
dispatchVars == <<at, cursor, awaited>>
taskVars == <<task, error, holds>>
flags == <<stop, fatal, cancelled>>
vars == <<ledgerVars, faults, storeVars, results, leases, dispatchVars, taskVars, flags, spent,
          executions, crashes>>

Places == {"down", "opening", "registering", "abandoning", "leasing", "charging", "loop", "reserving",
           "admitted", "denied", "waiting", "refunding", "cancelling", "refusing", "draining"}

Steps == {"none", "preparing", "starting", "executing", "agent finished", "evaluating",
          "returned", "written", "settled", "caught", "closing", "over"}

TypeOK ==
    /\ memory \in Balances /\ file \in Balances
    /\ faults \in 0..MaxFaults /\ crashes \in 0..MaxCrashes
    /\ log \in [Runs -> Statuses] /\ status \in [Runs -> Statuses]
    /\ readable \in BOOLEAN /\ ahead \in BOOLEAN
    /\ results \in SUBSET Runs
    /\ leases \in SUBSET {"owner", "writer"}
    /\ at \in Places
    /\ cursor \in 1..Last + 1
    /\ awaited \in SUBSET Runs
    /\ task \in [Runs -> Steps]
    /\ error \in [Runs -> {"none", "pre", "known", "unknown"}]
    /\ holds \in SUBSET Runs
    /\ stop \in BOOLEAN /\ fatal \in BOOLEAN /\ cancelled \in BOOLEAN
    /\ spent \in [Runs -> Amounts \cup {0}]
    /\ executions \in [Runs -> Nat]

Active == {r \in Runs : task[r] \notin {"none", "over"}}

\* What a process starts with.
Fresh ==
    /\ cursor' = 1 /\ awaited' = {}
    /\ task' = [r \in Runs |-> "none"] /\ error' = [r \in Runs |-> "none"] /\ holds' = {}
    /\ stop' = FALSE /\ fatal' = FALSE /\ cancelled' = FALSE

Init ==
    /\ LedgerInit /\ faults = 0 /\ crashes = 0
    /\ log = [r \in Runs |-> "none"] /\ readable = TRUE
    /\ results = {} /\ leases = {}
    /\ at = "down" /\ cursor = 1 /\ awaited = {}
    /\ status = log /\ ahead = FALSE
    /\ task = [r \in Runs |-> "none"] /\ error = [r \in Runs |-> "none"] /\ holds = {}
    /\ stop = FALSE /\ fatal = FALSE /\ cancelled = FALSE
    /\ spent = [r \in Runs |-> 0] /\ executions = [r \in Runs |-> 0]
-----------------------------------------------------------------------------
(* The state store.                                                         *)

Terminal == {"completed", "failed"}

Follows(from, to) ==
    \/ from = "none" /\ to = "queued"
    \/ from \notin Terminal \cup {"none"} /\ to = "failed"
    \/ <<from, to>> \in {<<"queued", "preparing">>, <<"preparing", "running">>,
                         <<"running", "agent_finished">>, <<"agent_finished", "evaluating">>,
                         <<"evaluating", "completed">>}

\* append: a line, fsync, the store, and the snapshot file.  It raises when
\* nothing or half a line was written, when the line was not synced, or when
\* the snapshot was not replaced.  A line that follows one the store does not
\* know repeats its sequence number.
Transition(r, to, raises) ==
    IF ~ Follows(status[r], to)
    THEN raises /\ UNCHANGED <<storeVars, faults>>
    ELSE \/ /\ IF raises THEN Fault ELSE UNCHANGED faults
            /\ status' = [status EXCEPT ![r] = to]
            /\ log' = [log EXCEPT ![r] = to]
            /\ readable' = (readable /\ ~ ahead)
            /\ UNCHANGED ahead
         \/ /\ raises /\ Fault
            /\ UNCHANGED status
            /\ \/ UNCHANGED <<log, readable, ahead>>
               \/ readable' = FALSE /\ UNCHANGED <<log, ahead>>
               \/ /\ log' = [log EXCEPT ![r] = to]
                  /\ readable' = (readable /\ ~ ahead)
                  /\ ahead' = TRUE
-----------------------------------------------------------------------------
(* executeBatch up to its loop.                                             *)

Start ==
    /\ at = "down"
    /\ "owner" \notin leases
    /\ leases' = leases \cup {"owner"}
    /\ at' = "opening"
    /\ UNCHANGED <<ledgerVars, faults, storeVars, results, cursor, awaited, taskVars, flags, spent,
                   executions, crashes>>

\* The process ends; what the next one will read is all that is left.
Ends ==
    /\ at' = "down"
    /\ Fresh
    /\ memory' = file /\ status' = log /\ ahead' = FALSE

OpenFails ==
    /\ \/ at = "opening" /\ ~ readable
       \/ /\ at = "opening"
          /\ \E r \in Runs : log[r] = "none"
          /\ \E r \in Runs : log[r] # "none"
       \/ at = "abandoning"
       \/ at = "leasing" /\ "writer" \in leases
    /\ leases' = leases \ {"owner"}
    /\ Ends
    /\ UNCHANGED <<file, faults, log, readable, results, spent, executions, crashes>>

OpenStore ==
    /\ at = "opening"
    /\ readable
    /\ status' = log /\ ahead' = FALSE
    /\ \/ (\A r \in Runs : log[r] = "none") /\ at' = "registering"
       \/ (\A r \in Runs : log[r] # "none") /\ at' = "leasing"
    /\ UNCHANGED <<ledgerVars, faults, log, readable, results, leases, cursor, awaited, taskVars,
                   flags, spent, executions, crashes>>

\* reconcileSpecs registers the runs of an empty batch one by one.
Register ==
    /\ at = "registering"
    /\ \E r \in Runs, raises \in BOOLEAN :
          /\ status[r] = "none"
          /\ \A q \in 1..r - 1 : status[q] # "none"
          /\ Transition(r, "queued", raises)
          /\ at' = IF raises THEN "abandoning" ELSE IF r = Last THEN "leasing" ELSE at
    /\ UNCHANGED <<ledgerVars, results, leases, cursor, awaited, taskVars, flags, spent, executions,
                   crashes>>

AcquireBudget ==
    /\ at = "leasing"
    /\ "writer" \notin leases
    /\ leases' = leases \cup {"writer"}
    /\ memory' = file
    /\ at' = IF file.reserved > 0 THEN "charging" ELSE "loop"
    /\ UNCHANGED <<file, faults, storeVars, results, cursor, awaited, taskVars, flags, spent,
                   executions, crashes>>

\* Faulty: what an earlier process had reserved is given back.
ChargeInterruptedRefunds ==
    /\ at = "charging"
    /\ \E raises \in BOOLEAN :
          /\ Settle(memory.reserved, 0, raises)
          /\ at' = IF raises THEN "draining" ELSE "loop"
          /\ fatal' = raises
    /\ UNCHANGED <<storeVars, results, leases, cursor, awaited, taskVars, stop, cancelled, spent,
                   executions, crashes>>

ChargeInterrupted ==
    /\ at = "charging"
    /\ \E raises \in BOOLEAN :
          /\ ChargeUnverified(memory.reserved, raises)
          /\ at' = IF raises THEN "draining" ELSE "loop"
          /\ fatal' = raises
    /\ UNCHANGED <<storeVars, results, leases, cursor, awaited, taskVars, stop, cancelled, spent,
                   executions, crashes>>
-----------------------------------------------------------------------------
(* The loop.  While it awaits, the runs it has started go on.               *)

Dispatch(place) ==
    /\ at' = place
    /\ UNCHANGED <<taskVars, stop, cancelled, results, leases, spent, executions, crashes>>

Quiet == UNCHANGED <<ledgerVars, faults, storeVars>>

Pick ==
    /\ at = "loop"
    /\ cursor <= Last => Cardinality(Active) < Concurrency
    /\ \/ /\ cursor > Last \/ stop \/ fatal
          /\ Dispatch("draining") /\ UNCHANGED <<cursor, fatal>>
       \/ /\ cursor <= Last /\ ~ stop /\ ~ fatal
          /\ \/ /\ status[cursor] = "completed" => cursor \in results
                /\ status[cursor] \in Terminal
                /\ Dispatch("loop") /\ cursor' = cursor + 1 /\ UNCHANGED fatal
             \/ /\ status[cursor] = "completed" /\ cursor \notin results
                /\ Dispatch("draining") /\ fatal' = TRUE /\ UNCHANGED cursor
             \/ /\ status[cursor] = "queued" /\ ~ cancelled
                /\ Dispatch("reserving") /\ UNCHANGED <<cursor, fatal>>
             \/ /\ status[cursor] \notin Terminal
                /\ status[cursor] = "queued" => cancelled
                /\ Dispatch("refusing") /\ UNCHANGED <<cursor, fatal>>
    /\ Quiet /\ UNCHANGED awaited

ReserveBudget ==
    /\ at = "reserving"
    /\ \E admitted, raises \in BOOLEAN :
          /\ Reserve(Reservation, admitted, raises)
          /\ Dispatch(IF raises THEN "draining" ELSE IF admitted THEN "admitted" ELSE "denied")
          /\ fatal' = (fatal \/ raises)
    /\ UNCHANGED <<storeVars, cursor, awaited>>

Denied ==
    /\ at = "denied"
    /\ LET worthWaiting == /\ Active # {} /\ memory.reserved > 0 /\ ~ memory.reconciliation
                           /\ ~ stop /\ ~ fatal /\ ~ cancelled
       IN  /\ awaited' = IF worthWaiting THEN Active ELSE {}
           /\ Dispatch(IF worthWaiting THEN "waiting"
                       ELSE IF stop \/ fatal THEN "draining" ELSE "refusing")
    /\ Quiet /\ UNCHANGED <<cursor, fatal>>

\* Promise.race(active)
OneIsOver ==
    /\ at = "waiting"
    /\ ~ (awaited \subseteq Active)
    /\ awaited' = {}
    /\ Dispatch(IF stop \/ fatal \/ cancelled THEN "denied" ELSE "reserving")
    /\ Quiet /\ UNCHANGED <<cursor, fatal>>

\* Faulty: what happened during the reservation is not looked at.
HandOverAnyway ==
    /\ at = "admitted"
    /\ task' = [task EXCEPT ![cursor] = "preparing"]
    /\ holds' = holds \cup {cursor}
    /\ cursor' = cursor + 1
    /\ at' = "loop"
    /\ Quiet
    /\ UNCHANGED <<awaited, error, flags, results, leases, spent, executions, crashes>>

HandOver ==
    /\ at = "admitted"
    /\ ~ stop /\ ~ fatal /\ ~ cancelled
    /\ task' = [task EXCEPT ![cursor] = "preparing"]
    /\ holds' = holds \cup {cursor}
    /\ cursor' = cursor + 1
    /\ at' = "loop"
    /\ Quiet
    /\ UNCHANGED <<awaited, error, flags, results, leases, spent, executions, crashes>>

TakeBack ==
    /\ at = "admitted"
    /\ stop \/ fatal \/ cancelled
    /\ Dispatch(IF stop \/ fatal THEN "refunding" ELSE "cancelling")
    /\ Quiet /\ UNCHANGED <<cursor, awaited, fatal>>

Refund ==
    /\ at \in {"refunding", "cancelling"}
    /\ \E raises \in BOOLEAN :
          /\ Settle(Reservation, 0, raises)
          /\ Dispatch(IF raises \/ at = "refunding" THEN "draining" ELSE "refusing")
          /\ fatal' = (fatal \/ raises)
    /\ UNCHANGED <<storeVars, cursor, awaited>>

\* A run that is not started: interrupted, cancelled or out of budget.
RefuseRun ==
    /\ at = "refusing"
    /\ \E raises \in BOOLEAN :
          /\ Transition(cursor, "failed", raises)
          /\ Dispatch(IF raises THEN "draining" ELSE "loop")
          /\ cursor' = IF raises THEN cursor ELSE cursor + 1
          /\ fatal' = (fatal \/ raises)
    /\ UNCHANGED <<ledgerVars, awaited>>

Cancel ==
    /\ at # "down"
    /\ ~ cancelled
    /\ cancelled' = TRUE
    /\ Quiet
    /\ UNCHANGED <<dispatchVars, taskVars, stop, fatal, results, leases, spent, executions, crashes>>

\* Everything that was started is drained before the leases are released.
Release ==
    /\ at = "draining"
    /\ Active = {}
    /\ leases' = {}
    /\ Ends
    /\ UNCHANGED <<file, faults, log, readable, results, spent, executions, crashes>>
-----------------------------------------------------------------------------
(* executeRun, and the executor it calls (m7/formal-runner.ts).             *)

Step(r, from, to) ==
    /\ task[r] = from
    /\ task' = [task EXCEPT ![r] = to]
    /\ UNCHANGED <<dispatchVars, leases, cancelled, crashes>>

Catches(r, from, kind) ==
    /\ Step(r, from, "caught")
    /\ error' = [error EXCEPT ![r] = kind]
    /\ UNCHANGED <<holds, stop, fatal>>

\* One transition of the store on the way: the next step, or an error.
Marks(r, from, to, next, kind) ==
    /\ \E raises \in BOOLEAN :
          /\ Transition(r, to, raises)
          /\ IF raises THEN Catches(r, from, kind)
             ELSE Step(r, from, next) /\ UNCHANGED <<error, holds, stop, fatal>>
    /\ UNCHANGED <<ledgerVars, results, spent>>

\* Faulty: the executor is called before the store says so.
PrepareEager(r) ==
    /\ Step(r, "preparing", "executing")
    /\ executions' = [executions EXCEPT ![r] = @ + 1]
    /\ Quiet /\ UNCHANGED <<error, holds, stop, fatal, results, spent>>

Prepare(r) == Marks(r, "preparing", "preparing", "starting", "unknown") /\ UNCHANGED executions

Execute(r) ==
    /\ Marks(r, "starting", "running", "executing", "unknown")
    /\ executions' = [executions EXCEPT ![r] = IF task'[r] = "executing" THEN @ + 1 ELSE @]

Spend(r) ==
    /\ task[r] = "executing"
    /\ spent[r] = 0
    /\ \E tokens \in Amounts : spent' = [spent EXCEPT ![r] = tokens]
    /\ Quiet
    /\ UNCHANGED <<dispatchVars, taskVars, flags, results, leases, executions, crashes>>

\* The Agent ends before its first request, with usage that nobody can prove, or with a
\* complete ledger and no snapshot to evaluate.
AgentFails(r) ==
    /\ \E kind \in {"pre", "known", "unknown"} :
          /\ kind = "pre" => spent[r] = 0
          /\ kind = "known" => spent[r] # 0
          /\ Catches(r, "executing", kind)
    /\ Quiet /\ UNCHANGED <<results, spent, executions>>

AgentFinished(r) ==
    /\ spent[r] # 0
    /\ Marks(r, "executing", "agent_finished", "agent finished", "known")
    /\ UNCHANGED executions

Evaluating(r) ==
    /\ Marks(r, "agent finished", "evaluating", "evaluating", "known")
    /\ UNCHANGED executions

EvaluationFails(r) ==
    /\ \E step \in {"agent finished", "evaluating"} : Catches(r, step, "known")
    /\ Quiet /\ UNCHANGED <<results, spent, executions>>

\* Faulty: the result is left to be written with the report.
ReturnsUnsaved(r) ==
    /\ Step(r, "evaluating", "written")
    /\ Quiet /\ UNCHANGED <<error, holds, stop, fatal, results, spent, executions>>

Returns(r) ==
    /\ Step(r, "evaluating", "returned")
    /\ Quiet /\ UNCHANGED <<error, holds, stop, fatal, results, spent, executions>>

WriteResult(r) ==
    /\ \/ /\ Step(r, "returned", "written")
          /\ results' = results \cup {r}
          /\ UNCHANGED <<faults, error, holds, stop, fatal>>
       \/ Catches(r, "returned", "unknown") /\ Fault /\ UNCHANGED results
    /\ UNCHANGED <<ledgerVars, storeVars, spent, executions>>

SettleRun(r) ==
    /\ \E raises \in BOOLEAN :
          /\ Settle(Reservation, spent[r], raises)
          /\ IF raises THEN Catches(r, "written", "unknown")
             ELSE /\ Step(r, "written", "settled")
                  /\ holds' = holds \ {r}
                  /\ UNCHANGED <<error, stop, fatal>>
    /\ UNCHANGED <<storeVars, results, spent, executions>>

Complete(r) ==
    /\ \E raises \in BOOLEAN :
          /\ Transition(r, "completed", raises)
          /\ Step(r, "settled", IF raises THEN "closing" ELSE "over")
          /\ error' = [error EXCEPT ![r] = IF raises THEN "unknown" ELSE @]
    /\ UNCHANGED <<ledgerVars, holds, stop, fatal, results, spent, executions>>

\* Faulty: a run whose accounting raises stays in `active`.
CloseReservationStuck(r) ==
    /\ r \in holds
    /\ \E raises \in BOOLEAN :
          /\ \/ error[r] = "pre" /\ Settle(Reservation, 0, raises)
             \/ error[r] = "known" /\ Settle(Reservation, spent[r], raises)
             \/ error[r] = "unknown" /\ ChargeUnverified(Reservation, raises)
          /\ Step(r, "caught", IF raises THEN "caught" ELSE "closing")
          /\ holds' = holds \ {r}
          /\ fatal' = (fatal \/ raises)
    /\ UNCHANGED <<storeVars, error, stop, results, spent, executions>>

\* What is reserved for a failed run is settled as far as its usage is known.
CloseReservation(r) ==
    /\ r \in holds
    /\ \E raises \in BOOLEAN :
          /\ \/ error[r] = "pre" /\ Settle(Reservation, 0, raises)
             \/ error[r] = "known" /\ Settle(Reservation, spent[r], raises)
             \/ error[r] = "unknown" /\ ChargeUnverified(Reservation, raises)
          /\ Step(r, "caught", IF raises THEN "over" ELSE "closing")
          /\ holds' = holds \ {r}
          /\ fatal' = (fatal \/ raises)
    /\ UNCHANGED <<storeVars, error, stop, results, spent, executions>>

Close(r) ==
    /\ \E raises \in BOOLEAN :
          /\ IF status[r] \in Terminal THEN ~ raises /\ UNCHANGED <<storeVars, faults>>
             ELSE Transition(r, "failed", raises)
          /\ fatal' = (fatal \/ raises)
          /\ stop' = (stop \/ (~ raises /\ StopOnPre /\ error[r] = "pre"))
    /\ Step(r, "closing", "over")
    /\ UNCHANGED <<ledgerVars, error, holds, results, spent, executions>>
-----------------------------------------------------------------------------
\* The process is killed: the lease files stay.
Crash ==
    /\ at # "down"
    /\ crashes < MaxCrashes
    /\ crashes' = crashes + 1
    /\ Ends
    /\ UNCHANGED <<file, faults, log, readable, results, leases, spent, executions>>

\* Nothing in the code removes the leases of a killed process: its operator does.
RemoveStaleLeases ==
    /\ at = "down"
    /\ leases # {}
    /\ leases' = {}
    /\ Quiet
    /\ UNCHANGED <<dispatchVars, taskVars, flags, results, spent, executions, crashes>>

Task(r) ==
    \/ Prepare(r) \/ Execute(r) \/ AgentFails(r) \/ AgentFinished(r) \/ Evaluating(r)
    \/ EvaluationFails(r) \/ Returns(r) \/ WriteResult(r) \/ SettleRun(r) \/ Complete(r)
    \/ CloseReservation(r) \/ Close(r)

Batch ==
    \/ OpenFails \/ OpenStore \/ Register \/ AcquireBudget \/ ChargeInterrupted
    \/ Pick \/ ReserveBudget \/ Denied \/ OneIsOver \/ HandOver \/ TakeBack \/ Refund
    \/ RefuseRun \/ Release

Next ==
    \/ Start \/ Batch \/ Cancel \/ Crash \/ RemoveStaleLeases
    \/ \E r \in Runs : Task(r) \/ Spend(r)

Spec == Init /\ [][Next]_vars

\* Awaited promises settle.  An executor ends because its requests and calls have a
\* timeout each and its turns are counted: its wall time is recorded, not enforced.
FairSpec == Spec /\ WF_vars(Batch) /\ \A r \in Runs : WF_vars(Task(r))
-----------------------------------------------------------------------------
(* Properties.                                                              *)

\* The tokens each run was billed for, one by one, up to what was reserved for it.
Billed == {token \in Runs \X (1..Reservation) : token[2] <= spent[token[1]]}

\* Every one of them is in the file at every instant, accounted or still
\* reserved, whatever failed or was killed on the way: nothing that was spent
\* can be spent again.
LedgerCoversSpending == Cardinality(Billed) <= file.accounted + file.reserved

\* The file never promises more than there is.
BudgetKept == file.accounted + file.reserved <= Cap

\* No run is executed twice, by one process or by two.
ExecutedOnce == \A r \in Runs : executions[r] <= 1

\* A run that is completed on disk has its result there: the next process that
\* finds it so reads the result and does not execute the run.
CompletedIsKept ==
    readable => \A r \in Runs : log[r] = "completed" => r \in results

\* Once a run has failed before its first request, the batch is cancelled, or
\* executeBatch is bound to raise, no other run is started, although all of these
\* can happen while the budget of the next one is being reserved.
NoStartAfterStop == [][stop \/ fatal \/ cancelled => Active' \subseteq Active]_vars

\* executeBatch returns or raises, whatever its runs do.
BatchEnds == at # "down" ~> at = "down"
=============================================================================
