--------------------------- MODULE BatchRunnerProofs ---------------------------
(***************************************************************************)
(* Proofs about BatchRunner.  LedgerInv speaks of the balances, in memory and *)
(* on disk; RunInv relates what was executed to what the store and its log    *)
(* say, and to where the loop and each executeRun are; CoverInv what each run *)
(* may still spend to what the balances hold for it; RoomInv counts the runs   *)
(* that are on the way, WaitInv says which of them hold a reservation and     *)
(* whom the loop waits for, LeakInv to whom the reserved tokens belong.       *)
(***************************************************************************)
EXTENDS BatchRunner, FiniteSetTheorems, TLAPS

Sound(b) ==
    /\ b.accounted \in Nat /\ b.reserved \in Nat
    /\ b.accounted + b.reserved <= Cap

LedgerInv == Sound(memory) /\ Sound(file)

\* Places at which the loop has found the run at the cursor queued.
Holding == {"reserving", "admitted", "denied", "waiting", "refunding", "cancelling"}

\* Steps of executeRun at which nothing has been settled for its run.
Unsettled == {"preparing", "starting", "executing", "agent finished", "evaluating", "returned",
              "written"}

Shapes ==
    /\ cursor \in 1..Last + 1
    /\ status \in [Runs -> Statuses] /\ log \in [Runs -> Statuses]
    /\ task \in [Runs -> Steps]
    /\ spent \in [Runs -> Nat]
    /\ executions \in [Runs -> 0..1]

\* An execution leaves a trace in the log before it begins.
Traced == \A r \in Runs : executions[r] # 0 =>
              status[r] \notin {"none", "queued"} /\ log[r] \notin {"none", "queued"}

Unexecuted == \A r \in Runs : task[r] \in {"preparing", "starting"} => executions[r] = 0

AtCursor ==
    /\ at \in Holding \cup {"refusing"} => cursor \in Runs
    /\ at \in Holding => status[cursor] = "queued"

Ahead == \A r \in Runs : r >= cursor => task[r] = "none"

\* A result is written before its run is settled and completed.
Saved == \A r \in Runs :
             /\ task[r] \in {"written", "settled"} => r \in results
             /\ log[r] = "completed" => r \in results

RunInv == Shapes /\ Traced /\ Unexecuted /\ AtCursor /\ Ahead /\ Saved
-----------------------------------------------------------------------------
(* The ledger.                                                              *)

LEMMA ReserveSound ==
    ASSUME LedgerInv, NEW tokens \in Nat, NEW admitted, NEW raises,
           Reserve(tokens, admitted, raises)
    PROVE  LedgerInv'
  BY BudgetAssumption
  DEF LedgerInv, Sound, Reserve, Affordable, Persist, Balance

LEMMA SettleSound ==
    ASSUME LedgerInv, NEW tokens \in Nat, NEW actual \in Nat, NEW raises,
           Settle(tokens, actual, raises)
    PROVE  LedgerInv'
  BY BudgetAssumption
  DEF LedgerInv, Sound, Settle, Persist, Balance

LEMMA ChargeSound ==
    ASSUME LedgerInv, NEW tokens \in Nat, NEW raises, ChargeUnverified(tokens, raises)
    PROVE  LedgerInv'
  BY BudgetAssumption
  DEF LedgerInv, Sound, ChargeUnverified, Persist, Balance

LEMMA LedgerSame == ASSUME LedgerInv, UNCHANGED <<memory, file>> PROVE LedgerInv'
  BY DEF LedgerInv, Sound

\* A process that ends, or starts, reads the file again.
LEMMA LedgerReread == ASSUME LedgerInv, memory' = file, UNCHANGED file PROVE LedgerInv'
  BY DEF LedgerInv, Sound
-----------------------------------------------------------------------------
(* The store.                                                               *)

LEMMA TransitionMoves ==
    ASSUME status \in [Runs -> Statuses], log \in [Runs -> Statuses],
           NEW r \in Runs, NEW to \in Statuses, NEW raises, Transition(r, to, raises)
    PROVE  /\ status' \in [Runs -> Statuses] /\ log' \in [Runs -> Statuses]
           /\ \A q \in Runs \ {r} : status'[q] = status[q] /\ log'[q] = log[q]
           /\ status'[r] \in {status[r], to} /\ log'[r] \in {log[r], to}
           /\ ~ raises => Follows(status[r], to) /\ status'[r] = to /\ log'[r] = to
           /\ status'[r] # status[r] \/ log'[r] # log[r] => Follows(status[r], to)
  BY DEF Transition, storeVars

-----------------------------------------------------------------------------
(* The budget is kept.                                                      *)

LEMMA LedgerKept ==
    ASSUME LedgerInv, spent \in [Runs -> Nat], [Next]_vars PROVE LedgerInv'
<1>1. CASE Start \/ OpenStore \/ Register \/ Pick \/ Denied \/ OneIsOver \/ HandOver \/ TakeBack
           \/ RefuseRun \/ Cancel \/ RemoveStaleLeases \/ UNCHANGED vars
  <2>1. UNCHANGED <<memory, file>>
    BY <1>1 DEF Start, OpenStore, Register, Pick, Denied, OneIsOver, HandOver, TakeBack, RefuseRun,
                Cancel, RemoveStaleLeases, vars, ledgerVars, Quiet
  <2> QED BY <2>1, LedgerSame
<1>2. CASE OpenFails \/ AcquireBudget \/ Release \/ Crash
  <2>1. memory' = file /\ UNCHANGED file
    BY <1>2 DEF OpenFails, AcquireBudget, Release, Crash, Ends
  <2> QED BY <2>1, LedgerReread
<1>3. CASE ChargeInterrupted
  <2>1. PICK raises \in BOOLEAN : ChargeUnverified(memory.reserved, raises)
    BY <1>3 DEF ChargeInterrupted
  <2>2. memory.reserved \in Nat
    BY DEF LedgerInv, Sound
  <2> QED BY <2>1, <2>2, ChargeSound
<1>4. CASE ReserveBudget
  <2>1. PICK admitted, raises \in BOOLEAN : Reserve(Reservation, admitted, raises)
    BY <1>4 DEF ReserveBudget
  <2> QED BY <2>1, ReserveSound, BatchAssumption
<1>5. CASE Refund
  <2>1. PICK raises \in BOOLEAN : Settle(Reservation, 0, raises)
    BY <1>5 DEF Refund
  <2> QED BY <2>1, SettleSound, BatchAssumption
<1>6. ASSUME NEW r \in Runs, Task(r) \/ Spend(r) PROVE LedgerInv'
  <2> spent[r] \in Nat
    OBVIOUS
  <2>1. CASE SettleRun(r)
    <3>1. PICK raises \in BOOLEAN : Settle(Reservation, spent[r], raises)
      BY <2>1 DEF SettleRun
    <3> QED BY <3>1, SettleSound, BatchAssumption
  <2>2. CASE CloseReservation(r)
    <3>1. PICK raises \in BOOLEAN :
             \/ Settle(Reservation, 0, raises) \/ Settle(Reservation, spent[r], raises)
             \/ ChargeUnverified(Reservation, raises)
      BY <2>2 DEF CloseReservation
    <3> QED BY <3>1, SettleSound, ChargeSound, BatchAssumption
  <2>3. CASE Prepare(r) \/ Execute(r) \/ AgentFails(r) \/ AgentFinished(r) \/ Evaluating(r)
             \/ EvaluationFails(r) \/ Returns(r) \/ WriteResult(r) \/ Complete(r) \/ Close(r)
             \/ Spend(r)
    <3>1. UNCHANGED <<memory, file>>
      BY <2>3 DEF Prepare, Execute, AgentFails, AgentFinished, Evaluating, EvaluationFails, Returns,
                  WriteResult, Complete, Close, Spend, Marks, ledgerVars, Quiet
    <3> QED BY <3>1, LedgerSame
  <2> QED BY <1>6, <2>1, <2>2, <2>3 DEF Task
<1> QED BY <1>1, <1>2, <1>3, <1>4, <1>5, <1>6 DEF Next, Batch

\* What is spent is a number: the run's first bill, or none.
LEMMA SpentIsNat ==
    ASSUME spent \in [Runs -> Nat], [Next]_vars PROVE spent' \in [Runs -> Nat]
<1>1. CASE \E r \in Runs : Spend(r)
  BY <1>1, BatchAssumption DEF Spend
<1>2. ASSUME NEW r \in Runs, Task(r) PROVE UNCHANGED spent
  <2>1. CASE Prepare(r) \/ Execute(r) \/ AgentFinished(r) \/ Evaluating(r)
    BY <2>1 DEF Prepare, Execute, AgentFinished, Evaluating, Marks
  <2>2. CASE AgentFails(r) \/ EvaluationFails(r) \/ Returns(r) \/ WriteResult(r) \/ SettleRun(r)
             \/ Complete(r) \/ CloseReservation(r) \/ Close(r)
    BY <2>2 DEF AgentFails, EvaluationFails, Returns, WriteResult, SettleRun, Complete,
                CloseReservation, Close
  <2> QED BY <1>2, <2>1, <2>2 DEF Task
<1>3. CASE Start \/ Batch \/ Cancel \/ Crash \/ RemoveStaleLeases \/ UNCHANGED vars
  BY <1>3 DEF Start, Batch, OpenFails, OpenStore, Register, AcquireBudget, ChargeInterrupted, Pick,
      ReserveBudget, Denied, OneIsOver, HandOver, TakeBack, Refund, RefuseRun, Release, Cancel,
      Crash, RemoveStaleLeases, Dispatch, vars
<1> QED BY <1>1, <1>2, <1>3 DEF Next

\* BudgetKept in every reachable state: whatever raises, is killed or runs at
\* the same time, global-budget-ledger.ts never writes a file that promises more
\* than cap_tokens.
THEOREM BudgetNeverExceeded == Spec => []BudgetKept
<1>1. Init => LedgerInv /\ spent \in [Runs -> Nat]
  BY BudgetAssumption DEF Init, LedgerInit, Empty, LedgerInv, Sound
<1>2. LedgerInv /\ spent \in [Runs -> Nat] /\ [Next]_vars => (LedgerInv /\ spent \in [Runs -> Nat])'
  BY LedgerKept, SpentIsNat
<1>3. LedgerInv => BudgetKept
  BY DEF LedgerInv, Sound, BudgetKept
<1> QED BY <1>1, <1>2, <1>3, PTL DEF Spec

-----------------------------------------------------------------------------
(* A run is executed once.                                                  *)

Marked(s) == s \notin {"none", "queued"}

\* What the invariant asks of a step of executeRun.
Harmless(r, next) ==
    /\ task[r] # "none" /\ task' = [task EXCEPT ![r] = next] /\ next # "none"
    /\ at' = at /\ cursor' = cursor
    /\ status' \in [Runs -> Statuses] /\ log' \in [Runs -> Statuses]
    /\ \A q \in Runs \ {r} : status'[q] = status[q] /\ log'[q] = log[q]
    /\ Marked(status[r]) => Marked(status'[r])
    /\ Marked(log[r]) => Marked(log'[r])
    /\ results \subseteq results'
    /\ next \in {"written", "settled"} => r \in results'
    /\ log'[r] = "completed" => log[r] = "completed" \/ r \in results'
    /\ spent' \in [Runs -> Nat]

\* ... and of what was executed.
Executes(r, next) ==
    /\ executions' \in [Runs -> 0..1]
    /\ \A q \in Runs \ {r} : executions'[q] = executions[q]
    /\ executions'[r] = executions[r] \/ (Marked(status'[r]) /\ Marked(log'[r]))
    /\ next \in {"preparing", "starting"} => executions'[r] = 0

LEMMA TaskKeeps ==
    ASSUME RunInv, NEW r \in Runs, NEW next \in Steps, Harmless(r, next), Executes(r, next)
    PROVE  RunInv'
<1> USE DEF Harmless, Executes
<1>1. \A q \in Runs : q # r => task'[q] = task[q]
  BY DEF RunInv, Shapes
<1>2. task'[r] = next
  BY DEF RunInv, Shapes
<1>3. r < cursor
  BY DEF RunInv, Shapes, Ahead, Runs
<1>4. Shapes'
  BY DEF RunInv, Shapes
<1>5. Traced'
  <2>1. ASSUME NEW q \in Runs, q # r, executions'[q] # 0
        PROVE  Marked(status'[q]) /\ Marked(log'[q])
    BY <2>1 DEF RunInv, Traced, Marked
  <2>2. executions'[r] # 0 => Marked(status'[r]) /\ Marked(log'[r])
    BY DEF RunInv, Traced, Marked
  <2> QED BY <2>1, <2>2 DEF Traced, Marked
<1>6. Unexecuted'
  BY <1>1, <1>2 DEF RunInv, Unexecuted
<1>7. AtCursor'
  BY <1>3 DEF RunInv, Shapes, AtCursor, Runs
<1>8. Ahead'
  BY <1>1, <1>3 DEF RunInv, Shapes, Ahead, Runs
<1>9. Saved'
  BY <1>1, <1>2 DEF RunInv, Saved
<1> QED BY <1>4, <1>5, <1>6, <1>7, <1>8, <1>9 DEF RunInv

LEMMA ExecutesNothing ==
    ASSUME RunInv, NEW r \in Runs, NEW next \in Steps, UNCHANGED executions,
           next = "starting" => task[r] = "preparing", next # "preparing"
    PROVE  Executes(r, next)
  BY DEF Executes, RunInv, Shapes, Unexecuted

\* A step that does not touch the store.
LEMMA PlainKeeps ==
    ASSUME RunInv, NEW r \in Runs, NEW next \in Steps,
           task[r] # "none", task' = [task EXCEPT ![r] = next],
           next \notin {"none", "preparing", "starting"},
           UNCHANGED <<at, cursor, status, log, spent, executions>>,
           results \subseteq results',
           next \in {"written", "settled"} => r \in results'
    PROVE  RunInv'
<1>1. Harmless(r, next)
  BY DEF Harmless, RunInv, Shapes
<1>2. Executes(r, next)
  BY ExecutesNothing
<1> QED BY <1>1, <1>2, TaskKeeps

\* A step that tries a transition of the store.
LEMMA StoreKeeps ==
    ASSUME RunInv, NEW r \in Runs, NEW to \in Statuses, NEW next \in Steps, NEW raises,
           Transition(r, to, raises), to \notin {"none", "queued"},
           to = "completed" => r \in results,
           task[r] # "none", task' = [task EXCEPT ![r] = next],
           next \notin {"none", "written", "settled"},
           UNCHANGED <<at, cursor, results, spent>>,
           Executes(r, next)
    PROVE  RunInv'
<1>1. /\ status' \in [Runs -> Statuses] /\ log' \in [Runs -> Statuses]
      /\ \A q \in Runs \ {r} : status'[q] = status[q] /\ log'[q] = log[q]
      /\ status'[r] \in {status[r], to} /\ log'[r] \in {log[r], to}
  BY TransitionMoves DEF RunInv, Shapes
<1>2. Harmless(r, next)
  BY <1>1 DEF Harmless, RunInv, Shapes, Marked
<1> QED BY <1>2, TaskKeeps

LEMMA MarkKeeps ==
    ASSUME RunInv, NEW r \in Runs, NEW from \in Steps \ {"none"}, NEW to \in Statuses,
           NEW next \in Steps, NEW kind, Marks(r, from, to, next, kind),
           to \notin {"none", "queued", "completed"},
           next \notin {"none", "written", "settled", "preparing"},
           next = "starting" => from = "preparing", UNCHANGED executions
    PROVE  RunInv'
<1>1. PICK raises \in BOOLEAN :
         /\ Transition(r, to, raises)
         /\ IF raises THEN Catches(r, from, kind)
            ELSE Step(r, from, next) /\ UNCHANGED <<error, holds, stop, fatal>>
  BY DEF Marks
<1>2. PICK goal \in {next, "caught"} : task' = [task EXCEPT ![r] = goal]
  BY <1>1 DEF Step, Catches
<1>3. task[r] = from /\ UNCHANGED <<at, cursor, results, spent>>
  BY <1>1 DEF Step, Catches, dispatchVars, Marks
<1>4. goal \in Steps /\ goal \notin {"none", "written", "settled", "preparing"}
  BY DEF Steps
<1>5. Executes(r, goal)
  BY <1>3, <1>4, ExecutesNothing
<1> QED BY <1>1, <1>2, <1>3, <1>4, <1>5, StoreKeeps

LEMMA ExecuteKeeps == ASSUME RunInv, NEW r \in Runs, Execute(r) PROVE RunInv'
<1>1. CASE Transition(r, "running", TRUE) /\ Catches(r, "starting", "unknown")
  <2>1. task[r] = "starting" /\ task' = [task EXCEPT ![r] = "caught"] /\ task'[r] = "caught"
    BY <1>1 DEF Catches, Step, RunInv, Shapes
  <2>2. executions' = [executions EXCEPT ![r] = executions[r]]
    BY <2>1 DEF Execute
  <2>3. UNCHANGED executions
    BY <2>2 DEF RunInv, Shapes
  <2>4. UNCHANGED <<at, cursor, results, spent>>
    BY <1>1 DEF Execute, Marks, Catches, Step, dispatchVars
  <2>5. "caught" \in Steps /\ "running" \in Statuses
    BY DEF Steps, Statuses
  <2> QED BY <1>1, <2>1, <2>3, <2>4, <2>5, ExecutesNothing, StoreKeeps
<1>2. CASE Transition(r, "running", FALSE) /\ Step(r, "starting", "executing")
  <2>1. /\ task[r] = "starting" /\ task' = [task EXCEPT ![r] = "executing"]
        /\ task'[r] = "executing"
    BY <1>2 DEF Step, RunInv, Shapes
  <2>2. executions' = [executions EXCEPT ![r] = executions[r] + 1] /\ executions[r] = 0
    BY <2>1 DEF Execute, RunInv, Unexecuted
  <2>3. UNCHANGED <<at, cursor, results, spent>>
    BY <1>2 DEF Execute, Marks, Step, dispatchVars
  <2>4. "executing" \in Steps /\ "running" \in Statuses
    BY DEF Steps, Statuses
  <2>5. status'[r] = "running" /\ log'[r] = "running"
    BY <1>2, <2>4, TransitionMoves DEF RunInv, Shapes
  <2>6. Executes(r, "executing")
    BY <2>2, <2>5 DEF Executes, RunInv, Shapes, Marked
  <2> QED BY <1>2, <2>1, <2>3, <2>4, <2>6, StoreKeeps
<1>3. \/ Transition(r, "running", TRUE) /\ Catches(r, "starting", "unknown")
      \/ Transition(r, "running", FALSE) /\ Step(r, "starting", "executing")
  BY DEF Execute, Marks
<1> QED BY <1>1, <1>2, <1>3

LEMMA RunKeeps == ASSUME RunInv, NEW r \in Runs, Task(r) PROVE RunInv'
<1> USE DEF Steps, Statuses
<1>1. CASE Prepare(r)
  BY <1>1, MarkKeeps DEF Prepare
<1>2. CASE Execute(r)
  BY <1>2, ExecuteKeeps
<1>3. CASE AgentFinished(r)
  BY <1>3, MarkKeeps DEF AgentFinished
<1>4. CASE Evaluating(r)
  BY <1>4, MarkKeeps DEF Evaluating
<1>5. CASE AgentFails(r) \/ EvaluationFails(r)
  BY <1>5, PlainKeeps
  DEF AgentFails, EvaluationFails, Catches, Step, Quiet, storeVars, dispatchVars
<1>6. CASE Returns(r)
  BY <1>6, PlainKeeps DEF Returns, Step, Quiet, storeVars, dispatchVars
<1>7. CASE WriteResult(r)
  BY <1>7, PlainKeeps DEF WriteResult, Catches, Step, storeVars, dispatchVars
<1>8. CASE SettleRun(r)
  <2>1. task[r] = "written" => r \in results
    BY DEF RunInv, Saved
  <2> QED BY <1>8, <2>1, PlainKeeps DEF SettleRun, Catches, Step, storeVars, dispatchVars
<1>9. CASE Complete(r)
  <2>1. PICK raises \in BOOLEAN : /\ Transition(r, "completed", raises)
                                  /\ Step(r, "settled", IF raises THEN "closing" ELSE "over")
    BY <1>9 DEF Complete
  <2>2. task[r] = "settled" /\ r \in results
    BY <2>1 DEF Step, RunInv, Saved
  <2>3. PICK next \in {"closing", "over"} : task' = [task EXCEPT ![r] = next]
    BY <2>1 DEF Step
  <2>4. UNCHANGED <<at, cursor, results, spent, executions>>
    BY <1>9, <2>1 DEF Complete, Step, dispatchVars
  <2>5. Executes(r, next)
    BY <2>4, ExecutesNothing
  <2> QED BY <2>1, <2>2, <2>3, <2>4, <2>5, StoreKeeps
<1>10. CASE CloseReservation(r)
  BY <1>10, PlainKeeps DEF CloseReservation, Step, storeVars, dispatchVars
<1>11. CASE Close(r)
  <2>1. /\ task[r] = "closing" /\ task' = [task EXCEPT ![r] = "over"]
        /\ UNCHANGED <<at, cursor, results, spent, executions>>
    BY <1>11 DEF Close, Step, dispatchVars
  <2>2. CASE UNCHANGED storeVars
    BY <2>1, <2>2, PlainKeeps DEF storeVars
  <2>3. ASSUME NEW raises \in BOOLEAN, Transition(r, "failed", raises) PROVE RunInv'
    <3>1. Executes(r, "over")
      BY <2>1, ExecutesNothing
    <3> QED BY <2>1, <2>3, <3>1, StoreKeeps
  <2> QED BY <1>11, <2>2, <2>3 DEF Close
<1> QED BY <1>1, <1>2, <1>3, <1>4, <1>5, <1>6, <1>7, <1>8, <1>9, <1>10, <1>11 DEF Task


\* A step of the loop that leaves the store, the runs and the cursor alone.
LEMMA LoopKeeps ==
    ASSUME RunInv, UNCHANGED <<cursor, status, log, task, results, spent, executions>>,
           at' \in Holding => at \in Holding,
           at' = "refusing" => at \in Holding
    PROVE  RunInv'
<1>1. Shapes' /\ Traced' /\ Unexecuted' /\ Ahead' /\ Saved'
  BY DEF RunInv, Shapes, Traced, Unexecuted, Ahead, Saved
<1>2. AtCursor'
  BY DEF RunInv, AtCursor
<1> QED BY <1>1, <1>2 DEF RunInv

\* A step that ends the process.
LEMMA EndKeeps ==
    ASSUME RunInv, Ends, UNCHANGED <<log, results, spent, executions>> PROVE RunInv'
<1>1. /\ cursor' = 1 /\ task' = [r \in Runs |-> "none"] /\ status' = log /\ at' = "down"
  BY DEF Ends, Fresh
<1>2. Shapes'
  <2>1. cursor' \in 1..Last + 1
    BY <1>1, BatchAssumption
  <2>2. task' \in [Runs -> Steps]
    BY <1>1 DEF Steps
  <2> QED BY <1>1, <2>1, <2>2 DEF RunInv, Shapes
<1>3. Traced' /\ Unexecuted' /\ Ahead' /\ Saved'
  BY <1>1 DEF RunInv, Shapes, Traced, Unexecuted, Ahead, Saved
<1>4. AtCursor'
  BY <1>1 DEF AtCursor, Holding
<1> QED BY <1>2, <1>3, <1>4 DEF RunInv

LEMMA BatchKeeps == ASSUME RunInv, Batch PROVE RunInv'
<1> USE DEF Holding
<1>1. CASE OpenFails \/ Release
  BY <1>1, EndKeeps DEF OpenFails, Release
<1>2. CASE OpenStore
  <2>1. /\ status' = log /\ at' \notin Holding \cup {"refusing"}
        /\ UNCHANGED <<cursor, log, task, results, spent, executions>>
    BY <1>2 DEF OpenStore, dispatchVars, taskVars
  <2> QED BY <2>1 DEF RunInv, Shapes, Traced, Unexecuted, Ahead, Saved, AtCursor
<1>3. CASE Register
  <2>1. PICK r \in Runs, raises \in BOOLEAN :
           status[r] = "none" /\ Transition(r, "queued", raises)
    BY <1>3 DEF Register
  <2>2. /\ at' \notin Holding \cup {"refusing"}
        /\ UNCHANGED <<cursor, task, results, spent, executions>>
    BY <1>3 DEF Register, taskVars
  <2>3. /\ status' \in [Runs -> Statuses] /\ log' \in [Runs -> Statuses]
        /\ \A q \in Runs \ {r} : status'[q] = status[q] /\ log'[q] = log[q]
        /\ log'[r] \in {log[r], "queued"}
    BY <2>1, TransitionMoves DEF RunInv, Shapes, Statuses
  <2>4. executions[r] = 0
    BY <2>1 DEF RunInv, Traced
  <2>5. Shapes' /\ Unexecuted' /\ Ahead' /\ AtCursor'
    BY <2>2, <2>3 DEF RunInv, Shapes, Unexecuted, Ahead, AtCursor
  <2>6. Traced' /\ Saved'
    BY <2>2, <2>3, <2>4 DEF RunInv, Traced, Saved
  <2> QED BY <2>5, <2>6 DEF RunInv
<1>4. CASE AcquireBudget \/ ChargeInterrupted
  BY <1>4, LoopKeeps DEF AcquireBudget, ChargeInterrupted, storeVars, taskVars
<1>5. CASE Pick
  <2>1. /\ UNCHANGED <<status, log, task, results, spent, executions>>
        /\ \/ UNCHANGED cursor /\ at' \notin Holding \cup {"refusing"}
           \/ UNCHANGED cursor /\ at' = "refusing" /\ cursor <= Last
           \/ cursor <= Last /\ cursor' = cursor + 1 /\ at' = "loop"
           \/ UNCHANGED cursor /\ at' = "reserving" /\ cursor <= Last /\ status[cursor] = "queued"
    BY <1>5 DEF Pick, Dispatch, Quiet, storeVars, taskVars
  <2>2. Shapes'
    BY <2>1, BatchAssumption DEF RunInv, Shapes
  <2>3. Traced' /\ Unexecuted' /\ Saved'
    BY <2>1 DEF RunInv, Traced, Unexecuted, Saved
  <2>4. Ahead'
    BY <2>1 DEF RunInv, Shapes, Ahead, Runs
  <2>5. AtCursor'
    BY <2>1 DEF RunInv, Shapes, AtCursor, Runs
  <2> QED BY <2>2, <2>3, <2>4, <2>5 DEF RunInv
<1>6. CASE ReserveBudget \/ Denied \/ OneIsOver \/ TakeBack \/ Refund
  BY <1>6, LoopKeeps
  DEF ReserveBudget, Denied, OneIsOver, TakeBack, Refund, Dispatch, Quiet, storeVars, taskVars
<1>7. CASE HandOver
  <2>1. cursor \in Runs /\ status[cursor] = "queued" /\ executions[cursor] = 0
    BY <1>7 DEF HandOver, RunInv, AtCursor, Traced
  <2>2. /\ task' = [task EXCEPT ![cursor] = "preparing"] /\ cursor' = cursor + 1 /\ at' = "loop"
        /\ UNCHANGED <<status, log, results, spent, executions>>
    BY <1>7 DEF HandOver, Quiet, storeVars
  <2>3. task' \in [Runs -> Steps] /\ cursor' \in 1..Last + 1
    <3>1. task \in [Runs -> Steps] /\ "preparing" \in Steps
      BY DEF RunInv, Shapes, Steps
    <3>2. task' \in [Runs -> Steps]
      BY <2>2, <3>1
    <3>3. cursor' \in 1..Last + 1
      BY <2>1, <2>2, BatchAssumption DEF Runs
    <3> QED BY <3>2, <3>3
  <2>5. Shapes'
    BY <2>2, <2>3 DEF RunInv, Shapes
  <2>6. Ahead'
    BY <2>1, <2>2, <2>3 DEF RunInv, Shapes, Ahead, Runs
  <2>4. Traced' /\ Unexecuted' /\ Saved' /\ AtCursor'
    BY <2>1, <2>2 DEF RunInv, Shapes, Traced, Unexecuted, Saved, AtCursor
  <2> QED BY <2>4, <2>5, <2>6 DEF RunInv
<1>8. CASE RefuseRun
  <2>1. PICK raises \in BOOLEAN : Transition(cursor, "failed", raises)
    BY <1>8 DEF RefuseRun
  <2>2. /\ cursor \in Runs
        /\ cursor' \in {cursor, cursor + 1} /\ at' \in {"draining", "loop"}
        /\ UNCHANGED <<task, results, spent, executions>>
    BY <1>8 DEF RefuseRun, Dispatch, taskVars, RunInv, AtCursor
  <2>3. /\ status' \in [Runs -> Statuses] /\ log' \in [Runs -> Statuses]
        /\ \A q \in Runs \ {cursor} : status'[q] = status[q] /\ log'[q] = log[q]
        /\ status'[cursor] \in {status[cursor], "failed"}
        /\ log'[cursor] \in {log[cursor], "failed"}
    BY <2>1, <2>2, TransitionMoves DEF RunInv, Shapes, Statuses
  <2>4. Shapes' /\ Ahead'
    BY <2>2, <2>3, BatchAssumption DEF RunInv, Shapes, Ahead, Runs
  <2>5. Traced' /\ Unexecuted' /\ Saved' /\ AtCursor'
    BY <2>2, <2>3 DEF RunInv, Shapes, Traced, Unexecuted, Saved, AtCursor
  <2> QED BY <2>4, <2>5 DEF RunInv
<1> QED BY <1>1, <1>2, <1>3, <1>4, <1>5, <1>6, <1>7, <1>8 DEF Batch

LEMMA RunInvInit == Init => RunInv
<1> SUFFICES ASSUME Init PROVE RunInv
  OBVIOUS
<1>1. /\ log = [r \in Runs |-> "none"] /\ status = log /\ cursor = 1 /\ at = "down"
      /\ task = [r \in Runs |-> "none"] /\ spent = [r \in Runs |-> 0]
      /\ executions = [r \in Runs |-> 0]
  BY DEF Init
<1>2. cursor \in 1..Last + 1
  BY <1>1, BatchAssumption
<1>3. Shapes
  BY <1>1, <1>2 DEF Shapes, Statuses, Steps
<1>4. Traced /\ Unexecuted /\ AtCursor /\ Ahead /\ Saved
  BY <1>1 DEF Traced, Unexecuted, AtCursor, Ahead, Saved, Holding
<1> QED BY <1>3, <1>4 DEF RunInv

LEMMA RunInvStep == ASSUME RunInv, [Next]_vars PROVE RunInv'
<1>1. CASE Start
  <2>1. at' = "opening" /\ UNCHANGED <<cursor, status, log, task, results, spent, executions>>
    BY <1>1 DEF Start, storeVars, taskVars
  <2> QED BY <2>1, LoopKeeps DEF Holding
<1>2. CASE Batch
  BY <1>2, BatchKeeps
<1>3. CASE Cancel
  <2>1. UNCHANGED <<at, cursor, status, log, task, results, spent, executions>>
    BY <1>3 DEF Cancel, Quiet, storeVars, dispatchVars, taskVars
  <2> QED BY <2>1 DEF RunInv, Shapes, Traced, Unexecuted, AtCursor, Ahead, Saved
<1>4. CASE Crash
  BY <1>4, EndKeeps DEF Crash
<1>5. CASE RemoveStaleLeases
  <2>1. UNCHANGED <<at, cursor, status, log, task, results, spent, executions>>
    BY <1>5 DEF RemoveStaleLeases, Quiet, storeVars, dispatchVars, taskVars
  <2> QED BY <2>1 DEF RunInv, Shapes, Traced, Unexecuted, AtCursor, Ahead, Saved
<1>6. ASSUME NEW r \in Runs, Task(r) PROVE RunInv'
  BY <1>6, RunKeeps
<1>7. ASSUME NEW r \in Runs, Spend(r) PROVE RunInv'
  <2>1. UNCHANGED <<at, cursor, status, log, task, results, executions>>
    BY <1>7 DEF Spend, Quiet, storeVars, dispatchVars, taskVars
  <2>2. spent' \in [Runs -> Nat]
    BY <1>7, BatchAssumption DEF Spend, RunInv, Shapes
  <2> QED BY <2>1, <2>2 DEF RunInv, Shapes, Traced, Unexecuted, AtCursor, Ahead, Saved
<1>8. CASE UNCHANGED vars
  <2>1. UNCHANGED <<at, cursor, status, log, task, results, spent, executions>>
    BY <1>8 DEF vars, storeVars, dispatchVars, taskVars
  <2> QED BY <2>1 DEF RunInv, Shapes, Traced, Unexecuted, AtCursor, Ahead, Saved
<1> QED BY <1>1, <1>2, <1>3, <1>4, <1>5, <1>6, <1>7, <1>8 DEF Next

\* ExecutedOnce in every reachable state: by one process of batch-runner.ts or by
\* the ones that follow it, with any number of runs and of crashes, a run is
\* handed to the executor at most once.
THEOREM ExecutedAtMostOnce == Spec => []ExecutedOnce
<1>1. RunInv /\ [Next]_vars => RunInv'
  BY RunInvStep
<1>2. RunInv => ExecutedOnce
  BY DEF RunInv, Shapes, ExecutedOnce
<1> QED BY RunInvInit, <1>1, <1>2, PTL DEF Spec

\* CompletedIsKept in every reachable state: a run whose "completed" line reached
\* batch-events.jsonl has its result file.
THEOREM CompletedHasResult == Spec => []CompletedIsKept
<1>1. RunInv /\ [Next]_vars => RunInv'
  BY RunInvStep
<1>2. RunInv => CompletedIsKept
  BY DEF RunInv, Saved, CompletedIsKept
<1> QED BY RunInvInit, <1>1, <1>2, PTL DEF Spec
-----------------------------------------------------------------------------
(* Types.                                                                   *)

LEMMA BalanceTyped ==
    ASSUME NEW a \in Nat, NEW b \in Nat, NEW c \in BOOLEAN, a + b <= Cap
    PROVE  Balance(a, b, c) \in Balances
  BY BudgetAssumption DEF Balance, Balances

LEMMA PersistTyped ==
    ASSUME memory \in Balances, file \in Balances, faults \in 0..MaxFaults,
           NEW new \in Balances, NEW raises \in BOOLEAN, Persist(new, raises)
    PROVE  memory' \in Balances /\ file' \in Balances /\ faults' \in 0..MaxFaults
  BY BudgetAssumption DEF Persist, Fault

LEMMA LedgerTyped ==
    ASSUME memory \in Balances, file \in Balances, faults \in 0..MaxFaults, LedgerInv,
           NEW tokens \in Nat, NEW actual \in Nat, NEW admitted \in BOOLEAN, NEW raises \in BOOLEAN,
           \/ Reserve(tokens, admitted, raises)
           \/ Settle(tokens, actual, raises)
           \/ ChargeUnverified(tokens, raises)
    PROVE  memory' \in Balances /\ file' \in Balances /\ faults' \in 0..MaxFaults
<1>1. /\ memory.accounted \in Nat /\ memory.reserved \in Nat
      /\ memory.accounted + memory.reserved <= Cap /\ memory.reconciliation \in BOOLEAN
      /\ Cap \in Nat
  BY BudgetAssumption DEF LedgerInv, Sound, Balances
<1>2. CASE Reserve(tokens, admitted, raises)
  <2>1. CASE UNCHANGED <<memory, file, faults>>
    BY <2>1
  <2>2. CASE /\ Affordable(tokens)
             /\ Persist(Balance(memory.accounted, memory.reserved + tokens, FALSE), raises)
    <3>1. /\ memory.reserved + tokens \in Nat
          /\ memory.accounted + (memory.reserved + tokens) <= Cap
      BY <1>1, <2>2 DEF Affordable
    <3>2. Balance(memory.accounted, memory.reserved + tokens, FALSE) \in Balances
      BY <1>1, <3>1, BalanceTyped
    <3> QED BY <2>2, <3>2, PersistTyped
  <2> QED BY <1>2, <2>1, <2>2 DEF Reserve
<1>3. CASE Settle(tokens, actual, raises)
  <2>1. CASE /\ actual <= tokens /\ tokens <= memory.reserved
             /\ Persist(Balance(memory.accounted + actual, memory.reserved - tokens,
                                memory.reconciliation), raises)
    <3>1. /\ memory.accounted + actual \in Nat /\ memory.reserved - tokens \in Nat
          /\ (memory.accounted + actual) + (memory.reserved - tokens) <= Cap
      BY <1>1, <2>1
    <3> QED BY <1>1, <2>1, <3>1, BalanceTyped, PersistTyped
  <2>2. CASE \E failed \in BOOLEAN :
               Persist(Balance(memory.accounted, memory.reserved, TRUE), failed)
    BY <1>1, <2>2, BalanceTyped, PersistTyped
  <2> QED BY <1>3, <2>1, <2>2 DEF Settle
<1>4. CASE ChargeUnverified(tokens, raises)
  <2>1. CASE /\ tokens <= memory.reserved
             /\ Persist(Balance(memory.accounted + tokens, memory.reserved - tokens, TRUE), raises)
    <3>1. /\ memory.accounted + tokens \in Nat /\ memory.reserved - tokens \in Nat
          /\ (memory.accounted + tokens) + (memory.reserved - tokens) <= Cap
      BY <1>1, <2>1
    <3> QED BY <1>1, <2>1, <3>1, BalanceTyped, PersistTyped
  <2>2. CASE UNCHANGED <<memory, file, faults>>
    BY <2>2
  <2> QED BY <1>4, <2>1, <2>2 DEF ChargeUnverified
<1> QED BY <1>2, <1>3, <1>4

LEMMA StoreTyped ==
    ASSUME TypeOK, NEW r \in Runs, NEW to \in Statuses, NEW raises \in BOOLEAN,
           Transition(r, to, raises)
    PROVE  /\ log' \in [Runs -> Statuses] /\ status' \in [Runs -> Statuses]
           /\ readable' \in BOOLEAN /\ ahead' \in BOOLEAN
           /\ faults' \in 0..MaxFaults
<1>1. CASE UNCHANGED <<storeVars, faults>>
  BY <1>1 DEF storeVars, TypeOK
<1>2. CASE ~ UNCHANGED <<storeVars, faults>>
  <2>1. faults' \in 0..MaxFaults
    BY <1>2, BudgetAssumption DEF Transition, Fault, TypeOK
  <2>2. /\ status' = status \/ status' = [status EXCEPT ![r] = to]
        /\ log' = log \/ log' = [log EXCEPT ![r] = to]
        /\ readable' \in {readable, FALSE, readable /\ ~ ahead}
        /\ ahead' \in {ahead, TRUE}
    BY <1>2 DEF Transition
  <2> QED BY <2>1, <2>2, ZenonT(30) DEF TypeOK
<1> QED BY <1>1, <1>2

\* A process ends, or has not yet begun.
LEMMA EndTyped ==
    ASSUME TypeOK, Ends
    PROVE  /\ at' \in Places /\ cursor' \in 1..Last + 1 /\ awaited' \in SUBSET Runs
           /\ task' \in [Runs -> Steps] /\ error' \in [Runs -> {"none", "pre", "known", "unknown"}]
           /\ holds' \in SUBSET Runs
           /\ stop' \in BOOLEAN /\ fatal' \in BOOLEAN /\ cancelled' \in BOOLEAN
           /\ memory' \in Balances /\ status' \in [Runs -> Statuses] /\ ahead' \in BOOLEAN
<1>1. at' \in Places /\ cursor' \in 1..Last + 1 /\ awaited' \in SUBSET Runs /\ holds' \in SUBSET Runs
  BY BatchAssumption DEF Ends, Fresh, Places
<1>2. task' \in [Runs -> Steps] /\ error' \in [Runs -> {"none", "pre", "known", "unknown"}]
  BY DEF Ends, Fresh, Steps
<1>3. memory' \in Balances /\ status' \in [Runs -> Statuses] /\ ahead' \in BOOLEAN
  BY DEF Ends, TypeOK
<1>4. stop' \in BOOLEAN /\ fatal' \in BOOLEAN /\ cancelled' \in BOOLEAN
  BY DEF Ends, Fresh
<1> QED BY <1>1, <1>2, <1>3, <1>4

LEMMA InitTyped == Init => TypeOK
<1> SUFFICES ASSUME Init PROVE TypeOK  OBVIOUS
<1>1. Empty \in Balances
  BY BudgetAssumption DEF Empty, Balances
<1>2. memory \in Balances /\ file \in Balances /\ faults \in 0..MaxFaults /\ crashes \in 0..MaxCrashes
  BY <1>1, BudgetAssumption, BatchAssumption DEF Init, LedgerInit
<1>3. log \in [Runs -> Statuses] /\ status \in [Runs -> Statuses]
  BY DEF Init, Statuses
<1>4. at \in Places /\ cursor \in 1..Last + 1 /\ awaited \in SUBSET Runs /\ holds \in SUBSET Runs
  BY BatchAssumption DEF Init, Places
<1>5. task \in [Runs -> Steps] /\ error \in [Runs -> {"none", "pre", "known", "unknown"}]
  BY DEF Init, Steps
<1>6. /\ readable \in BOOLEAN /\ ahead \in BOOLEAN
      /\ stop \in BOOLEAN /\ fatal \in BOOLEAN /\ cancelled \in BOOLEAN
      /\ results \in SUBSET Runs /\ leases \in SUBSET {"owner", "writer"}
      /\ spent \in [Runs -> Amounts \cup {0}] /\ executions \in [Runs -> Nat]
  BY DEF Init
<1> QED BY <1>2, <1>3, <1>4, <1>5, <1>6 DEF TypeOK

LEMMA BatchTyped ==
    ASSUME TypeOK, LedgerInv, RunInv, Batch
    PROVE  TypeOK'
<1> USE BatchAssumption, BudgetAssumption
<1>1. CASE OpenFails \/ Release
  BY <1>1, EndTyped, ZenonT(30) DEF OpenFails, Release, TypeOK
<1>2. CASE OpenStore
  BY <1>2 DEF OpenStore, TypeOK, Places, ledgerVars, taskVars, flags
<1>3. CASE Register
  <2>1. PICK r \in Runs, raises \in BOOLEAN :
          /\ Transition(r, "queued", raises)
          /\ at' = IF raises THEN "abandoning" ELSE IF r = Last THEN "leasing" ELSE at
    BY <1>3 DEF Register
  <2>2. "queued" \in Statuses
    BY DEF Statuses
  <2>3. at' \in Places
    BY <2>1 DEF TypeOK, Places
  <2> QED
    BY <1>3, <2>1, <2>2, <2>3, StoreTyped DEF Register, TypeOK, ledgerVars, taskVars, flags
<1>4. CASE AcquireBudget
  BY <1>4 DEF AcquireBudget, TypeOK, Places, storeVars, taskVars, flags
<1>5. CASE ChargeInterrupted
  <2>1. PICK raises \in BOOLEAN :
          /\ ChargeUnverified(memory.reserved, raises)
          /\ at' = IF raises THEN "draining" ELSE "loop"
          /\ fatal' = raises
    BY <1>5 DEF ChargeInterrupted
  <2>2. memory.reserved \in Nat
    BY DEF LedgerInv, Sound
  <2>3. memory' \in Balances /\ file' \in Balances /\ faults' \in 0..MaxFaults
    BY <2>1, <2>2, LedgerTyped DEF TypeOK
  <2>4. at' \in Places /\ fatal' \in BOOLEAN
    BY <2>1 DEF Places
  <2> QED BY <1>5, <2>3, <2>4 DEF ChargeInterrupted, TypeOK, storeVars, taskVars
<1>6. CASE Pick
  <2>1. at' \in Places /\ fatal' \in BOOLEAN
    BY <1>6 DEF Pick, TypeOK, Places, Dispatch
  <2>2. cursor' \in 1..Last + 1
    BY <1>6 DEF Pick, TypeOK
  <2> QED
    BY <1>6, <2>1, <2>2 DEF Pick, TypeOK, Dispatch, Quiet, ledgerVars, storeVars, taskVars
<1>7. CASE ReserveBudget
  <2>1. PICK admitted \in BOOLEAN, raises \in BOOLEAN :
          /\ Reserve(Reservation, admitted, raises)
          /\ Dispatch(IF raises THEN "draining" ELSE IF admitted THEN "admitted" ELSE "denied")
          /\ fatal' = (fatal \/ raises)
    BY <1>7 DEF ReserveBudget
  <2>2. memory' \in Balances /\ file' \in Balances /\ faults' \in 0..MaxFaults
    BY <2>1, LedgerTyped DEF TypeOK
  <2>3. at' \in Places /\ fatal' \in BOOLEAN
    BY <2>1 DEF Dispatch, Places, TypeOK
  <2> QED BY <1>7, <2>1, <2>2, <2>3 DEF ReserveBudget, TypeOK, Dispatch, storeVars, taskVars
<1>8. CASE Denied
  BY <1>8 DEF Denied, TypeOK, Places, Active, Dispatch, Quiet, ledgerVars, storeVars, taskVars
<1>9. CASE OneIsOver
  BY <1>9 DEF OneIsOver, TypeOK, Places, Dispatch, Quiet, ledgerVars, storeVars, taskVars
<1>10. CASE HandOver
  <2>1. cursor \in Runs /\ cursor + 1 \in 1..Last + 1
    BY <1>10 DEF HandOver, RunInv, AtCursor, Holding, Runs
  <2> QED BY <1>10, <2>1 DEF HandOver, TypeOK, Places, Steps, Quiet, ledgerVars, storeVars, flags
<1>11. CASE TakeBack
  BY <1>11 DEF TakeBack, TypeOK, Places, Dispatch, Quiet, ledgerVars, storeVars, taskVars
<1>12. CASE Refund
  <2>1. PICK raises \in BOOLEAN :
          /\ Settle(Reservation, 0, raises)
          /\ Dispatch(IF raises \/ at = "refunding" THEN "draining" ELSE "refusing")
          /\ fatal' = (fatal \/ raises)
    BY <1>12 DEF Refund
  <2>2. memory' \in Balances /\ file' \in Balances /\ faults' \in 0..MaxFaults
    BY <2>1, LedgerTyped DEF TypeOK
  <2>3. at' \in Places /\ fatal' \in BOOLEAN
    BY <2>1 DEF Dispatch, Places, TypeOK
  <2> QED BY <1>12, <2>1, <2>2, <2>3 DEF Refund, TypeOK, Dispatch, storeVars, taskVars
<1>13. CASE RefuseRun
  <2>1. PICK raises \in BOOLEAN :
          /\ Transition(cursor, "failed", raises)
          /\ Dispatch(IF raises THEN "draining" ELSE "loop")
          /\ cursor' = IF raises THEN cursor ELSE cursor + 1
          /\ fatal' = (fatal \/ raises)
    BY <1>13 DEF RefuseRun
  <2>2. cursor \in Runs /\ cursor' \in 1..Last + 1 /\ "failed" \in Statuses
    BY <1>13, <2>1 DEF RefuseRun, RunInv, AtCursor, Runs, Statuses
  <2>3. at' \in Places /\ fatal' \in BOOLEAN
    BY <2>1 DEF Dispatch, Places, TypeOK
  <2> QED BY <1>13, <2>1, <2>2, <2>3, StoreTyped DEF RefuseRun, TypeOK, Dispatch, ledgerVars, taskVars
<1> QED
  BY <1>1, <1>2, <1>3, <1>4, <1>5, <1>6, <1>7, <1>8, <1>9, <1>10, <1>11, <1>12, <1>13 DEF Batch

\* Where executeRun goes, its store and its errors.
LEMMA StepTyped ==
    ASSUME TypeOK, NEW r \in Runs, NEW to \in Steps, NEW from, Step(r, from, to)
    PROVE  /\ task' \in [Runs -> Steps] /\ at' \in Places /\ cursor' \in 1..Last + 1
           /\ awaited' \in SUBSET Runs /\ leases' \in SUBSET {"owner", "writer"}
           /\ cancelled' \in BOOLEAN /\ crashes' \in 0..MaxCrashes
  BY DEF TypeOK, Step, dispatchVars

LEMMA CatchTyped ==
    ASSUME TypeOK, NEW r \in Runs, NEW from, NEW kind \in {"pre", "known", "unknown"},
           Catches(r, from, kind)
    PROVE  /\ task' \in [Runs -> Steps] /\ at' \in Places /\ cursor' \in 1..Last + 1
           /\ awaited' \in SUBSET Runs /\ leases' \in SUBSET {"owner", "writer"}
           /\ cancelled' \in BOOLEAN /\ crashes' \in 0..MaxCrashes
           /\ error' \in [Runs -> {"none", "pre", "known", "unknown"}]
           /\ holds' \in SUBSET Runs /\ stop' \in BOOLEAN /\ fatal' \in BOOLEAN
<1>1. Step(r, from, "caught") /\ "caught" \in Steps
  BY DEF Catches, Steps
<1>2. /\ task' \in [Runs -> Steps] /\ at' \in Places /\ cursor' \in 1..Last + 1
      /\ awaited' \in SUBSET Runs /\ leases' \in SUBSET {"owner", "writer"}
      /\ cancelled' \in BOOLEAN /\ crashes' \in 0..MaxCrashes
  BY <1>1, StepTyped
<1> QED BY <1>2 DEF Catches, TypeOK

LEMMA MarkTyped ==
    ASSUME TypeOK, NEW r \in Runs, NEW from, NEW to \in Statuses, NEW next \in Steps,
           NEW kind \in {"pre", "known", "unknown"}, Marks(r, from, to, next, kind),
           executions' \in [Runs -> Nat]
    PROVE  TypeOK'
<1>1. PICK raises \in BOOLEAN :
         /\ Transition(r, to, raises)
         /\ IF raises THEN Catches(r, from, kind)
            ELSE Step(r, from, next) /\ UNCHANGED <<error, holds, stop, fatal>>
  BY DEF Marks
<1>2. /\ log' \in [Runs -> Statuses] /\ status' \in [Runs -> Statuses]
      /\ readable' \in BOOLEAN /\ ahead' \in BOOLEAN /\ faults' \in 0..MaxFaults
  BY <1>1, StoreTyped
<1>3. UNCHANGED <<memory, file, results, spent>>
  BY DEF Marks, ledgerVars
<1>4. CASE raises
  BY <1>1, <1>2, <1>3, <1>4, CatchTyped DEF TypeOK
<1>5. CASE ~ raises
  BY <1>1, <1>2, <1>3, <1>5, StepTyped DEF TypeOK
<1> QED BY <1>4, <1>5

LEMMA RunTyped ==
    ASSUME TypeOK, LedgerInv, NEW r \in Runs, Task(r) \/ Spend(r)
    PROVE  TypeOK'
<1> USE BatchAssumption, BudgetAssumption
<1>1. /\ spent[r] \in Nat /\ executions \in [Runs -> Nat]
      /\ {"preparing", "running", "agent_finished", "evaluating", "completed", "failed"}
            \subseteq Statuses
  <2>1. spent[r] \in Amounts \cup {0}
    BY DEF TypeOK
  <2>2. executions \in [Runs -> Nat]
    BY DEF TypeOK
  <2>3. {"preparing", "running", "agent_finished", "evaluating", "completed", "failed"}
            \subseteq Statuses
    BY DEF Statuses
  <2>4. Amounts \cup {0} \subseteq Nat
    OBVIOUS
  <2> QED BY <2>1, <2>2, <2>3, <2>4
<1>2. {"starting", "executing", "agent finished", "evaluating", "returned", "written", "settled",
       "caught", "closing", "over"} \subseteq Steps
  BY DEF Steps
<1>3. CASE Prepare(r)
  BY <1>1, <1>2, <1>3, MarkTyped DEF Prepare
<1>4. CASE Execute(r)
  <2>1. executions' \in [Runs -> Nat]
    BY <1>1, <1>4 DEF Execute
  <2> QED BY <1>1, <1>2, <1>4, <2>1, MarkTyped DEF Execute
<1>5. CASE AgentFinished(r) \/ Evaluating(r)
  BY <1>1, <1>2, <1>5, MarkTyped DEF AgentFinished, Evaluating
<1>6. CASE AgentFails(r) \/ EvaluationFails(r)
  <2>1. \E kind \in {"pre", "known", "unknown"}, from \in Steps : Catches(r, from, kind)
    BY <1>6 DEF AgentFails, EvaluationFails, Steps
  <2>2. /\ task' \in [Runs -> Steps] /\ at' \in Places /\ cursor' \in 1..Last + 1
        /\ awaited' \in SUBSET Runs /\ leases' \in SUBSET {"owner", "writer"}
        /\ cancelled' \in BOOLEAN /\ crashes' \in 0..MaxCrashes
        /\ error' \in [Runs -> {"none", "pre", "known", "unknown"}]
        /\ holds' \in SUBSET Runs /\ stop' \in BOOLEAN /\ fatal' \in BOOLEAN
    BY <2>1, CatchTyped
  <2>3. UNCHANGED <<memory, file, faults, log, readable, status, ahead, results, spent, executions>>
    BY <1>6 DEF AgentFails, EvaluationFails, Quiet, ledgerVars, storeVars
  <2> QED
    BY <2>2, <2>3 DEF TypeOK
<1>7. CASE Returns(r)
  BY <1>2, <1>7, StepTyped DEF Returns, TypeOK, Quiet, ledgerVars, storeVars
<1>8. CASE WriteResult(r)
  <2>1. CASE Step(r, "returned", "written") /\ results' = results \cup {r}
             /\ UNCHANGED <<faults, error, holds, stop, fatal>>
    BY <1>2, <1>8, <2>1, StepTyped DEF WriteResult, TypeOK, ledgerVars, storeVars
  <2>2. CASE Catches(r, "returned", "unknown") /\ Fault /\ UNCHANGED results
    BY <1>8, <2>2, CatchTyped DEF WriteResult, TypeOK, Fault, ledgerVars, storeVars
  <2> QED BY <1>8, <2>1, <2>2 DEF WriteResult
<1>9. CASE SettleRun(r)
  <2>1. PICK raises \in BOOLEAN :
          /\ Settle(Reservation, spent[r], raises)
          /\ IF raises THEN Catches(r, "written", "unknown")
             ELSE /\ Step(r, "written", "settled")
                  /\ holds' = holds \ {r}
                  /\ UNCHANGED <<error, stop, fatal>>
    BY <1>9 DEF SettleRun
  <2>2. memory' \in Balances /\ file' \in Balances /\ faults' \in 0..MaxFaults
    BY <1>1, <2>1, LedgerTyped DEF TypeOK
  <2>3. UNCHANGED <<log, readable, status, ahead, results, spent, executions>>
    BY <1>9 DEF SettleRun, storeVars
  <2>4. CASE raises
    BY <2>1, <2>2, <2>3, <2>4, CatchTyped DEF TypeOK
  <2>5. CASE ~ raises
    BY <1>2, <2>1, <2>2, <2>3, <2>5, StepTyped DEF TypeOK
  <2> QED BY <2>4, <2>5
<1>10. CASE Complete(r)
  <2>1. PICK raises \in BOOLEAN, to \in {"closing", "over"} :
          /\ Transition(r, "completed", raises)
          /\ Step(r, "settled", to)
          /\ error' = [error EXCEPT ![r] = IF raises THEN "unknown" ELSE @]
    BY <1>10 DEF Complete
  <2>2. /\ log' \in [Runs -> Statuses] /\ status' \in [Runs -> Statuses]
        /\ readable' \in BOOLEAN /\ ahead' \in BOOLEAN /\ faults' \in 0..MaxFaults
    BY <1>1, <2>1, StoreTyped
  <2>3. error' \in [Runs -> {"none", "pre", "known", "unknown"}]
    BY <2>1 DEF TypeOK
  <2> QED BY <1>2, <1>10, <2>1, <2>2, <2>3, StepTyped DEF Complete, TypeOK, ledgerVars
<1>11. CASE CloseReservation(r)
  <2>1. PICK raises \in BOOLEAN, to \in {"closing", "over"} :
          /\ \/ error[r] = "pre" /\ Settle(Reservation, 0, raises)
             \/ error[r] = "known" /\ Settle(Reservation, spent[r], raises)
             \/ error[r] = "unknown" /\ ChargeUnverified(Reservation, raises)
          /\ Step(r, "caught", to)
          /\ fatal' = (fatal \/ raises)
    BY <1>11 DEF CloseReservation
  <2>2. memory' \in Balances /\ file' \in Balances /\ faults' \in 0..MaxFaults
    BY <1>1, <2>1, LedgerTyped DEF TypeOK
  <2>3. holds' \in SUBSET Runs /\ fatal' \in BOOLEAN
    BY <1>11, <2>1 DEF CloseReservation, TypeOK
  <2> QED BY <1>2, <1>11, <2>1, <2>2, <2>3, StepTyped DEF CloseReservation, TypeOK, storeVars
<1>12. CASE Close(r)
  <2>1. PICK raises \in BOOLEAN :
          /\ IF status[r] \in Terminal THEN ~ raises /\ UNCHANGED <<storeVars, faults>>
             ELSE Transition(r, "failed", raises)
          /\ fatal' = (fatal \/ raises)
          /\ stop' = (stop \/ (~ raises /\ StopOnPre /\ error[r] = "pre"))
    BY <1>12 DEF Close
  <2>2. /\ log' \in [Runs -> Statuses] /\ status' \in [Runs -> Statuses]
        /\ readable' \in BOOLEAN /\ ahead' \in BOOLEAN /\ faults' \in 0..MaxFaults
    <3>1. CASE UNCHANGED <<storeVars, faults>>
      BY <3>1 DEF storeVars, TypeOK
    <3>2. CASE Transition(r, "failed", raises)
      BY <1>1, <3>2, StoreTyped
    <3> QED BY <2>1, <3>1, <3>2
  <2>3. fatal' \in BOOLEAN /\ stop' \in BOOLEAN
    BY <2>1 DEF TypeOK
  <2> QED BY <1>2, <1>12, <2>2, <2>3, StepTyped DEF Close, TypeOK, ledgerVars
<1>13. CASE Spend(r)
  <2>1. spent' \in [Runs -> Amounts \cup {0}]
    BY <1>13 DEF Spend, TypeOK
  <2> QED BY <1>13, <2>1 DEF Spend, TypeOK, Quiet, ledgerVars, storeVars, dispatchVars, taskVars, flags
<1> QED
  BY <1>3, <1>4, <1>5, <1>6, <1>7, <1>8, <1>9, <1>10, <1>11, <1>12, <1>13 DEF Task

LEMMA StepsTyped == ASSUME TypeOK, LedgerInv, RunInv, [Next]_vars PROVE TypeOK'
<1>1. CASE Start
  BY <1>1 DEF Start, TypeOK, Places, Quiet, ledgerVars, storeVars, dispatchVars, taskVars, flags
<1>2. CASE Cancel
  BY <1>2 DEF Cancel, TypeOK, Quiet, ledgerVars, storeVars, dispatchVars, taskVars
<1>3. CASE RemoveStaleLeases
  BY <1>3 DEF RemoveStaleLeases, TypeOK, Quiet, ledgerVars, storeVars, dispatchVars, taskVars, flags
<1>4. CASE UNCHANGED vars
  BY <1>4 DEF vars, TypeOK, ledgerVars, storeVars, dispatchVars, taskVars, flags
<1>5. CASE Crash
  BY <1>5, EndTyped, BatchAssumption DEF Crash, TypeOK
<1> QED BY <1>1, <1>2, <1>3, <1>4, <1>5, BatchTyped, RunTyped DEF Next

\* TypeOK in every reachable state: the balances stay within the cap, the cursor
\* at most one beyond the last run, the writes that failed and the crashes within
\* their bounds.
THEOREM TypeCorrect == Spec => []TypeOK
<1> DEFINE I == TypeOK /\ RunInv /\ LedgerInv
<1>1. Init => I
  <2>1. Init => LedgerInv
    BY BudgetAssumption DEF Init, LedgerInit, Empty, LedgerInv, Sound
  <2> QED BY <2>1, InitTyped, RunInvInit
<1>2. I /\ [Next]_vars => I'
  <2>1. ASSUME I, [Next]_vars PROVE I'
    <3>1. spent \in [Runs -> Nat]
      BY <2>1 DEF RunInv, Shapes
    <3> QED BY <2>1, <3>1, StepsTyped, RunInvStep, LedgerKept
  <2> QED BY <2>1
<1>3. I => TypeOK
  OBVIOUS
<1> HIDE DEF I
<1> QED BY <1>1, <1>2, <1>3, PTL DEF Spec
-----------------------------------------------------------------------------
(* Nothing is started after a stop.                                         *)

\* What a step of executeRun does to its place and its reservation.
LEMMA TaskMoves ==
    ASSUME task \in [Runs -> Steps], NEW r \in Runs, Task(r)
    PROVE  /\ UNCHANGED <<at, cursor, awaited>>
           /\ \E to \in Steps \ {"none"} :
                 /\ task' = [task EXCEPT ![r] = to]
                 /\ \/ /\ task[r] \in Unsettled /\ to \in Unsettled \cup {"caught"}
                       /\ holds' = holds
                    \/ /\ task[r] \in {"written", "caught"} /\ to \in {"settled", "closing", "over"}
                       /\ holds' = holds \ {r}
                    \/ /\ task[r] \in {"settled", "closing"} /\ to \in {"closing", "over"}
                       /\ holds' = holds
<1> USE DEF Unsettled, Steps, dispatchVars
<1>1. CASE Prepare(r) \/ Execute(r) \/ AgentFinished(r) \/ Evaluating(r)
  <2>1. ASSUME NEW from \in Unsettled, NEW next \in Unsettled, NEW to, NEW kind,
               Marks(r, from, to, next, kind)
        PROVE  /\ task[r] = from /\ UNCHANGED <<at, cursor, awaited, holds>>
               /\ task' = [task EXCEPT ![r] = next] \/ task' = [task EXCEPT ![r] = "caught"]
    BY <2>1 DEF Marks, Catches, Step
  <2>2. \E from \in Unsettled, next \in Unsettled :
           /\ task[r] = from /\ UNCHANGED <<at, cursor, awaited, holds>>
           /\ task' = [task EXCEPT ![r] = next] \/ task' = [task EXCEPT ![r] = "caught"]
    BY <1>1, <2>1 DEF Prepare, Execute, AgentFinished, Evaluating
  <2> QED BY <2>2
<1>2. CASE AgentFails(r) \/ EvaluationFails(r)
  BY <1>2 DEF AgentFails, EvaluationFails, Catches, Step
<1>3. CASE Returns(r)
  BY <1>3 DEF Returns, Step
<1>4. CASE WriteResult(r)
  BY <1>4 DEF WriteResult, Catches, Step
<1>5. CASE SettleRun(r)
  BY <1>5 DEF SettleRun, Catches, Step
<1>6. CASE Complete(r)
  BY <1>6 DEF Complete, Step
<1>7. CASE CloseReservation(r)
  BY <1>7 DEF CloseReservation, Step
<1>8. CASE Close(r)
  BY <1>8 DEF Close, Step
<1> QED BY <1>1, <1>2, <1>3, <1>4, <1>5, <1>6, <1>7, <1>8 DEF Task

\* Only HandOver enters executeRun.
LEMMA OnlyHandOverStarts ==
    ASSUME task \in [Runs -> Steps], [Next]_vars, ~ HandOver PROVE Active' \subseteq Active
<1>1. CASE UNCHANGED task
  BY <1>1 DEF Active
<1>2. CASE OpenFails \/ Release \/ Crash
  <2>1. task' = [q \in Runs |-> "none"]
    BY <1>2 DEF OpenFails, Release, Crash, Ends, Fresh
  <2> QED BY <2>1 DEF Active
<1>3. CASE \/ Start \/ OpenStore \/ Register \/ AcquireBudget \/ ChargeInterrupted \/ Pick
           \/ ReserveBudget \/ Denied \/ OneIsOver \/ TakeBack \/ Refund \/ RefuseRun
           \/ Cancel \/ RemoveStaleLeases \/ UNCHANGED vars
  <2>1. UNCHANGED task
    BY <1>3 DEF Start, OpenStore, Register, AcquireBudget, ChargeInterrupted, Pick,
        ReserveBudget, Denied, OneIsOver, TakeBack, Refund, RefuseRun, Cancel,
        RemoveStaleLeases, Dispatch, vars, taskVars
  <2> QED BY <2>1, <1>1
<1>4. ASSUME NEW r \in Runs, Spend(r) PROVE Active' \subseteq Active
  BY <1>4, <1>1 DEF Spend, taskVars
<1>5. ASSUME NEW r \in Runs, Task(r) PROVE Active' \subseteq Active
  <2>1. /\ task[r] \in Unsettled \cup {"caught", "settled", "closing"}
        /\ \E to : task' = [task EXCEPT ![r] = to]
    BY <1>5, TaskMoves, Zenon DEF Unsettled
  <2> QED BY <2>1 DEF Active, Unsettled
<1> QED BY <1>2, <1>3, <1>4, <1>5 DEF Next, Batch

\* NoStartAfterStop holds of every step: executeRun is entered in the turn that has
\* looked at stopDispatch, at the fatal error and at the signal, after the await of
\* the reservation.
THEOREM NothingStartsAfterStop == Spec => NoStartAfterStop
<1> DEFINE Late == stop \/ fatal \/ cancelled
<1>1. ASSUME RunInv, [Next]_vars, Late PROVE Active' \subseteq Active
  <2>1. task \in [Runs -> Steps]
    BY <1>1 DEF RunInv, Shapes
  <2>2. ~ HandOver
    BY <1>1 DEF HandOver
  <2> QED BY <1>1, <2>1, <2>2, OnlyHandOverStarts
<1>2. RunInv /\ [Next]_vars => [Late => Active' \subseteq Active]_vars
  BY <1>1
<1>3. RunInv /\ [Next]_vars => RunInv'
  BY RunInvStep
<1> HIDE DEF Late
<1>4. Spec => [][Late => Active' \subseteq Active]_vars
  BY RunInvInit, <1>2, <1>3, PTL DEF Spec
<1> QED BY <1>4 DEF NoStartAfterStop, Late
-----------------------------------------------------------------------------
(* How many runs are on the way, and whom the loop waits for.               *)

LEMMA ActiveIsFinite ==
    /\ IsFiniteSet(Runs) /\ IsFiniteSet(Active) /\ Cardinality(Active) \in Nat
    /\ \A S : S \subseteq Active => IsFiniteSet(S) /\ Cardinality(S) <= Cardinality(Active)
<1>1. IsFiniteSet(Runs)
  BY FS_Interval, BatchAssumption DEF Runs
<1>2. IsFiniteSet(Active)
  BY <1>1, FS_Subset DEF Active
<1> QED BY <1>1, <1>2, FS_Subset, FS_CardinalityType

\* The loop picks a run when there is room for one more, and keeps that room
\* until it has handed the run over or refused it.
RoomInv ==
    /\ Cardinality(Active) <= Concurrency
    /\ at \in Holding => Cardinality(Active) < Concurrency

LEMMA HoldingBegins ==
    ASSUME [Next]_vars, at' \in Holding PROVE (at \in Holding \/ Pick) /\ ~ HandOver
<1>1. CASE Start \/ OpenStore \/ Register \/ AcquireBudget \/ ChargeInterrupted \/ HandOver
           \/ RefuseRun \/ OpenFails \/ Release \/ Crash \/ RemoveStaleLeases
  BY <1>1 DEF Start, OpenStore, Register, AcquireBudget, ChargeInterrupted, HandOver, RefuseRun,
     OpenFails, Release, Crash, RemoveStaleLeases, dispatchVars, Ends, Dispatch, Holding
<1>2. CASE Pick \/ ReserveBudget \/ Denied \/ OneIsOver \/ TakeBack \/ Refund
  BY <1>2 DEF Pick, HandOver, ReserveBudget, Denied, OneIsOver, TakeBack, Refund, Holding, Dispatch
<1>3. CASE UNCHANGED at
  <2>1. ~ HandOver
    BY <1>3 DEF HandOver
  <2> QED BY <1>3, <2>1
<1>4. CASE Cancel \/ UNCHANGED vars \/ \E r \in Runs : Spend(r)
  BY <1>3, <1>4 DEF Cancel, vars, dispatchVars, Spend
<1>5. ASSUME NEW r \in Runs, Task(r) PROVE UNCHANGED at
  BY <1>5 DEF Task, Prepare, Execute, AgentFinished, Evaluating, AgentFails, EvaluationFails, Returns,
     WriteResult, SettleRun, Complete, CloseReservation, Close, Marks, Catches, Step, dispatchVars
<1> QED BY <1>1, <1>2, <1>3, <1>4, <1>5 DEF Next, Batch

LEMMA RoomStep == ASSUME RunInv, RoomInv, [Next]_vars PROVE RoomInv'
<1> task \in [Runs -> Steps]
  BY DEF RunInv, Shapes
<1>1. Concurrency \in Nat
  BY BatchAssumption
<1>2. CASE HandOver
  <2>1. at = "admitted" /\ at' = "loop" /\ task' = [task EXCEPT ![cursor] = "preparing"]
    BY <1>2 DEF HandOver
  <2>2. Active' \subseteq Active \cup {cursor}
    BY <2>1 DEF Active
  <2>3. Cardinality(Active) + 1 <= Concurrency
    BY <1>1, <2>1, ActiveIsFinite DEF RoomInv, Holding
  <2>4. /\ IsFiniteSet(Active \cup {cursor})
        /\ Cardinality(Active \cup {cursor}) \in Nat
        /\ Cardinality(Active \cup {cursor}) <= Cardinality(Active) + 1
    BY ActiveIsFinite, FS_AddElement, FS_CardinalityType
  <2>5. Cardinality(Active') \in Nat /\ Cardinality(Active') <= Cardinality(Active \cup {cursor})
    BY <2>2, <2>4, FS_Subset, FS_CardinalityType
  <2> QED BY <1>1, <2>1, <2>3, <2>4, <2>5, ActiveIsFinite DEF RoomInv, Holding
<1>3. CASE ~ HandOver
  <2>1. Active' \subseteq Active
    BY <1>3, OnlyHandOverStarts
  <2>2. Cardinality(Active') \in Nat /\ Cardinality(Active') <= Cardinality(Active)
    BY <2>1, ActiveIsFinite, FS_CardinalityType
  <2>3. at' \in Holding => Cardinality(Active) < Concurrency
    <3>1. ASSUME Pick, at' \in Holding PROVE Cardinality(Active) < Concurrency
      BY <3>1 DEF Pick, Dispatch, Holding
    <3> QED BY <3>1, HoldingBegins DEF RoomInv
  <2> QED BY <1>1, <2>2, <2>3, ActiveIsFinite DEF RoomInv
<1> QED BY <1>2, <1>3

\* In every reachable state at most Concurrency runs are between their
\* reservation and the end of executeRun: the loop of batch-runner.ts counts them
\* once, before it awaits a reservation, and its `active` only shrinks until it
\* has used the room it saw.
THEOREM ConcurrencyKept == Spec => [](Cardinality(Active) <= Concurrency)
<1>1. Init => RunInv /\ RoomInv
  <2>1. ASSUME Init PROVE RoomInv
    <3>1. Active = {} /\ at = "down"
      BY <2>1 DEF Init, Active
    <3> QED BY <3>1, BatchAssumption, FS_EmptySet DEF RoomInv, Holding
  <2> QED BY <2>1, RunInvInit
<1>2. RunInv /\ RoomInv /\ [Next]_vars => (RunInv /\ RoomInv)'
  BY RunInvStep, RoomStep
<1>3. RoomInv => Cardinality(Active) <= Concurrency
  BY DEF RoomInv
<1> QED BY <1>1, <1>2, <1>3, PTL DEF Spec
-----------------------------------------------------------------------------
(* Where a run is, and what is reserved for it.                             *)

\* Places at which executeBatch may have started a run.
Dispatching == Holding \cup {"loop", "refusing", "draining"}

\* `reservation` of a run is not null from its reservation to its settlement; the
\* runs the loop waits for were started by it.
WaitInv ==
    /\ holds = {r \in Runs : task[r] \in Unsettled \cup {"caught"}}
    /\ at \notin Dispatching => \A r \in Runs : task[r] = "none"
    /\ at = "waiting" => /\ awaited # {} /\ awaited \subseteq Runs
                         /\ \A r \in awaited : task[r] # "none"

LEMMA WaitSame ==
    ASSUME WaitInv, UNCHANGED <<task, holds>>,
           at' \notin Dispatching => at \notin Dispatching,
           at' = "waiting" => at = "waiting" /\ UNCHANGED awaited
    PROVE  WaitInv'
  BY DEF WaitInv

LEMMA WaitStep == ASSUME RunInv, WaitInv, [Next]_vars PROVE WaitInv'
<1> task \in [Runs -> Steps]
  BY DEF RunInv, Shapes
<1> USE DEF Dispatching, Holding
<1>1. CASE OpenFails \/ Release \/ Crash
  <2>1. at' = "down" /\ holds' = {} /\ task' = [r \in Runs |-> "none"]
    BY <1>1 DEF OpenFails, Release, Crash, Ends, Fresh
  <2> QED BY <2>1 DEF WaitInv, Unsettled
<1>2. CASE Denied
  <2>1. UNCHANGED <<task, holds>> /\ at' \in Dispatching
    BY <1>2 DEF Denied, Dispatch, taskVars
  <2>2. at' = "waiting" => awaited' = Active /\ Active # {}
    BY <1>2 DEF Denied, Dispatch
  <2> QED BY <2>1, <2>2 DEF WaitInv, Active
<1>3. CASE HandOver
  <2>1. /\ cursor \in Runs /\ at' = "loop" /\ task' = [task EXCEPT ![cursor] = "preparing"]
        /\ holds' = holds \cup {cursor}
    BY <1>3 DEF HandOver, RunInv, AtCursor
  <2> QED BY <2>1 DEF WaitInv, Unsettled
<1>4. CASE Start \/ OpenStore \/ Register \/ AcquireBudget \/ ChargeInterrupted \/ Pick
           \/ ReserveBudget \/ OneIsOver \/ TakeBack \/ Refund \/ RefuseRun
  <2>1. UNCHANGED <<task, holds>> /\ at' # "waiting"
    BY <1>4 DEF Start, OpenStore, Register, AcquireBudget, ChargeInterrupted, Pick, ReserveBudget,
       OneIsOver, TakeBack, Refund, RefuseRun, Dispatch, taskVars
  <2>2. at' \notin Dispatching => at \notin Dispatching
    BY <1>4 DEF Start, OpenStore, Register, AcquireBudget, ChargeInterrupted, Pick, ReserveBudget,
       OneIsOver, TakeBack, Refund, RefuseRun, Dispatch
  <2> QED BY <2>1, <2>2, WaitSame
<1>5. CASE Cancel \/ RemoveStaleLeases \/ UNCHANGED vars \/ \E r \in Runs : Spend(r)
  <2>1. UNCHANGED <<task, holds, at, awaited>>
    BY <1>5 DEF Cancel, RemoveStaleLeases, vars, Spend, dispatchVars, taskVars
  <2> QED BY <2>1, WaitSame
<1>6. ASSUME NEW r \in Runs, Task(r) PROVE WaitInv'
  <2>1. PICK to \in Steps \ {"none"} :
           /\ task' = [task EXCEPT ![r] = to]
           /\ \/ /\ task[r] \in Unsettled /\ to \in Unsettled \cup {"caught"}
                 /\ holds' = holds
              \/ /\ task[r] \in {"written", "caught"} /\ to \in {"settled", "closing", "over"}
                 /\ holds' = holds \ {r}
              \/ /\ task[r] \in {"settled", "closing"} /\ to \in {"closing", "over"}
                 /\ holds' = holds
    BY <1>6, TaskMoves
  <2>2. UNCHANGED <<at, awaited>>
    BY <1>6, TaskMoves
  <2>3. holds' = {q \in Runs : task'[q] \in Unsettled \cup {"caught"}}
    BY <2>1 DEF WaitInv, Unsettled
  <2>4. at \in Dispatching
    BY <2>1 DEF WaitInv, Unsettled
  <2>5. \A q \in Runs : task[q] # "none" => task'[q] # "none"
    BY <2>1
  <2> QED BY <2>2, <2>3, <2>4, <2>5 DEF WaitInv
<1> QED BY <1>1, <1>2, <1>3, <1>4, <1>5, <1>6 DEF Next, Batch

LEMMA WaitInit == Init => WaitInv
  BY DEF Init, WaitInv, Dispatching, Holding, Unsettled

\* Whom the loop waits for: runs that are over, or that still have a step to take.
WaitsForRuns ==
    at = "waiting" =>
        /\ awaited # {}
        /\ \A r \in awaited : task[r] = "over" \/ (r \in Active /\ (task[r] = "caught" => r \in holds))

\* Promise.race of the loop in batch-runner.ts is never given an empty list, which
\* would not settle: each run it waits for was started, and is over, so that the
\* loop goes on, or still under way; one that has caught an error has the
\* reservation its finally block closes.
THEOREM NeverWaitsForNobody == Spec => []WaitsForRuns
<1>1. Init => RunInv /\ WaitInv
  BY RunInvInit, WaitInit
<1>2. RunInv /\ WaitInv /\ [Next]_vars => (RunInv /\ WaitInv)'
  BY RunInvStep, WaitStep
<1>3. WaitInv => WaitsForRuns
  BY DEF WaitInv, WaitsForRuns, Active
<1> QED BY <1>1, <1>2, <1>3, PTL DEF Spec
-----------------------------------------------------------------------------
(* What was spent is covered.                                               *)

\* Runs whose reservation the ledger still has: a failed run whose usage is
\* unknown may have been settled already, by a write that failed.
Live == {r \in holds : ~ (task[r] = "caught" /\ error[r] = "unknown")}

\* What a balance has to cover: the tokens of the live runs that can still be
\* spent, those of the others that were.
Slots(live, bill) == {u \in Runs \X (1..Reservation) : u[1] \in live \/ u[2] <= bill[u[1]]}

\* A reservation that no run has got yet.
Pending == IF at \in {"admitted", "refunding", "cancelling"} THEN Reservation ELSE 0

Owed == Cardinality(Slots(Live, spent)) + Pending

Total(b) == b.accounted + b.reserved

Covered == Owed <= Total(memory) /\ Owed <= Total(file)

HeldInv ==
    /\ holds \subseteq Runs
    /\ error \in [Runs -> {"none", "pre", "known", "unknown"}]
    /\ \A r \in Runs : task[r] \in Unsettled => r \in holds
    /\ \A r \in Runs : task[r] = "caught" /\ error[r] = "pre" => spent[r] = 0

CoverInv == HeldInv /\ Covered

\* The tokens of one run among the slots.
Weight(live, bill, r) == IF r \in live \/ bill[r] >= Reservation THEN Reservation ELSE bill[r]

LEMMA SlotsSize ==
    ASSUME NEW live, NEW bill \in [Runs -> Nat], NEW r \in Runs
    PROVE  LET slots == Slots(live, bill)
               rest == {u \in slots : u[1] # r}
           IN  /\ IsFiniteSet(slots)
               /\ Cardinality(rest) \in Nat
               /\ Weight(live, bill, r) \in Nat
               /\ Cardinality(slots) = Cardinality(rest) + Weight(live, bill, r)
<1> DEFINE slots == Slots(live, bill)
           rest == {u \in slots : u[1] # r}
           w == Weight(live, bill, r)
           mine == {r} \X (1..w)
<1>1. Reservation \in Nat /\ Last \in Nat /\ bill[r] \in Nat
  BY BatchAssumption
<1>2. w \in Nat
  BY <1>1 DEF Weight
<1>3. IsFiniteSet(Runs \X (1..Reservation))
  <2>1. IsFiniteSet(1..Reservation) /\ IsFiniteSet(1..Last)
    BY <1>1, FS_Interval
  <2> QED BY <2>1, FS_Product, Zenon DEF Runs
<1>4. IsFiniteSet(slots)
  BY <1>3, FS_Subset DEF Slots
<1>5. IsFiniteSet(rest) /\ Cardinality(rest) \in Nat
  <2> HIDE DEF slots
  <2> QED BY <1>4, FS_Subset, FS_CardinalityType
<1>6. slots = rest \cup mine
  <2>1. ASSUME NEW n \in 1..Reservation PROVE <<r, n>> \in slots <=> n \in 1..w
    BY <1>1, <2>1 DEF Slots, Weight
  <2>2. w <= Reservation
    BY <1>1 DEF Weight
  <2>3. \A u \in slots : u[1] = r => u \in mine
    <3> TAKE u \in slots
    <3> HAVE u[1] = r
    <3>1. u = <<r, u[2]>> /\ u[2] \in 1..Reservation
      BY DEF Slots
    <3>2. u[2] \in 1..w
      BY <2>1, <3>1
    <3> QED BY <3>1, <3>2
  <2>4. \A u \in mine : u \in slots
    <3> TAKE u \in mine
    <3>1. u = <<r, u[2]>> /\ u[2] \in 1..w
      OBVIOUS
    <3>2. u[2] \in 1..Reservation
      BY <1>1, <1>2, <2>2, <3>1
    <3> QED BY <2>1, <3>1, <3>2
  <2> QED BY <2>3, <2>4
<1>7. rest \cap mine = {}
  OBVIOUS
<1>8. IsFiniteSet(mine) /\ Cardinality(mine) = w
  <2>1. IsFiniteSet({r}) /\ Cardinality({r}) = 1
    BY FS_Singleton
  <2>2. IsFiniteSet(1..w) /\ Cardinality(1..w) = w
    BY <1>2, FS_Interval
  <2>3. IsFiniteSet(mine) /\ Cardinality(mine) = Cardinality({r}) * Cardinality(1..w)
    BY <2>1, <2>2, FS_Product, Zenon
  <2>4. Cardinality(mine) = 1 * w
    BY <2>1, <2>2, <2>3, Zenon
  <2> QED BY <1>2, <2>3, <2>4
<1> HIDE DEF slots, rest, mine, w
<1>9. Cardinality(rest \cap mine) = 0
  BY <1>7, FS_EmptySet
<1>10. Cardinality(rest \cup mine) = Cardinality(rest) + w
  <2>1. Cardinality(rest \cup mine)
          = Cardinality(rest) + Cardinality(mine) - Cardinality(rest \cap mine)
    BY <1>5, <1>8, FS_Union, Zenon
  <2> QED BY <1>2, <1>5, <1>8, <1>9, <2>1
<1> QED BY <1>2, <1>4, <1>5, <1>6, <1>10 DEF slots, rest, w

\* Changing one run changes the slots by the difference of its weights.
LEMMA SlotsStep ==
    ASSUME NEW live, NEW live2, NEW bill \in [Runs -> Nat], NEW bill2 \in [Runs -> Nat],
           NEW r \in Runs,
           \A q \in Runs \ {r} : (q \in live <=> q \in live2) /\ bill[q] = bill2[q]
    PROVE  /\ Cardinality(Slots(live, bill)) \in Nat
           /\ Cardinality(Slots(live2, bill2)) + Weight(live, bill, r)
                = Cardinality(Slots(live, bill)) + Weight(live2, bill2, r)
<1> DEFINE rest == {u \in Slots(live, bill) : u[1] # r}
           rest2 == {u \in Slots(live2, bill2) : u[1] # r}
<1>1. rest = rest2
  BY DEF Slots
<1>2. /\ Cardinality(rest) \in Nat /\ Weight(live, bill, r) \in Nat
      /\ Cardinality(Slots(live, bill)) = Cardinality(rest) + Weight(live, bill, r)
  BY SlotsSize
<1>3. /\ Weight(live2, bill2, r) \in Nat
      /\ Cardinality(Slots(live2, bill2)) = Cardinality(rest2) + Weight(live2, bill2, r)
  BY SlotsSize
<1> HIDE DEF rest, rest2
<1> QED BY <1>1, <1>2, <1>3

\* With fewer live runs less has to be covered.
LEMMA SlotsShrink ==
    ASSUME NEW live, NEW live2, NEW bill \in [Runs -> Nat], live2 \subseteq live
    PROVE  /\ Cardinality(Slots(live2, bill)) \in Nat
           /\ Cardinality(Slots(live, bill)) \in Nat
           /\ Cardinality(Slots(live2, bill)) <= Cardinality(Slots(live, bill))
<1>1. 1 \in Runs
  BY BatchAssumption DEF Runs
<1>2. IsFiniteSet(Slots(live, bill)) /\ IsFiniteSet(Slots(live2, bill))
  BY <1>1, SlotsSize
<1>3. Slots(live2, bill) \subseteq Slots(live, bill)
  BY DEF Slots
<1> QED BY <1>2, <1>3, FS_Subset, FS_CardinalityType

LEMMA PendingIsNat == Pending \in Nat /\ Pending' \in Nat
  BY BatchAssumption DEF Pending

LEMMA Sums ==
    ASSUME NEW old \in Nat, NEW new \in Nat, NEW v \in Nat, NEW w \in Nat, NEW p \in Nat,
           NEW q \in Nat, NEW t \in Nat, new + v = old + w, old + p <= t, w + q <= v + p
    PROVE  new + q <= t
  OBVIOUS

\* A step on the account of one run, or of the reservation that is pending.
LEMMA Pays ==
    ASSUME LedgerInv, LedgerInv', Covered, spent \in [Runs -> Nat], spent' \in [Runs -> Nat],
           NEW r \in Runs,
           \A q \in Runs \ {r} : (q \in Live <=> q \in Live') /\ spent[q] = spent'[q],
           Total(memory') + Weight(Live, spent, r) + Pending
             >= Total(memory) + Weight(Live', spent', r) + Pending',
           \/ file' = memory'
           \/ /\ file' = file
              /\ Weight(Live', spent', r) + Pending' <= Weight(Live, spent, r) + Pending
    PROVE  Covered'
<1> DEFINE old == Cardinality(Slots(Live, spent))
           new == Cardinality(Slots(Live', spent'))
           v == Weight(Live, spent, r)
           w == Weight(Live', spent', r)
<1>1. old \in Nat /\ new + v = old + w
  BY SlotsStep
<1>2. v \in Nat /\ w \in Nat /\ new \in Nat
  <2>1. new \in Nat
    BY SlotsStep
  <2> QED BY <2>1, SlotsSize
<1>3. /\ Total(memory) \in Nat /\ Total(file) \in Nat
      /\ Total(memory') \in Nat /\ Total(file') \in Nat
  BY DEF LedgerInv, Sound, Total
<1>4. Owed = old + Pending /\ Owed' = new + Pending'
  BY DEF Owed, Slots
<1> HIDE DEF old, new, v, w
<1>5. old + Pending <= Total(memory) /\ old + Pending <= Total(file)
  BY <1>4 DEF Covered
<1>6. new + Pending' <= Total(memory')
  BY <1>1, <1>2, <1>3, <1>5, PendingIsNat DEF v, w
<1>7. file' = file => new + Pending' <= Total(file')
  <2>1. CASE file' = memory'
    BY <1>6, <2>1
  <2>2. CASE file' = file /\ w + Pending' <= v + Pending
    <3>1. ASSUME file' = file PROVE Total(file') = Total(file)
      BY <3>1
    <3>2. new + Pending' <= Total(file)
      <4> DEFINE p == Pending
                 q == Pending'
                 t == Total(file)
      <4>1. p \in Nat /\ q \in Nat /\ t \in Nat
        BY <1>3, PendingIsNat
      <4>2. old + p <= t
        BY <1>5
      <4>3. w + q <= v + p
        BY <2>2
      <4> HIDE DEF p, q, t
      <4>4. new + q <= t
        BY <1>1, <1>2, <4>1, <4>2, <4>3, Sums
      <4> QED BY <4>4 DEF q, t
    <3> QED BY <3>1, <3>2
  <2> QED BY <2>1, <2>2 DEF v, w
<1>8. Total(file)' = Total(file') /\ Total(memory)' = Total(memory')
  BY DEF Total
<1> QED BY <1>4, <1>6, <1>7, <1>8 DEF Covered

\* A step that leaves the balances alone and asks for no more.
LEMMA OwesNoMore ==
    ASSUME LedgerInv, Covered, spent \in [Runs -> Nat], UNCHANGED spent,
           UNCHANGED <<memory, file>> \/ (memory' = file /\ UNCHANGED file),
           Live' \subseteq Live, Pending' <= Pending
    PROVE  Covered'
<1>1. /\ Cardinality(Slots(Live', spent)) \in Nat /\ Cardinality(Slots(Live, spent)) \in Nat
      /\ Cardinality(Slots(Live', spent)) <= Cardinality(Slots(Live, spent))
  BY SlotsShrink
<1>2. Owed' = Cardinality(Slots(Live', spent)) + Pending'
  BY DEF Owed, Slots
<1>3. Total(memory) \in Nat /\ Total(file) \in Nat
  BY DEF LedgerInv, Sound, Total
<1>4. Owed' <= Owed /\ Owed \in Nat /\ Owed' \in Nat
  BY <1>1, <1>2, PendingIsNat DEF Owed
<1> QED BY <1>3, <1>4 DEF Covered, Total

\* A step that is the affair of run r.
Alone(r) ==
    \A q \in Runs \ {r} : /\ task'[q] = task[q] /\ error'[q] = error[q] /\ spent'[q] = spent[q]
                          /\ q \in holds' <=> q \in holds

LEMMA HeldKept ==
    ASSUME HeldInv, NEW r \in Runs, Alone(r), holds' \subseteq Runs,
           error' \in [Runs -> {"none", "pre", "known", "unknown"}],
           task'[r] \in Unsettled => r \in holds',
           task'[r] = "caught" /\ error'[r] = "pre" => spent'[r] = 0
    PROVE  HeldInv' /\ \A q \in Runs \ {r} : (q \in Live <=> q \in Live') /\ spent[q] = spent'[q]
  BY DEF HeldInv, Alone, Live

\* A step of executeRun that does not touch the ledger.
LEMMA GoesOn ==
    ASSUME RunInv, LedgerInv, CoverInv, NEW r \in Runs, NEW from, NEW next \in Steps,
           NEW kind \in {"pre", "known", "unknown"},
           task[r] = from, task' = [task EXCEPT ![r] = next],
           from # "caught", next \in Unsettled => from \in Unsettled,
           \/ error' = error /\ next # "caught"
           \/ error' = [error EXCEPT ![r] = kind] /\ (kind = "pre" => spent[r] = 0),
           UNCHANGED <<memory, file, at, holds, spent>>
    PROVE  CoverInv'
<1>1. spent \in [Runs -> Nat] /\ task \in [Runs -> Steps]
  BY DEF RunInv, Shapes
<1>2. Alone(r) /\ error' \in [Runs -> {"none", "pre", "known", "unknown"}]
  BY <1>1 DEF Alone, CoverInv, HeldInv
<1>3. /\ task'[r] = next /\ spent' = spent /\ holds' = holds
      /\ task'[r] = "caught" /\ error'[r] = "pre" => spent'[r] = 0
  BY <1>1 DEF CoverInv, HeldInv
<1>4. HeldInv' /\ \A q \in Runs \ {r} : (q \in Live <=> q \in Live') /\ spent[q] = spent'[q]
  BY <1>2, <1>3, HeldKept DEF CoverInv, HeldInv
<1>5. Live' \subseteq Live
  BY <1>3, <1>4 DEF Live, CoverInv, HeldInv
<1>6. Pending' <= Pending
  BY BatchAssumption DEF Pending
<1>7. Covered'
  BY <1>1, <1>3, <1>5, <1>6, OwesNoMore DEF CoverInv
<1> QED BY <1>4, <1>7 DEF CoverInv

\* The reservation of a run is closed, or may be.
LEMMA SettleMoves ==
    ASSUME LedgerInv, NEW actual \in Nat, NEW raises \in BOOLEAN,
           Settle(Reservation, actual, raises)
    PROVE  /\ file' = memory' \/ file' = file
           /\ actual <= Reservation => Total(memory') + Reservation >= Total(memory) + actual
           /\ actual > Reservation => Total(memory') >= Total(memory)
<1>1. /\ Reservation \in Nat /\ memory.accounted \in Nat /\ memory.reserved \in Nat
      /\ Total(memory) = memory.accounted + memory.reserved
  BY BatchAssumption DEF LedgerInv, Sound, Total
<1>2. ASSUME NEW b, NEW c, NEW d, NEW failed, Persist(Balance(b, c, d), failed)
      PROVE  (file' = memory' \/ file' = file) /\ Total(memory') = b + c
  BY <1>2 DEF Persist, Balance, Total
<1>3. CASE /\ actual <= Reservation /\ Reservation <= memory.reserved
           /\ Persist(Balance(memory.accounted + actual, memory.reserved - Reservation,
                              memory.reconciliation), raises)
  <2>1. Total(memory') = memory.accounted + actual + (memory.reserved - Reservation)
    BY <1>2, <1>3
  <2> QED BY <1>1, <1>2, <1>3, <2>1
<1>4. CASE \E failed \in BOOLEAN : Persist(Balance(memory.accounted, memory.reserved, TRUE), failed)
  <2>1. (file' = memory' \/ file' = file) /\ Total(memory') = memory.accounted + memory.reserved
    BY <1>2, <1>4
  <2> QED BY <1>1, <2>1
<1> QED BY <1>3, <1>4 DEF Settle

LEMMA ChargeMoves ==
    ASSUME LedgerInv, NEW tokens \in Nat, NEW raises \in BOOLEAN, ChargeUnverified(tokens, raises)
    PROVE  /\ file' = memory' \/ file' = file
           /\ Total(memory') = Total(memory)
<1>1. /\ memory.accounted \in Nat /\ memory.reserved \in Nat
      /\ Total(memory) = memory.accounted + memory.reserved
  BY DEF LedgerInv, Sound, Total
<1>2. CASE /\ tokens <= memory.reserved
           /\ Persist(Balance(memory.accounted + tokens, memory.reserved - tokens, TRUE), raises)
  <2>1. /\ file' = memory' \/ file' = file
        /\ Total(memory') = (memory.accounted + tokens) + (memory.reserved - tokens)
    BY <1>2 DEF Persist, Balance, Total
  <2> QED BY <1>1, <2>1
<1>3. CASE UNCHANGED <<memory, file, faults>>
  BY <1>3
<1> QED BY <1>2, <1>3 DEF ChargeUnverified

\* What a run still weighs, that has not its reservation any more.
LEMMA WeightOf ==
    ASSUME NEW live, NEW bill \in [Runs -> Nat], NEW r \in Runs
    PROVE  /\ r \in live => Weight(live, bill, r) = Reservation
           /\ r \notin live => Weight(live, bill, r) = IF bill[r] >= Reservation THEN Reservation ELSE bill[r]
           /\ Weight(live, bill, r) \in Nat /\ Weight(live, bill, r) <= Reservation
  BY BatchAssumption DEF Weight

\* A step that closes the account of a run.
LEMMA PaysOff ==
    ASSUME RunInv, LedgerInv, LedgerInv', CoverInv, NEW r \in Runs, Alone(r),
           UNCHANGED <<at, spent>>, r \notin Live', r \in Live,
           NEW raises \in BOOLEAN,
           \/ Settle(Reservation, spent[r], raises)
           \/ ChargeUnverified(Reservation, raises),
           \A q \in Runs \ {r} : (q \in Live <=> q \in Live') /\ spent[q] = spent'[q]
    PROVE  Covered'
<1> DEFINE v == Weight(Live, spent, r)
           w == Weight(Live', spent', r)
<1>1. spent \in [Runs -> Nat] /\ spent' = spent /\ spent[r] \in Nat /\ Reservation \in Nat
  BY BatchAssumption DEF RunInv, Shapes
<1>2. v = Reservation /\ w = IF spent[r] >= Reservation THEN Reservation ELSE spent[r]
  BY <1>1, WeightOf
<1>3. /\ file' = memory' \/ file' = file
      /\ Total(memory') + v >= Total(memory) + w
  <2>1. Total(memory) \in Nat /\ Total(memory') \in Nat
    BY DEF LedgerInv, Sound, Total
  <2>2. CASE Settle(Reservation, spent[r], raises)
    BY <1>1, <1>2, <2>1, <2>2, SettleMoves
  <2>3. CASE ChargeUnverified(Reservation, raises)
    BY <1>1, <1>2, <2>1, <2>3, ChargeMoves
  <2> QED BY <2>2, <2>3
<1>4. Pending' = Pending /\ Pending \in Nat
  BY PendingIsNat DEF Pending
<1>5. v \in Nat /\ w \in Nat /\ w <= v
  BY <1>1, <1>2
<1>6. Total(memory) \in Nat /\ Total(memory') \in Nat
  BY DEF LedgerInv, Sound, Total
<1> HIDE DEF v, w
<1>7. /\ Total(memory') + v + Pending >= Total(memory) + w + Pending'
      /\ w + Pending' <= v + Pending
  BY <1>3, <1>4, <1>5, <1>6
<1> QED BY <1>1, <1>3, <1>7, Pays DEF v, w, CoverInv

LEMMA SettleCovers ==
    ASSUME RunInv, LedgerInv, LedgerInv', CoverInv, NEW r \in Runs, SettleRun(r)
    PROVE  CoverInv'
<1>1. PICK raises \in BOOLEAN :
         /\ Settle(Reservation, spent[r], raises)
         /\ IF raises THEN Catches(r, "written", "unknown")
            ELSE /\ Step(r, "written", "settled")
                 /\ holds' = holds \ {r}
                 /\ UNCHANGED <<error, stop, fatal>>
  BY DEF SettleRun
<1>2. task[r] = "written" /\ UNCHANGED <<at, spent>> /\ task \in [Runs -> Steps]
  BY <1>1 DEF Catches, Step, SettleRun, dispatchVars, RunInv, Shapes
<1>3. r \in Live
  BY <1>2 DEF Live, CoverInv, HeldInv, Unsettled
<1>4. \/ task' = [task EXCEPT ![r] = "caught"] /\ error' = [error EXCEPT ![r] = "unknown"] /\ holds' = holds
      \/ task' = [task EXCEPT ![r] = "settled"] /\ error' = error /\ holds' = holds \ {r}
  BY <1>1 DEF Catches, Step
<1>5. Alone(r) /\ error' \in [Runs -> {"none", "pre", "known", "unknown"}] /\ r \notin Live'
  BY <1>2, <1>4 DEF Alone, Live, CoverInv, HeldInv
<1>6. task'[r] \notin Unsettled /\ ~ (task'[r] = "caught" /\ error'[r] = "pre") /\ holds' \subseteq Runs
  BY <1>2, <1>4 DEF Unsettled, CoverInv, HeldInv
<1>7. HeldInv' /\ \A q \in Runs \ {r} : (q \in Live <=> q \in Live') /\ spent[q] = spent'[q]
  BY <1>5, <1>6, HeldKept DEF CoverInv
<1>8. Covered'
  BY <1>1, <1>2, <1>3, <1>5, <1>7, PaysOff
<1> QED BY <1>7, <1>8 DEF CoverInv

LEMMA CloseCovers ==
    ASSUME RunInv, LedgerInv, LedgerInv', CoverInv, NEW r \in Runs, CloseReservation(r)
    PROVE  CoverInv'
<1>1. PICK raises \in BOOLEAN, next \in {"over", "closing"} :
         /\ \/ error[r] = "pre" /\ Settle(Reservation, 0, raises)
            \/ error[r] = "known" /\ Settle(Reservation, spent[r], raises)
            \/ error[r] = "unknown" /\ ChargeUnverified(Reservation, raises)
         /\ Step(r, "caught", next)
         /\ holds' = holds \ {r}
  BY DEF CloseReservation
<1>2. /\ task[r] = "caught" /\ r \in holds /\ task \in [Runs -> Steps] /\ spent \in [Runs -> Nat]
      /\ UNCHANGED <<at, spent, error>> /\ task' = [task EXCEPT ![r] = next]
  BY <1>1 DEF CloseReservation, Step, dispatchVars, RunInv, Shapes
<1>3. Alone(r) /\ error' \in [Runs -> {"none", "pre", "known", "unknown"}] /\ r \notin Live'
  BY <1>1, <1>2 DEF Alone, Live, CoverInv, HeldInv
<1>4. task'[r] \notin Unsettled /\ ~ (task'[r] = "caught" /\ error'[r] = "pre") /\ holds' \subseteq Runs
  BY <1>1, <1>2 DEF Unsettled, CoverInv, HeldInv
<1>5. HeldInv' /\ \A q \in Runs \ {r} : (q \in Live <=> q \in Live') /\ spent[q] = spent'[q]
  BY <1>3, <1>4, HeldKept DEF CoverInv
<1>6. CASE error[r] = "unknown"
  <2>1. r \notin Live /\ spent' = spent
    BY <1>2, <1>6 DEF Live
  <2>2. Weight(Live', spent', r) = Weight(Live, spent, r) /\ Weight(Live, spent, r) \in Nat
    BY <1>2, <1>3, <2>1, WeightOf
  <2>3. /\ file' = memory' \/ file' = file
        /\ Total(memory') = Total(memory) /\ Total(memory) \in Nat
    BY <1>1, <1>6, ChargeMoves, BatchAssumption DEF LedgerInv, Sound, Total
  <2>4. Pending' = Pending /\ Pending \in Nat
    BY <1>2, PendingIsNat DEF Pending
  <2>5. /\ Total(memory') + Weight(Live, spent, r) + Pending
             >= Total(memory) + Weight(Live', spent', r) + Pending'
        /\ Weight(Live', spent', r) + Pending' <= Weight(Live, spent, r) + Pending
    BY <2>2, <2>3, <2>4
  <2>6. Covered'
    BY <1>2, <1>5, <2>1, <2>3, <2>5, Pays DEF CoverInv
  <2> QED BY <1>5, <2>6 DEF CoverInv
<1>7. CASE error[r] # "unknown"
  <2>1. r \in Live
    BY <1>2, <1>7 DEF Live
  <2>2. Settle(Reservation, spent[r], raises)
    BY <1>1, <1>2, <1>7 DEF CoverInv, HeldInv
  <2>3. Covered'
    BY <1>2, <1>3, <1>5, <2>1, <2>2, PaysOff
  <2> QED BY <1>5, <2>3 DEF CoverInv
<1> QED BY <1>6, <1>7

LEMMA SpendCovers ==
    ASSUME RunInv, LedgerInv, LedgerInv', CoverInv, NEW r \in Runs, Spend(r),
           spent' \in [Runs -> Nat]
    PROVE  CoverInv'
<1>1. /\ task[r] = "executing" /\ UNCHANGED <<memory, file, at, task, error, holds>>
      /\ \A q \in Runs \ {r} : spent'[q] = spent[q]
  BY DEF Spend, Quiet, ledgerVars, dispatchVars, taskVars, RunInv, Shapes
<1>2. r \in Live /\ r \in Live'
  BY <1>1 DEF Live, CoverInv, HeldInv, Unsettled
<1>3. HeldInv' /\ \A q \in Runs \ {r} : (q \in Live <=> q \in Live') /\ spent[q] = spent'[q]
  <2>1. /\ Alone(r) /\ holds' \subseteq Runs
        /\ error' \in [Runs -> {"none", "pre", "known", "unknown"}]
        /\ task'[r] \in Unsettled => r \in holds'
        /\ task'[r] # "caught"
    BY <1>1 DEF Alone, CoverInv, HeldInv
  <2> QED BY <2>1, HeldKept DEF CoverInv
<1>4. spent \in [Runs -> Nat]
  BY DEF RunInv, Shapes
<1>5. Weight(Live, spent, r) = Reservation /\ Weight(Live', spent', r) = Reservation
  BY <1>2, <1>4, WeightOf
<1>6. Pending' = Pending /\ Pending \in Nat /\ Total(memory) \in Nat /\ Reservation \in Nat
  BY <1>1, PendingIsNat, BatchAssumption DEF Pending, LedgerInv, Sound, Total
<1>7. Covered'
  BY <1>1, <1>3, <1>4, <1>5, <1>6, Pays DEF CoverInv
<1> QED BY <1>3, <1>7 DEF CoverInv

LEMMA HandOverCovers ==
    ASSUME RunInv, LedgerInv, LedgerInv', CoverInv, HandOver
    PROVE  CoverInv'
<1> DEFINE r == cursor
<1>1. /\ r \in Runs /\ at = "admitted" /\ at' = "loop"
      /\ UNCHANGED <<memory, file, error, spent>>
      /\ task' = [task EXCEPT ![r] = "preparing"] /\ holds' = holds \cup {r}
  BY DEF HandOver, Quiet, ledgerVars, RunInv, AtCursor, Holding
<1>2. task \in [Runs -> Steps] /\ spent \in [Runs -> Nat] /\ spent' = spent
  BY <1>1 DEF RunInv, Shapes
<1> HIDE DEF r
<1>3. HeldInv' /\ \A q \in Runs \ {r} : (q \in Live <=> q \in Live') /\ spent[q] = spent'[q]
  <2>1. /\ Alone(r) /\ holds' \subseteq Runs
        /\ error' \in [Runs -> {"none", "pre", "known", "unknown"}]
        /\ task'[r] \in Unsettled => r \in holds'
        /\ task'[r] # "caught"
    BY <1>1, <1>2 DEF Alone, CoverInv, HeldInv
  <2> QED BY <1>1, <2>1, HeldKept DEF CoverInv
<1>4. /\ Weight(Live, spent, r) \in Nat
      /\ Weight(Live', spent', r) \in Nat /\ Weight(Live', spent', r) <= Reservation
  BY <1>1, <1>2, WeightOf
<1>5. Pending = Reservation /\ Pending' = 0 /\ Reservation \in Nat
  BY <1>1, BatchAssumption DEF Pending
<1>6. Total(memory) \in Nat
  BY DEF LedgerInv, Sound, Total
<1>7. /\ Total(memory') + Weight(Live, spent, r) + Pending
           >= Total(memory) + Weight(Live', spent', r) + Pending'
      /\ Weight(Live', spent', r) + Pending' <= Weight(Live, spent, r) + Pending
  BY <1>1, <1>4, <1>5, <1>6
<1>8. Covered'
  BY <1>1, <1>2, <1>3, <1>7, Pays DEF CoverInv
<1> QED BY <1>3, <1>8 DEF CoverInv

LEMMA ReserveCovers ==
    ASSUME RunInv, LedgerInv, LedgerInv', CoverInv, ReserveBudget \/ Refund
    PROVE  CoverInv'
<1>1. UNCHANGED <<task, error, holds, spent>>
  BY DEF ReserveBudget, Refund, Dispatch, taskVars
<1>2. HeldInv'
  BY <1>1 DEF CoverInv, HeldInv
<1>3. PICK r \in Runs : r = 1
  BY BatchAssumption DEF Runs
<1>4. /\ spent \in [Runs -> Nat] /\ spent' = spent
      /\ Weight(Live', spent', r) = Weight(Live, spent, r) /\ Weight(Live, spent, r) \in Nat
      /\ \A q \in Runs : q \in Live <=> q \in Live'
  <2>1. Live' = Live /\ spent' = spent
    BY <1>1 DEF Live
  <2> QED BY <2>1, WeightOf DEF RunInv, Shapes
<1>5. /\ Reservation \in Nat /\ memory.accounted \in Nat /\ memory.reserved \in Nat
      /\ Total(memory) = memory.accounted + memory.reserved
  BY BatchAssumption DEF LedgerInv, Sound, Total
<1>6. /\ Total(memory') + Pending >= Total(memory) + Pending'
      /\ file' = memory' \/ (file' = file /\ Pending' <= Pending)
  <2>1. CASE ReserveBudget
    <3>1. PICK admitted, raises \in BOOLEAN :
             /\ Reserve(Reservation, admitted, raises)
             /\ at' = IF raises THEN "draining" ELSE IF admitted THEN "admitted" ELSE "denied"
      BY <2>1 DEF ReserveBudget, Dispatch
    <3>2. Pending = 0
      BY <2>1 DEF ReserveBudget, Pending
    <3>3. CASE UNCHANGED <<memory, file>> /\ ~ admitted
      BY <1>5, <3>1, <3>2, <3>3 DEF Pending
    <3>4. CASE /\ admitted = ~ raises
               /\ Persist(Balance(memory.accounted, memory.reserved + Reservation, FALSE), raises)
      <4>1. Total(memory') = memory.accounted + (memory.reserved + Reservation)
        BY <3>4 DEF Persist, Balance, Total
      <4>2. CASE raises
        <5>1. Pending' = 0 /\ file' = file
          BY <3>1, <3>4, <4>2 DEF Pending, Persist
        <5> QED BY <1>5, <3>2, <4>1, <5>1
      <4>3. CASE ~ raises
        <5>1. Pending' = Reservation /\ file' = memory'
          BY <3>1, <3>4, <4>3 DEF Pending, Persist
        <5> QED BY <1>5, <3>2, <4>1, <5>1
      <4> QED BY <4>2, <4>3
    <3> QED BY <3>1, <3>3, <3>4 DEF Reserve
  <2>2. CASE Refund
    <3>1. PICK raises \in BOOLEAN : Settle(Reservation, 0, raises)
      BY <2>2 DEF Refund
    <3>2. /\ file' = memory' \/ file' = file
          /\ Total(memory') + Reservation >= Total(memory) + 0
      BY <1>5, <3>1, SettleMoves
    <3>3. Pending = Reservation /\ Pending' = 0
      BY <2>2 DEF Refund, Dispatch, Pending
    <3>4. Total(memory') \in Nat
      BY DEF LedgerInv, Sound, Total
    <3> QED BY <1>5, <3>2, <3>3, <3>4
  <2> QED BY <2>1, <2>2
<1>7. /\ Pending \in Nat /\ Pending' \in Nat /\ Total(memory) \in Nat /\ Total(memory') \in Nat
  BY PendingIsNat DEF LedgerInv, Sound, Total
<1>8. /\ Total(memory') + Weight(Live, spent, r) + Pending
           >= Total(memory) + Weight(Live', spent', r) + Pending'
      /\ \/ file' = memory'
         \/ /\ file' = file
            /\ Weight(Live', spent', r) + Pending' <= Weight(Live, spent, r) + Pending
  BY <1>4, <1>6, <1>7
<1>9. Covered'
  BY <1>4, <1>8, Pays DEF CoverInv
<1> QED BY <1>2, <1>9 DEF CoverInv

LEMMA TaskCovers ==
    ASSUME RunInv, LedgerInv, LedgerInv', CoverInv, NEW r \in Runs, Task(r)
    PROVE  CoverInv'
<1> USE DEF Unsettled, Steps
<1>1. ASSUME NEW from \in Unsettled, NEW next \in Steps \ {"caught"}, NEW kind \in {"known", "unknown"},
             NEW to, Marks(r, from, to, next, kind)
      PROVE  CoverInv'
  <2>1. /\ task[r] = from /\ UNCHANGED <<memory, file, at, holds, spent>>
        /\ \/ task' = [task EXCEPT ![r] = next] /\ error' = error
           \/ task' = [task EXCEPT ![r] = "caught"] /\ error' = [error EXCEPT ![r] = kind]
    BY <1>1 DEF Marks, Catches, Step, dispatchVars, ledgerVars
  <2>2. CASE task' = [task EXCEPT ![r] = next] /\ error' = error
    BY <1>1, <2>1, <2>2, GoesOn
  <2>3. CASE task' = [task EXCEPT ![r] = "caught"] /\ error' = [error EXCEPT ![r] = kind]
    BY <1>1, <2>1, <2>3, GoesOn
  <2> QED BY <2>1, <2>2, <2>3
<1>2. CASE Prepare(r) \/ Execute(r) \/ AgentFinished(r) \/ Evaluating(r)
  BY <1>1, <1>2 DEF Prepare, Execute, AgentFinished, Evaluating
<1>3. ASSUME NEW from \in Unsettled, NEW kind \in {"pre", "known", "unknown"},
             Catches(r, from, kind), kind = "pre" => spent[r] = 0, UNCHANGED <<memory, file, spent>>
      PROVE  CoverInv'
  BY <1>3, GoesOn DEF Catches, Step, dispatchVars
<1>4. CASE AgentFails(r) \/ EvaluationFails(r)
  BY <1>3, <1>4 DEF AgentFails, EvaluationFails, Quiet, ledgerVars
<1>5. CASE Returns(r)
  BY <1>5, GoesOn DEF Returns, Step, Quiet, ledgerVars, dispatchVars
<1>6. CASE WriteResult(r)
  <2>1. CASE Step(r, "returned", "written") /\ UNCHANGED <<error, holds>>
    BY <1>6, <2>1, GoesOn DEF WriteResult, Step, ledgerVars, dispatchVars
  <2>2. CASE Catches(r, "returned", "unknown")
    BY <1>3, <1>6, <2>2 DEF WriteResult, ledgerVars
  <2> QED BY <1>6, <2>1, <2>2 DEF WriteResult
<1>7. CASE Complete(r)
  <2>1. /\ task[r] = "settled" /\ UNCHANGED <<memory, file, at, holds, spent>>
        /\ \/ task' = [task EXCEPT ![r] = "closing"] /\ error' = [error EXCEPT ![r] = "unknown"]
           \/ task' = [task EXCEPT ![r] = "over"] /\ error' = [error EXCEPT ![r] = @]
    BY <1>7 DEF Complete, Step, ledgerVars, dispatchVars
  <2>2. [error EXCEPT ![r] = @] = error
    BY DEF CoverInv, HeldInv
  <2> QED BY <2>1, <2>2, GoesOn
<1>8. CASE Close(r)
  BY <1>8, GoesOn DEF Close, Step, ledgerVars, dispatchVars
<1>9. CASE SettleRun(r) \/ CloseReservation(r)
  BY <1>9, SettleCovers, CloseCovers
<1> QED BY <1>2, <1>4, <1>5, <1>6, <1>7, <1>8, <1>9 DEF Task

\* Steps that concern no run, and the end of a process.
LEMMA QuietCovers ==
    ASSUME RunInv, LedgerInv, CoverInv, UNCHANGED <<task, error, holds, spent>>,
           UNCHANGED <<memory, file>> \/ (memory' = file /\ UNCHANGED file),
           at' \in {"admitted", "refunding", "cancelling"} =>
              at \in {"admitted", "refunding", "cancelling"}
    PROVE  CoverInv'
<1>1. HeldInv'
  BY DEF CoverInv, HeldInv
<1>2. Live' = Live /\ Pending' <= Pending /\ spent \in [Runs -> Nat]
  BY BatchAssumption DEF Live, Pending, RunInv, Shapes
<1>3. Covered'
  BY <1>2, OwesNoMore DEF CoverInv
<1> QED BY <1>1, <1>3 DEF CoverInv

LEMMA EndCovers ==
    ASSUME RunInv, LedgerInv, CoverInv, Ends, UNCHANGED <<file, spent>>
    PROVE  CoverInv'
<1>1. /\ task' = [r \in Runs |-> "none"] /\ error' = [r \in Runs |-> "none"] /\ holds' = {}
      /\ at' = "down" /\ memory' = file
  BY DEF Ends, Fresh
<1>2. HeldInv'
  BY <1>1 DEF CoverInv, HeldInv, Unsettled
<1>3. Live' \subseteq Live /\ Pending' <= Pending /\ spent \in [Runs -> Nat]
  BY <1>1, BatchAssumption DEF Live, Pending, RunInv, Shapes
<1>4. Covered'
  BY <1>1, <1>3, OwesNoMore DEF CoverInv
<1> QED BY <1>2, <1>4 DEF CoverInv

LEMMA ChargeCovers ==
    ASSUME RunInv, LedgerInv, LedgerInv', CoverInv, ChargeInterrupted
    PROVE  CoverInv'
<1>1. /\ UNCHANGED <<task, error, holds, spent>>
      /\ at = "charging" /\ at' \in {"draining", "loop"}
      /\ \E raises \in BOOLEAN : ChargeUnverified(memory.reserved, raises)
  BY DEF ChargeInterrupted, taskVars
<1>2. HeldInv'
  BY <1>1 DEF CoverInv, HeldInv
<1>3. memory.reserved \in Nat /\ Total(memory) \in Nat
  BY DEF LedgerInv, Sound, Total
<1>4. (file' = memory' \/ file' = file) /\ Total(memory') = Total(memory)
  BY <1>1, <1>3, ChargeMoves
<1>5. PICK r \in Runs : r = 1
  BY BatchAssumption DEF Runs
<1>6. /\ Weight(Live', spent', r) = Weight(Live, spent, r) /\ Weight(Live, spent, r) \in Nat
      /\ \A q \in Runs : q \in Live <=> q \in Live'
      /\ spent \in [Runs -> Nat] /\ spent' = spent
  <2>1. Live' = Live /\ spent' = spent
    BY <1>1 DEF Live
  <2> QED BY <2>1, WeightOf DEF RunInv, Shapes
<1>7. Pending' = 0 /\ Pending = 0
  BY <1>1 DEF Pending
<1>8. /\ Total(memory') + Weight(Live, spent, r) + Pending
           >= Total(memory) + Weight(Live', spent', r) + Pending'
      /\ Weight(Live', spent', r) + Pending' <= Weight(Live, spent, r) + Pending
  BY <1>3, <1>4, <1>6, <1>7
<1>9. Covered'
  BY <1>4, <1>6, <1>8, Pays DEF CoverInv
<1> QED BY <1>2, <1>9 DEF CoverInv

LEMMA CoverStep ==
    ASSUME RunInv, LedgerInv, LedgerInv', CoverInv, [Next]_vars, spent' \in [Runs -> Nat]
    PROVE  CoverInv'
<1>1. CASE Start \/ OpenStore \/ Register \/ AcquireBudget \/ Cancel \/ RemoveStaleLeases \/ UNCHANGED vars
  BY <1>1, QuietCovers DEF Start, OpenStore, Register, AcquireBudget, Cancel, RemoveStaleLeases,
     vars, ledgerVars, taskVars, dispatchVars, Quiet
<1>2. CASE Pick \/ Denied \/ OneIsOver \/ TakeBack \/ RefuseRun
  BY <1>2, QuietCovers DEF Pick, Denied, OneIsOver, TakeBack, RefuseRun, Dispatch, Quiet, ledgerVars, taskVars
<1>3. CASE OpenFails \/ Release \/ Crash
  BY <1>3, EndCovers DEF OpenFails, Release, Crash
<1>4. CASE ChargeInterrupted
  BY <1>4, ChargeCovers
<1>5. CASE ReserveBudget \/ Refund
  BY <1>5, ReserveCovers
<1>6. CASE HandOver
  BY <1>6, HandOverCovers
<1>7. ASSUME NEW r \in Runs, Task(r) PROVE CoverInv'
  BY <1>7, TaskCovers
<1>8. ASSUME NEW r \in Runs, Spend(r) PROVE CoverInv'
  BY <1>8, SpendCovers
<1> QED BY <1>1, <1>2, <1>3, <1>4, <1>5, <1>6, <1>7, <1>8 DEF Next, Batch

LEMMA CoverInit == Init => RunInv /\ LedgerInv /\ CoverInv
<1>1. ASSUME Init PROVE LedgerInv /\ CoverInv
  <2>1. LedgerInv
    BY <1>1, BudgetAssumption DEF Init, LedgerInit, Empty, LedgerInv, Sound
  <2>2. HeldInv
    BY <1>1 DEF Init, HeldInv, Unsettled
  <2>3. Slots(Live, spent) = {}
    BY <1>1, BatchAssumption DEF Init, Slots, Live
  <2>4. Owed = 0
    BY <1>1, <2>3, FS_EmptySet DEF Owed, Init, Pending
  <2>5. Covered
    BY <2>1, <2>4 DEF Covered, Total, LedgerInv, Sound
  <2> QED BY <2>1, <2>2, <2>5 DEF CoverInv
<1> QED BY <1>1, RunInvInit

\* LedgerCoversSpending in every reachable state: whichever writes of the ledger
\* fail, whichever reservation is settled twice or for another run, and whenever
\* the process is killed, what was billed is in the file.
THEOREM SpendingIsCovered == Spec => []LedgerCoversSpending
<1> DEFINE I == RunInv /\ LedgerInv /\ CoverInv
<1>1. Init => I
  BY CoverInit
<1>2. I /\ [Next]_vars => I'
  <2>1. ASSUME I, [Next]_vars PROVE I'
    <3>1. spent \in [Runs -> Nat]
      BY <2>1 DEF RunInv, Shapes
    <3>2. RunInv' /\ LedgerInv' /\ spent' \in [Runs -> Nat]
      BY <2>1, <3>1, RunInvStep, LedgerKept, SpentIsNat
    <3> QED BY <2>1, <3>2, CoverStep
  <2> QED BY <2>1
<1>3. I => LedgerCoversSpending
  <2>1. ASSUME I PROVE LedgerCoversSpending
    <3>1. spent \in [Runs -> Nat] /\ 1 \in Runs
      BY <2>1, BatchAssumption DEF RunInv, Shapes, Runs
    <3>2. Billed = Slots({}, spent)
      BY DEF Billed, Slots
    <3>3. /\ Cardinality(Billed) \in Nat /\ Cardinality(Slots(Live, spent)) \in Nat
          /\ Cardinality(Billed) <= Cardinality(Slots(Live, spent))
      BY <3>1, <3>2, SlotsShrink
    <3>4. Pending \in Nat /\ Owed <= file.accounted + file.reserved
          /\ file.accounted + file.reserved \in Nat
      BY <2>1, PendingIsNat DEF CoverInv, Covered, Total, LedgerInv, Sound
    <3> QED BY <3>3, <3>4 DEF Owed, LedgerCoversSpending
  <2> QED BY <2>1
<1> HIDE DEF I
<1> QED BY <1>1, <1>2, <1>3, PTL DEF Spec
-----------------------------------------------------------------------------
(* Nothing stays reserved.                                                  *)

\* A failed run whose usage is unknown: its settlement may have changed the memory
\* and not the file, until its finally block charges it.
Unsure == {r \in holds : task[r] = "caught" /\ error[r] = "unknown"}

\* While executeBatch has no error to raise, every reserved token belongs to a run
\* whose reservation is not null, or to the run it is about to start, and only a
\* run in Unsure leaves the file behind the memory.
LeakInv ==
    at \in Dispatching /\ ~ fatal =>
        /\ memory.reserved <= Reservation * Cardinality(holds) + Pending
        /\ file = memory \/ Unsure # {}

LEMMA HoldsIsFinite ==
    ASSUME WaitInv
    PROVE  /\ IsFiniteSet(holds) /\ Cardinality(holds) \in Nat
           /\ Reservation * Cardinality(holds) \in Nat
<1>1. holds \subseteq Runs
  BY DEF WaitInv
<1> QED BY <1>1, ActiveIsFinite, FS_Subset, FS_CardinalityType, BatchAssumption

\* One reservation more, or less.
LEMMA HoldsOneLess ==
    ASSUME WaitInv, NEW r \in holds
    PROVE  /\ Reservation * Cardinality(holds \ {r}) \in Nat
           /\ Reservation * Cardinality(holds) = Reservation * Cardinality(holds \ {r}) + Reservation
<1>1. Cardinality(holds \ {r}) = Cardinality(holds) - 1 /\ Cardinality(holds) \in Nat
      /\ Cardinality(holds \ {r}) \in Nat
  BY HoldsIsFinite, FS_RemoveElement, FS_CardinalityType
<1> DEFINE n == Cardinality(holds \ {r})
<1>2. n \in Nat /\ Cardinality(holds) = n + 1
  BY <1>1
<1> HIDE DEF n
<1>3. Reservation * (n + 1) = Reservation * n + Reservation /\ Reservation * n \in Nat
  BY <1>2, BatchAssumption
<1> QED BY <1>2, <1>3 DEF n

LEMMA HoldsOneMore ==
    ASSUME WaitInv, NEW r, r \notin holds
    PROVE  Reservation * Cardinality(holds \cup {r}) = Reservation * Cardinality(holds) + Reservation
<1>1. Cardinality(holds \cup {r}) = Cardinality(holds) + 1
  BY HoldsIsFinite, FS_AddElement
<1>2. Reservation * (Cardinality(holds) + 1) = Reservation * Cardinality(holds) + Reservation
  BY HoldsIsFinite, BatchAssumption
<1> QED BY <1>1, <1>2

\* Steps that leave the balances and the reservations alone.
LEMMA LeakSame ==
    ASSUME LedgerInv, WaitInv, LeakInv, UNCHANGED <<memory, file, task, error, holds>>,
           at' \in Dispatching /\ ~ fatal' => at \in Dispatching /\ ~ fatal /\ Pending <= Pending'
    PROVE  LeakInv'
<1>1. Unsure' = Unsure
  BY DEF Unsure
<1> SUFFICES ASSUME at' \in Dispatching, ~ fatal'
             PROVE  /\ memory'.reserved <= Reservation * Cardinality(holds') + Pending'
                    /\ file' = memory' \/ Unsure' # {}
  BY DEF LeakInv
<1>2. memory.reserved <= Reservation * Cardinality(holds) + Pending /\ Pending <= Pending'
  BY DEF LeakInv
<1>3. memory.reserved \in Nat
  BY DEF LedgerInv, Sound
<1>4. memory'.reserved <= Reservation * Cardinality(holds') + Pending'
  BY <1>2, <1>3, HoldsIsFinite, PendingIsNat
<1> QED BY <1>1, <1>4 DEF LeakInv

\* Closing a reservation.
LEMMA SettleFrees ==
    ASSUME LedgerInv, NEW actual \in Nat, NEW raises \in BOOLEAN, Settle(Reservation, actual, raises)
    PROVE  /\ memory'.reserved \in Nat /\ memory'.reserved <= memory.reserved
           /\ ~ raises => /\ file' = memory' /\ Reservation <= memory.reserved
                          /\ memory'.reserved = memory.reserved - Reservation
<1>1. Reservation \in Nat /\ memory.reserved \in Nat
  BY BatchAssumption DEF LedgerInv, Sound
<1> QED BY <1>1 DEF Settle, Persist, Balance

LEMMA ChargeFrees ==
    ASSUME LedgerInv, NEW tokens \in Nat, NEW raises \in BOOLEAN, ChargeUnverified(tokens, raises)
    PROVE  ~ raises => /\ file' = memory' /\ tokens <= memory.reserved
                       /\ memory'.reserved = memory.reserved - tokens
<1>1. memory.reserved \in Nat
  BY DEF LedgerInv, Sound
<1>2. CASE /\ tokens <= memory.reserved
           /\ Persist(Balance(memory.accounted + tokens, memory.reserved - tokens, TRUE), raises)
  <2>1. memory'.reserved = memory.reserved - tokens
    BY <1>2 DEF Persist, Balance
  <2>2. ~ raises => file' = memory'
    BY <1>2 DEF Persist
  <2> QED BY <1>2, <2>1, <2>2
<1> QED BY <1>2 DEF ChargeUnverified

LEMMA LeakBatch == ASSUME RunInv, LedgerInv, WaitInv, LeakInv, Batch \/ Start PROVE LeakInv'
<1> USE DEF Dispatching, Holding
<1>n. Reservation \in Nat \ {0} /\ memory.reserved \in Nat /\ file.reserved \in Nat
  BY BatchAssumption DEF LedgerInv, Sound
<1>1. CASE Start \/ OpenFails \/ Release \/ OpenStore \/ Register
  <2>1. at' \notin Dispatching
    BY <1>1 DEF Start, OpenFails, Release, OpenStore, Register, Ends
  <2> QED BY <2>1 DEF LeakInv
<1>2. CASE Pick \/ Denied \/ OneIsOver \/ TakeBack \/ RefuseRun
  <2>1. UNCHANGED <<memory, file, task, error, holds>>
    BY <1>2 DEF Pick, Denied, OneIsOver, TakeBack, RefuseRun, Dispatch, Quiet, ledgerVars, taskVars
  <2>2. at \in Dispatching
    BY <1>2 DEF Pick, Denied, OneIsOver, TakeBack, RefuseRun
  <2>3. ~ fatal' => ~ fatal
    BY <1>2 DEF Pick, Denied, OneIsOver, TakeBack, RefuseRun
  <2>4. Pending' = Pending
    <3>1. CASE TakeBack
      BY <3>1 DEF TakeBack, Dispatch, Pending
    <3>2. CASE Pick \/ Denied \/ OneIsOver \/ RefuseRun
      <4>1. /\ at \notin {"admitted", "refunding", "cancelling"}
            /\ at' \notin {"admitted", "refunding", "cancelling"}
        BY <3>2 DEF Pick, Denied, OneIsOver, RefuseRun, Dispatch
      <4> QED BY <4>1 DEF Pending
    <3> QED BY <1>2, <3>1, <3>2
  <2> QED BY <2>1, <2>2, <2>3, <2>4, PendingIsNat, LeakSame
<1>3. CASE AcquireBudget
  <2>1. /\ at = "leasing" /\ UNCHANGED holds /\ memory' = file /\ file' = file
        /\ at' \in Dispatching => file.reserved = 0
    BY <1>3, <1>n DEF AcquireBudget, taskVars
  <2>2. holds' = {}
    BY <2>1 DEF WaitInv, Unsettled
  <2>3. Cardinality(holds') = 0 /\ Pending' \in Nat
    BY <2>2, FS_EmptySet, PendingIsNat
  <2> QED BY <1>n, <2>1, <2>3 DEF LeakInv
<1>4. CASE ChargeInterrupted
  <2>1. PICK raises \in BOOLEAN :
          /\ ChargeUnverified(memory.reserved, raises)
          /\ fatal' = raises
    BY <1>4 DEF ChargeInterrupted
  <2>2. ~ raises => memory'.reserved = 0 /\ file' = memory'
    BY <1>n, <2>1, ChargeFrees
  <2>3. holds' = {}
    BY <1>4 DEF ChargeInterrupted, taskVars, WaitInv, Unsettled
  <2>4. Cardinality(holds') = 0 /\ Pending' \in Nat
    BY <2>3, FS_EmptySet, PendingIsNat
  <2> QED BY <1>n, <2>1, <2>2, <2>4 DEF LeakInv
<1>5. CASE ReserveBudget
  <2>1. PICK admitted \in BOOLEAN, raises \in BOOLEAN :
          /\ Reserve(Reservation, admitted, raises)
          /\ Dispatch(IF raises THEN "draining" ELSE IF admitted THEN "admitted" ELSE "denied")
          /\ fatal' = (fatal \/ raises)
    BY <1>5 DEF ReserveBudget
  <2>2. UNCHANGED <<task, error, holds>> /\ Pending = 0 /\ at \in Dispatching
    BY <1>5, <2>1 DEF ReserveBudget, Dispatch, taskVars, Pending
  <2>3. CASE UNCHANGED <<memory, file>>
    <3>1. ~ fatal' => ~ fatal
      BY <2>1
    <3>2. Pending <= Pending'
      BY <2>2, PendingIsNat
    <3> QED BY <2>2, <2>3, <3>1, <3>2, LeakSame
  <2>4. CASE raises
    BY <2>1, <2>4 DEF LeakInv
  <2>5. CASE /\ ~ raises /\ admitted
             /\ Persist(Balance(memory.accounted, memory.reserved + Reservation, FALSE), raises)
    <3>1. memory'.reserved = memory.reserved + Reservation /\ file' = memory'
      BY <2>5 DEF Persist, Balance
    <3>2. Pending' = Reservation
      BY <2>1, <2>5 DEF Dispatch, Pending
    <3>3. ~ fatal' => memory.reserved <= Reservation * Cardinality(holds) + 0
      BY <2>1, <2>2 DEF LeakInv
    <3>4. Reservation * Cardinality(holds') = Reservation * Cardinality(holds)
      BY <2>2
    <3>5. ~ fatal' => memory'.reserved <= Reservation * Cardinality(holds') + Pending'
      BY <1>n, <3>1, <3>2, <3>3, <3>4, HoldsIsFinite
    <3> QED BY <3>1, <3>5 DEF LeakInv
  <2> QED BY <2>1, <2>3, <2>4, <2>5 DEF Reserve
<1>6. CASE Refund
  <2>1. PICK raises \in BOOLEAN : Settle(Reservation, 0, raises) /\ fatal' = (fatal \/ raises)
    BY <1>6 DEF Refund
  <2>2. UNCHANGED <<task, error, holds>> /\ Pending = Reservation /\ Pending' = 0 /\ at \in Dispatching
    BY <1>6 DEF Refund, Dispatch, taskVars, Pending
  <2>3. CASE raises
    BY <2>1, <2>3 DEF LeakInv
  <2>4. CASE ~ raises
    <3>1. /\ file' = memory' /\ memory'.reserved = memory.reserved - Reservation
          /\ Reservation <= memory.reserved
      BY <2>1, <2>4 DEF Settle, Persist, Balance
    <3>2. ~ fatal' => memory.reserved <= Reservation * Cardinality(holds) + Reservation
      BY <2>1, <2>2 DEF LeakInv
    <3>3. ~ fatal' => memory'.reserved <= Reservation * Cardinality(holds') + Pending'
      BY <1>n, <2>2, <3>1, <3>2, HoldsIsFinite
    <3> QED BY <3>1, <3>3 DEF LeakInv
  <2> QED BY <2>3, <2>4
<1>7. CASE HandOver
  <2>1. /\ cursor \in Runs /\ UNCHANGED <<memory, file, error, fatal>>
        /\ Pending = Reservation /\ Pending' = 0 /\ at \in Dispatching
        /\ task' = [task EXCEPT ![cursor] = "preparing"] /\ holds' = holds \cup {cursor}
    BY <1>7 DEF HandOver, RunInv, AtCursor, Quiet, ledgerVars, flags, Pending
  <2>2. cursor \notin holds
    <3>1. cursor >= cursor
      BY DEF RunInv, Shapes
    <3>2. task[cursor] = "none"
      BY <2>1, <3>1 DEF RunInv, Ahead
    <3> QED BY <3>2 DEF WaitInv, Unsettled
  <2>3. Reservation * Cardinality(holds') = Reservation * Cardinality(holds) + Reservation
    BY <2>1, <2>2, HoldsOneMore
  <2>4. Unsure \subseteq Unsure'
    BY <2>1, <2>2 DEF Unsure
  <2>5. ~ fatal' => memory'.reserved <= Reservation * Cardinality(holds') + Pending'
    BY <1>n, <2>1, <2>3, HoldsIsFinite DEF LeakInv
  <2> QED BY <2>1, <2>4, <2>5 DEF LeakInv
<1> QED BY <1>1, <1>2, <1>3, <1>4, <1>5, <1>6, <1>7 DEF Batch

\* Steps of a run: it goes on with its reservation,
LEMMA LeakGoesOn ==
    ASSUME LedgerInv, WaitInv, LeakInv, NEW r \in Runs, UNCHANGED <<holds, at>>,
           ~ fatal' => ~ fatal /\ \/ UNCHANGED <<memory, file>>
                                  \/ /\ r \in holds /\ task'[r] = "caught" /\ error'[r] = "unknown"
                                     /\ memory'.reserved \in Nat
                                     /\ memory'.reserved <= memory.reserved,
           \A q \in Runs \ {r} : task'[q] = task[q] /\ error'[q] = error[q],
           r \notin Unsure
    PROVE  LeakInv'
<1> SUFFICES ASSUME at' \in Dispatching, ~ fatal'
             PROVE  /\ memory'.reserved <= Reservation * Cardinality(holds') + Pending'
                    /\ file' = memory' \/ Unsure' # {}
  BY DEF LeakInv
<1>1. /\ memory.reserved <= Reservation * Cardinality(holds) + Pending
      /\ file = memory \/ Unsure # {}
  BY DEF LeakInv
<1>2. Pending' = Pending /\ holds' = holds /\ memory.reserved \in Nat
  BY DEF Pending, LedgerInv, Sound
<1>3. Unsure \subseteq Unsure'
  BY <1>2 DEF Unsure, WaitInv
<1>4. CASE UNCHANGED <<memory, file>>
  BY <1>1, <1>2, <1>3, <1>4
<1>5. CASE /\ r \in holds /\ task'[r] = "caught" /\ error'[r] = "unknown"
           /\ memory'.reserved \in Nat /\ memory'.reserved <= memory.reserved
  <2>1. r \in Unsure'
    BY <1>2, <1>5 DEF Unsure
  <2>2. memory'.reserved <= Reservation * Cardinality(holds') + Pending'
    BY <1>1, <1>2, <1>5, HoldsIsFinite, PendingIsNat
  <2> QED BY <2>1, <2>2
<1> QED BY <1>4, <1>5

\* or gives it up.
LEMMA LeakGivesUp ==
    ASSUME LedgerInv, WaitInv, LeakInv, NEW r \in holds, holds' = holds \ {r}, UNCHANGED at,
           ~ fatal' => /\ ~ fatal /\ file' = memory'
                       /\ memory'.reserved = memory.reserved - Reservation
                       /\ Reservation <= memory.reserved
    PROVE  LeakInv'
<1> SUFFICES ASSUME at' \in Dispatching, ~ fatal'
             PROVE  memory'.reserved <= Reservation * Cardinality(holds') + Pending'
  BY DEF LeakInv
<1>1. memory.reserved <= Reservation * Cardinality(holds) + Pending
  BY DEF LeakInv
<1>2. Pending' = Pending /\ memory.reserved \in Nat /\ Reservation \in Nat
  BY BatchAssumption DEF Pending, LedgerInv, Sound
<1>3. memory'.reserved = memory.reserved - Reservation
  OBVIOUS
<1>4. /\ Reservation * Cardinality(holds') \in Nat
      /\ Reservation * Cardinality(holds) = Reservation * Cardinality(holds') + Reservation
  BY HoldsOneLess
<1> HIDE DEF Pending
<1> QED BY <1>1, <1>2, <1>3, <1>4, PendingIsNat

LEMMA LeakTask ==
    ASSUME RunInv, LedgerInv, HeldInv, WaitInv, LeakInv, NEW r \in Runs, Task(r)
    PROVE  LeakInv'
<1> USE DEF Unsettled
<1>0. task \in [Runs -> Steps] /\ spent[r] \in Nat /\ error \in [Runs -> {"none", "pre", "known", "unknown"}]
  BY DEF RunInv, Shapes, HeldInv
<1>1. CASE SettleRun(r)
  <2>1. PICK raises \in BOOLEAN :
          /\ Settle(Reservation, spent[r], raises)
          /\ IF raises THEN Catches(r, "written", "unknown")
             ELSE /\ Step(r, "written", "settled")
                  /\ holds' = holds \ {r}
                  /\ UNCHANGED <<error, stop, fatal>>
    BY <1>1 DEF SettleRun
  <2>2. task[r] = "written" /\ r \in holds /\ r \notin Unsure /\ UNCHANGED <<at, fatal>>
    BY <2>1 DEF Catches, Step, dispatchVars, WaitInv, Unsure
  <2>3. CASE raises
    <3>1. /\ UNCHANGED holds /\ task' = [task EXCEPT ![r] = "caught"]
          /\ error' = [error EXCEPT ![r] = "unknown"]
      BY <2>1, <2>3 DEF Catches, Step
    <3> QED BY <1>0, <2>1, <2>2, <3>1, SettleFrees, LeakGoesOn
  <2>4. CASE ~ raises
    BY <1>0, <2>1, <2>2, <2>4, SettleFrees, LeakGivesUp
  <2> QED BY <2>3, <2>4
<1>2. CASE CloseReservation(r)
  <2>1. PICK raises \in BOOLEAN :
          /\ \/ error[r] = "pre" /\ Settle(Reservation, 0, raises)
             \/ error[r] = "known" /\ Settle(Reservation, spent[r], raises)
             \/ error[r] = "unknown" /\ ChargeUnverified(Reservation, raises)
          /\ fatal' = (fatal \/ raises)
    BY <1>2 DEF CloseReservation
  <2>2. r \in holds /\ holds' = holds \ {r} /\ UNCHANGED at
    BY <1>2 DEF CloseReservation, Step, dispatchVars
  <2>3. ~ raises => /\ file' = memory' /\ Reservation <= memory.reserved
                    /\ memory'.reserved = memory.reserved - Reservation
    <3>1. CASE ChargeUnverified(Reservation, raises)
      BY <1>0, <3>1, ChargeFrees, BatchAssumption
    <3> QED BY <1>0, <2>1, <3>1, SettleFrees
  <2> QED BY <2>1, <2>2, <2>3, LeakGivesUp
<1>3. CASE Prepare(r) \/ Execute(r) \/ AgentFails(r) \/ AgentFinished(r) \/ Evaluating(r)
           \/ EvaluationFails(r) \/ Returns(r) \/ WriteResult(r) \/ Complete(r) \/ Close(r)
  <2>1. UNCHANGED <<memory, file, holds, at>> /\ (~ fatal' => ~ fatal) /\ task[r] # "caught"
    BY <1>3 DEF Prepare, Execute, AgentFails, AgentFinished, Evaluating, EvaluationFails, Returns,
       WriteResult, Complete, Close, Marks, Catches, Step, ledgerVars, Quiet, dispatchVars
  <2>2. \A q \in Runs \ {r} : task'[q] = task[q] /\ error'[q] = error[q]
    BY <1>0, <1>3 DEF Prepare, Execute, AgentFails, AgentFinished, Evaluating, EvaluationFails, Returns,
       WriteResult, Complete, Close, Marks, Catches, Step
  <2> QED BY <2>1, <2>2, LeakGoesOn DEF Unsure
<1> QED BY <1>1, <1>2, <1>3 DEF Task

LEMMA LeakStep ==
    ASSUME RunInv, LedgerInv, HeldInv, WaitInv, LeakInv, [Next]_vars PROVE LeakInv'
<1>1. CASE Crash
  BY <1>1 DEF Crash, Ends, LeakInv, Dispatching, Holding
<1>2. CASE Cancel \/ RemoveStaleLeases \/ UNCHANGED vars \/ \E r \in Runs : Spend(r)
  <2>1. UNCHANGED <<memory, file, task, error, holds, at, fatal>>
    BY <1>2 DEF Cancel, RemoveStaleLeases, vars, Spend, dispatchVars, taskVars, flags, Quiet, ledgerVars
  <2> QED BY <2>1, LeakSame, PendingIsNat DEF Pending
<1> QED BY <1>1, <1>2, LeakBatch, LeakTask DEF Next

\* What executeBatch leaves in the ledger when it has no error to raise.
NothingReserved == at = "draining" /\ Active = {} /\ ~ fatal => memory.reserved = 0 /\ file = memory

\* When executeBatch of batch-runner.ts has drained its runs and has no error to
\* raise, the ledger holds no token in reserve and is on disk as it is in memory:
\* whichever runs failed, were refused or taken back, and whichever settlements
\* raised on the way, no part of the budget is lost to the batches that share it.
THEOREM NothingStaysReserved == Spec => []NothingReserved
<1> DEFINE I == (RunInv /\ LedgerInv /\ CoverInv) /\ WaitInv /\ LeakInv
<1>1. Init => I
  <2>1. Init => LeakInv
    BY DEF Init, LeakInv, Dispatching, Holding
  <2> QED BY <2>1, CoverInit, WaitInit
<1>2. I /\ [Next]_vars => I'
  <2>1. ASSUME I, [Next]_vars PROVE I'
    <3>1. spent \in [Runs -> Nat]
      BY <2>1 DEF RunInv, Shapes
    <3>2. RunInv' /\ LedgerInv' /\ spent' \in [Runs -> Nat]
      BY <2>1, <3>1, RunInvStep, LedgerKept, SpentIsNat
    <3>3. CoverInv'
      BY <2>1, <3>2, CoverStep
    <3> QED BY <2>1, <3>2, <3>3, WaitStep, LeakStep DEF CoverInv
  <2> QED BY <2>1
<1>3. I => NothingReserved
  <2>1. ASSUME I, at = "draining", Active = {}, ~ fatal PROVE memory.reserved = 0 /\ file = memory
    <3>1. holds = {}
      BY <2>1 DEF WaitInv, Active, Unsettled
    <3>2. Cardinality(holds) = 0 /\ Unsure = {} /\ Pending = 0
      BY <2>1, <3>1, FS_EmptySet DEF Unsure, Pending
    <3>3. memory.reserved \in Nat /\ Reservation \in Nat
      BY <2>1, BatchAssumption DEF LedgerInv, Sound
    <3> QED BY <2>1, <3>2, <3>3 DEF LeakInv, Dispatching
  <2> QED BY <2>1 DEF NothingReserved
<1> HIDE DEF I
<1> QED BY <1>1, <1>2, <1>3, PTL DEF Spec
=============================================================================
