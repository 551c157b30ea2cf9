# Verification of RepoFixLab

TLA+ models, TLC runs and machine-checked proofs for the code under
`src/packages/repofixlab/`, for the agent loop it runs on in
`src/packages/agent/`, and for the harness of that package over the same loop.
Paths below are relative to `src/packages/repofixlab/` unless they start with
`src/packages/` or `docs/`; `ctl/` stands for
`controller/src/repofixlab_controller/` and `agent/` for `src/packages/agent/src/`.

`PROJECT.json` lists, for every definition that models code, the file and the
lines it stands for. The comments of the modules say what each property is
about.

## 1. The system

RepoFixLab repairs one repository issue per *attempt* and measures how well it
does so over a *batch* of runs. Three processes take part.

```
 orchestrator (TypeScript)                 controller (Python, threads)             Docker
 ------------------------                  ----------------------------             ------
 executeBatch                              HTTP routes
  | runs, result files, event log           | one call per request
  | token ledger of the batch               v
  v                                        RuntimeOperationService ---- journal (JSONL, fsync)
 formal run, M4 workflow                    |  attempts, operations, chains of events
  | checkpoints, recovery of a Worker       |-- _capacity          (RuntimeAdmission)
  v                                         v
 runRepoFixWorkflow: stages                DockerRuntimeBackend ------- containers, volumes
  | AgentSession, Agent, loop, tools        |-- resource_admission (RuntimeAdmission)
  | token supervisor --- Provider           |-- Worker and Evaluator pools
  v                                         v
 controller clients  ------ HTTP ------->  Worker / Evaluator containers
```

| part | state it keeps | operations | talks to |
|---|---|---|---|
| Runtime admission `ctl/runtime_admission.py` | `_active` (owner -> reservation), `_waiting` (deque of identities), `_cancelled`, one condition variable | acquire, try_acquire, transfer, release, cancel | called by the service (slots) and by the Docker backend and the pools (CPU and memory) from many threads |
| Operation journal `ctl/runtime_journal.py` | a file of numbered, chained records; an index in memory | begin, finish, load with repair of a torn tail | the service |
| Write protocol `ctl/runtime_service.py` `_execute_write` | `_operations`, `_last_operation` (a chain of events per attempt) | every write request; recovery at start | journal, backend, client threads |
| Attempt lifecycle, the rest of `ctl/runtime_service.py` over `ctl/runtime_docker.py` | `_attempts`, `_recovery_blocked`; reservations and quarantined owners of the backend | preflight, prepare, tools, snapshot, restore, destroy, evaluate, retry, acknowledge, abort, recover | admission (both), Docker, journal |
| Worker and Evaluator pools `ctl/runtime_worker_pool.py` | `_entries` by physical owner, `_offered`, `_cancelled`, `failed_attempts`, `_demand_waiters`, `_stop`, one condition variable; in the backend `_worker_owners` | offer, take, recycle, publish, cancel, evict_idle, demand, expire, close | admission, Docker backend by five callbacks |
| Batch runner `src/runner/batch-runner.ts`, store `src/runner/batch-state.ts`, ledger `src/runner/global-budget-ledger.ts` | event log, snapshot, result files, two lease files, token balances; `active`, `stopDispatch`, the first fatal error | executeBatch, executeRun, register, transition, reserve, settle, chargeUnverified | executor, file system |
| Token supervisor `src/runner/token-supervisor.ts` | open reservations, run and project counters, `reconciliationRequired`, an fsynced file | reserve, settle, the two full charges, reject; one supervised stream per Provider request | agent, Provider, file system |
| RepoFix stages `src/agent/repofix.ts`, `repofix-fsm.ts` | completed stages, the active stage's tools and stop, sealed patches, verification feedback | a stage per prompt, its tools, completion-only recovery, capture and verification between stages | agent session, controller clients |
| M4 workflow and formal run `src/runner/m4-dev-workflow.ts`, `src/m7/formal-runner.ts` | checkpoints, `interruption`, `workerRecoveries`, the summary | run a session, recover an interrupted Worker once, hand the final snapshot to the evaluation, abort | RepoFix stages, controller clients |
| Agent harness `agent/harness/agent-harness.ts` | `phase`, run promise and abort controller, steering, follow-up and next-turn queues, pending session writes | prompt, steer, followUp, nextTurn, abort, compact, navigateTree, appendMessage | loop, session, hooks and listeners |
| Session tree `agent/harness/session/session.ts`, `jsonl-storage.ts` | append-only entries with parents, the leaf | append, move the leaf, branch, context of a branch | file system |
| Agent and tool calls `agent/agent-loop.ts`, `agent.ts` | `activeRun`, `pendingToolCalls`, messages | prompt, abort, a batch of calls one by one or at once | tools, hooks, listeners |

RepoFixLab creates the `AgentSession` of the coding agent (`createAgentSession`,
`src/agent/repofix.ts:805`), which drives `Agent` and with it the loop of
`agent/agent-loop.ts`. The Agent harness and its session tree are the other user
of that loop: `src/packages/agent/docs/models.md:793` says that the coding agent
does not use the harness yet, and `agent-harness.md:395` beside it plans the move.
They are modelled as a part of the repository in its own right; no property of a
RepoFix stage rests on them.

The remaining components (clients, contracts, reports, cohorts, doctors,
evaluator, dataset preparer, the orchestrator of agent processes, model
providers, the coding agent and its terminal interface) are listed in
`PROJECT.json` with the reason each is not modelled; section 5 sums them up.

### What is hard here

* **Threads on one condition variable.** Every client request is a thread. A
  call of the admission queue sleeps, is woken by anyone, may be cancelled or
  expire meanwhile, and `transfer` uses what it read before it slept.
* **Requests repeated and overtaken.** A client repeats a request whose answer
  it has not seen; an abort overtakes the operation it aborts; operations of an
  attempt must be performed in the order they were registered; an edit whose
  client gave up is executed when the workflow has gone on.
* **Callbacks outside the lock.** A pooled Worker is bound, reset, interrupted
  and cleaned up while the lock of the pool is free, and a state of its entry is
  all that keeps the other threads away.
* **SIGKILL at any instant.** Between an accepted record and its terminal
  record the effect may or may not have happened; in the middle of a write half
  a line is left.
* **Partial failure.** `fsync` fails after the line was written; a cleanup
  removes some containers and not others; a settlement changed the memory and
  not the file; a Worker exits between a capture and its verification.
* **Cached summaries.** `_recovery_blocked` summarises all phases; the
  artifacts already handed out; the sequence number of the batch log; the
  counters of the token supervisor.
* **Awaits.** Between the check for `stopDispatch` and the start of a run lies
  the await of its reservation. Every listener, hook and append of the agent is
  awaited, and at each of them another message, an abort or a second operation
  gets in; the parent of a session entry is read before the append is awaited.
* **State that must be rolled back together.** A recovered session takes its
  patches, its verification feedback, the summary and the Controller's snapshot
  from one checkpoint.

`PROJECT.json` `hazards` has one entry per place where these bite, with the
properties that would notice.

### What makes each part correct

* *Admission*: never more than the machine has; no call sleeps although it could
  be granted; nobody overtakes the queue; a cancelled identity gains nothing; a
  failed transfer leaves the old reservation; every sleeping call leaves.
* *Journal and write protocol*: an operation is performed at most once, over any
  repeats and kills; the answers of one operation agree with each other and with
  the file; operations of an attempt do not overlap; the file a kill leaves can
  be loaded; every request is answered.
* *Lifecycle*: only a patch sealed by a passing snapshot is graded, by an
  evaluator that shares nothing with the Worker; an ended attempt owns nothing
  and stays ended; what Docker still holds is charged to someone or admission is
  fenced; slots bound the Workers; an abort gets its turn.
* *Worker pool*: a Worker has one user; what retires is cleaned up by one thread;
  whatever Docker holds is paid for once; an aborted attempt leaves no interest,
  Worker or reservation; whoever waits for a retirement waits for somebody.
* *Batch*: no run twice; what was billed stays covered by the ledger file; the
  file never promises more than the cap; a completed run has its result; nothing
  starts after a stop; the batch ends; what a process leaves can be opened.
* *Token supervisor*: what the Provider bills within its reservations stays
  within the caps of the run and the project; the file covers it at any instant;
  the consumer of a stream is always told its end.
* *Harness and session*: what is sent to the Provider is what the session would
  rebuild; a message is delivered once; a branch only grows; a reopened file has
  the leaf that memory had; the harness is always idle again.
* *Tool calls*: results in the order of the calls, however they finish; nothing
  starts after an abort; a run always settles.
* *Workflow*: evidence belongs to the patch it was gathered on, after a recovery
  too; what is evaluated is the sealed, verified and unchanged last patch; the
  attempt comes to an end.

## 2. Modules

| module | models | state and actions, in the terms of the code |
|---|---|---|
| `Reservations` | the arithmetic of `_fits`, `_active` | functions from owners to peaks; no state |
| `AbstractAdmission` | the promise of admission | a book of reservations: Admit, Change, Move, Free |
| `RuntimeAdmission` | `RuntimeAdmission` | `book` = `_active`, `queue` = `_waiting`, `cancelled` = `_cancelled`, `calls` = the frames of sleeping calls with what they read before sleeping, and whether they were notified. One action per way a call enters (granted at once, queued, refused), `Recheck` = the loop of a woken thread, `Deadline` = `Condition.wait` timing out, Release, Cancel |
| `RuntimeJournal` | `RuntimeJournal` | `disk` = the lines of the file, the last of them possibly half a line; `index` = `_records`; begin, finish, `_append` with its outcomes (written, lost, torn, written and not synced), load with tail repair |
| `RuntimeWrites` | `_execute_write`, `_replayed_result`, `_recover` | per thread: where it is in `_execute_write`; per operation: its runtime entry and its event; `Crash`, `Restart`, `RecoverOperation`, `Recovered`. Built on `RuntimeJournal` |
| `ExactlyOnce` | the promise of the protocol | per operation: unknown, accepted, settled with one answer, or interrupted |
| `AttemptLifecycle` | the other operations of the service over the Docker backend | `attempt` = `_attempts`, `slots` = `_capacity`, `fence` = `_recovery_blocked`, `charged` = `resource_admission`, `docker` = what containers and volumes exist, `journal` = what `_restore_response` would restore. Each write is started by `Start` (its precheck) and finished by one of its outcomes; `Creating` and `Removing` let Docker lag behind a kill |
| `WorkerPool` | `WorkerPool` with the callbacks and callers of the Docker backend (`prepare_worker`, `_return_role`, `cancel_pending`, `recover_attempt`, `_cleanup_pool_owner`) | `pool` = `_entries` by physical owner, `pc` = where each attempt, the closing thread and the sweeper are, `target` = the entry or Worker an attempt has in hand, `todo` = entries a thread retires, `waits` = entries it waits for in `_wait_retired`; `reserved`, `owner`, `interrupted`, `alive` = `resource_admission`, `_worker_owners`, cancelled owners and what Docker holds. One action per section under the lock, or per callback |
| `BudgetLedger` | `GlobalBudgetLedger` | `memory`, `file`; Reserve, Settle, ChargeUnverified, each with a failing write |
| `BatchRunner` | `executeBatch`, `executeRun`, `BatchStateStore` | `at` = where executeBatch is suspended, `cursor` = its loop, `task[r]` = where executeRun is, `status` = the store's memory, `log` = the event file, `ahead` = the file has a line the store does not know; one action per stretch between awaits. Built on `BudgetLedger` |
| `TokenSupervisor` | `TokenReservationLedger`, its file sink and the supervised streams | `reservations`, the counters and `reconciliationRequired` as in the code, `lines` = the closing and opening lines of each request, `stream` = where its generator is. One action per way a request is refused, sent, answered, raises, or is caught, each with an append that may fail after the counters changed |
| `AgentSession` | `Session` over `JsonlSessionStorage` | `entries` = the lines after the header, each with its parent; `leaf`; `write` = the entry each task is appending: `Begin` reads the leaf (`BeginAt` is told the parent, as `moveTo` is for its summary), `Land` writes the line, `Miss` fails. `Branch` and `Context` are `getBranch` and `buildSessionContext` |
| `AgentHarness` | `AgentHarness` over one session and one loop | `phase`, `runPromise`, `runAbortController`, the queues and `pendingSessionWrites` as in the code; `run[r]` = where a prompt is, with the messages it is emitting and the context in its memory; `caller` = a compaction, navigation or append. One action per stretch between awaits. Extends `AgentSession` |
| `AgentTools` | a batch of tool calls in `agent-loop.ts` under the `Agent` of `agent.ts` | `toolExecution`, `activeRun`, `pendingToolCalls`; `call[c]` = where a call is, from its announcement to the listeners' end; `updates` = progress reports under delivery, `messages` = the results in the transcript |
| `RepoFixWorkflow` | `runRepoFixWorkflow`, `runM4DevWorkflow`, the evaluation's start in `runM7FormalRun` | `done`, `stage`, `sealed`, `feedback`, `recorded`, `latestSnapshot`, `checkpoints` = the session and its control; `interruption`, `recoveries`, `requests` = the workflow around it; `worker`, `attempt`, `late` = what the Controller holds and the edits it has yet to execute |
| `MC*` | | instances for TLC |
| `*Proofs` | | theorems; `AgentProofs` has those of the harness, its session and the tool calls |

How they compose. `RuntimeWrites` shows that the write protocol implements
`ExactlyOnce` per operation and serialises the operations of an attempt.
`AttemptLifecycle` relies on exactly that: an operation there starts when its
accepted record is on disk, ends with its terminal record, and no two operations
of an attempt overlap. Its `_capacity` is used as a set of slots with a queue,
which is what `RuntimeAdmission` shows of it. `WorkerPool` uses
`resource_admission` in the same way, as a book of which each operation is one
step, and refines what `AttemptLifecycle` takes as one `prepare` or `destroy` of
a Worker: a Worker that comes from the pool, or is cold, or goes back.
`BatchRunner` sees the formal run through the contract of its executor: the hooks
it calls, what it may spend, and the three kinds of failure it reports (before
its first request, with known usage, with unknown usage). `TokenSupervisor` is
where that usage comes from. `RepoFixWorkflow` is the inside of one execution; of
the Controller it keeps the one attempt, whose operations are one step each
because `RuntimeWrites` serialises them, and an edit that is executed after its
client gave up. A stage of it is a prompt of the coding agent's session, which is
not modelled, and a turn with tools a batch of `AgentTools`. `AgentHarness` stands
beside these: it prompts the same loop and appends to the session tree of the
harness, which is what the module `AgentSession` models.

Definitions named as faulty (`...Anyway`, `...Eager`, `...Unspent`, and so on)
are not part of any specification. Each is a plausible mistake in the operation
it stands before; substituting it must break the property that `PROJECT.json`
pairs with it, which shows that the property depends on that line of the code.

## 3. Runs

| run | question | bounds |
|---|---|---|
| `admission` | Does every interleaving keep the queue, the budget and the abstract book, and does every sleeping call leave? (34 400 states) | three identities, two resources of 3 and 2 units, a baseline, two slots, two queue places; callers leave an owner alone that is being moved |
| `writes` | Are operations serial, is the file always loadable, is `ExactlyOnce` implemented, do answers agree and does every request end, with repeats, a conflicting repeat, an abort, a kill and failing appends? (61 779 states) | three threads, two operations of one attempt, one of them sent with two different requests; appends that write nothing or a line that is not synced |
| `lifecycle` | What is graded, what is handed out, what an ended attempt owns (83 796 states) | one attempt, an evaluator pool, four working trees (untouched, failing the policy, two passing), two kills, one recovery and one retry as in the code |
| `lifecycle_shared` | What Docker holds is charged or fenced off, and an abort behind a waiting prepare gets its turn (49 845 states) | two attempts, one slot, pool labels, an evaluator pool, one kill |
| `pool` | Users, retirements, charges and waits of the pool (1 068 746 states) | two attempts of one environment, a pool of two, room for two running Workers, at the start nothing, one idle Worker of either environment, or two of the other; one failure, expiry or closing |
| `batch` | Ledger, runs and end of a batch (85 402 states) | two runs side by side, a cap for which the second must wait for the settlement of the first, bills below and above the reservation, one failing write, two kills |
| `tokens` | Caps, file and ends of supervised streams | three requests of two runs against caps they exhaust, two failing appends, bills of nothing and above the reservation |
| `harness` | Is the session one history that is also what is sent, is a message delivered once, is the harness always idle again? | two runs, two messages that may enter any way, one turn with tools each, one compaction or navigation, one hook, listener or append that fails |
| `tools` | Order of results, abort, and the end of a run | two runs of two calls, sequential or parallel, one progress report per call under delivery, two listeners that raise |
| `workflow` | What is verified, snapshotted and evaluated, and does the attempt end? (740 472 states) | six stages, three trees (base, good, failing the policy), nine model turns, two of: Worker exits, failed edits and snapshots, answers given up |
| `lifecycle_capacity`, `workflow_completion` | two statements of the repository that the code does not keep, see section 6 | two attempts, no kill and no evaluator pool; the instance of `workflow` |

Why the bounds are enough to be interesting. Three identities are a sleeper at
the head of the queue, one behind it, and a holder; with two slots and resources
of different scarcity each limit binds in some state. Three threads and two
operations give a working operation, its repeat with the same or another request,
and an operation queued behind it; the kill can hit the process or the recovery.
The lifecycle needs two passing patches to tell a stale snapshot from a fresh one,
and a failing one to break the seal; two attempts on one slot are enough to have
one wait for the other. In the pool two attempts of one environment merge,
compete for an entry and inherit each other's Worker, and an idle Worker of
another environment is there to be replaced; a pool of two entries on a machine
of two Workers makes a cold stage drain the pool while the other attempt holds
or returns its own; one fault falls anywhere, and cancellations are free. In the
batch a cap of 3 with reservations of 2 makes `denied`, `waiting` and the refund
reachable, and one failing write reaches every `raises` branch once, alone or
before a kill. Of three Provider requests two share a run, so that both the run's
and the project's cap refuse one; two failing appends let the catch block of a
stream fail after its settlement did. In the harness the second run starts from
what the first left in queues and session; with two faults instead of one the same
properties hold (363 372 states, too slow to repeat for every mutant). Two calls
are enough to be ended in the wrong order; the first may be running when the
second is refused. In the workflow nine turns are one per stage and three to
spare, so that each of recovery prompts, refused turns and a repeated stage
happens; a second fault can hit the recovery from the first.

Numbers that only bound the search: `MaxCrashes` in `RuntimeWrites`,
`AttemptLifecycle` and `BatchRunner`, `MaxFaults` in `BudgetLedger`,
`TokenSupervisor`, `AgentHarness`, `RepoFixWorkflow` and
`WorkerPool` (there it counts failures of Docker and of the journal, expiries
and the closing), `MaxTurns` and `MaxStructural` in `AgentHarness`, `MaxUpdates`
and `MaxRaised` in `AgentTools`, and `MaxOwners`, the physical owners that exist at a time, which
the run never exhausts. `retries <= 1`, `recoveries <= 1`, two evaluators per job,
two recovery prompts per stage and `MaxRequests` (`maxModelTurns`) are limits of
the code itself. The proofs hold for every value of the bounds.

Three constants are a configuration or a habit of callers rather than a bound.
`Prewarms` says that there is an evaluator pool, so that the destruction of a
Worker goes on to prewarm an evaluator, which may raise after Docker has cleaned
up (`NotPrewarmed`). It is TRUE in `lifecycle` and `lifecycle_shared`, and FALSE in
`lifecycle_capacity`, whose counterexample is to be the failed `start_evaluation`
and nothing else; the proofs hold either way. The other two take a part of a
hazard out of a run:

* `ExclusiveOwners` is TRUE in `admission`: nobody releases an owner or admits it
  again while its transfer sleeps. The stale read of `current`
  (`ctl/runtime_admission.py:127`) can then do no harm, and no property of the run
  would notice it. `ReadsStayFresh` states that what a transfer read is still true
  when it is used, under the same assumption.
* `Reentrant` is FALSE in `harness`: no operation starts from a listener while a
  run settles, between `phase = "idle"` and the return of `prompt`. `BranchGrows` and
  `ContextIsBranch` judge every other interleaving of runs and callers; an operation
  that starts in that window is an observation of section 6.

Deadlock is checked in `admission` and `batch`, where something can always
happen. The other runs say `CHECK_DEADLOCK FALSE`: once every
submitted operation is answered, every attempt has ended or every prompt has
returned, those systems really have nothing left to do.

### Fairness

* Admission: `Recheck` and `Deadline` of each call. A woken thread gets the lock
  again, and `Condition.wait` returns at its timeout.
* Writes: the steps of each thread while the process is up, the restart of a
  killed process, and the steps of its recovery. Nothing is assumed of clients,
  kills or faults.
* Lifecycle: `Finish` and `StartAbort`. Calls of Docker and waits for a slot end,
  and the chain of events hands the turn to the abort. One wait inside a backend
  call has no deadline: `_wait_retired` (`ctl/runtime_worker_pool.py:344`) waits for
  an entry that another thread retires. `WorkerPool` shows that there is such a
  thread, except in the case `Stranded` of section 6, where this fairness asks more
  than the code gives.
* Batch: `Batch` and the steps of each run. Awaited promises settle, and an
  executor ends: each request to the Provider and each call of the Controller has
  a timeout, and the model turns of a run are counted. `max_wall_time_ms` is only
  recorded, and nothing rests on it. Starting a process, cancelling, being killed
  and removing stale leases are never assumed.
* Tokens: `Answered` and `Caught` of each request. A Provider stream ends or
  raises, as the agent gives it an abort signal; the supervisor's own code runs on.
* Harness and tools: the steps of each run and of each call. Providers, tools,
  hooks and listeners end; nobody has to abort or to send anything.
* Workflow: one weak fairness of all steps of the session together. Prompts,
  calls of the Controller and their answers end; the Worker may exit and an edit
  nobody waits for may never be executed.

Liveness says of the code only what follows from these. Symmetry is used in no
run that checks liveness; `pool` checks none, and its attempts are interchangeable.

## 4. What is proved

TLAPS checks the following for every value of the constants.

**Admission** (`RuntimeAdmissionProofs`). `TypeCorrect`, `QueueCorrect` and
`WakeupsNotLost` need nothing but the assumption on the constants: whatever
callers do, the deque holds each sleeping call once, and a call that sleeps and
was not notified could not be granted. `ReadsStayFresh`, `BudgetHolds` and
`ImplementsBook` assume `ExclusiveOwners`: the callers of `transfer` leave alone
an owner that is being moved. That assumption is needed, as `transfer` reads
`current` once, before its loop: a release of that owner meanwhile makes it add
what it read to a book that no longer has it, or fail with a `KeyError`. The
callers in `ctl/runtime_docker.py` and the pools keep it because an owner belongs
to one operation at a time. The run `admission` makes the same assumption; what
holds without it is only proved. `NobodyOvertakes` and `CancelledOnlyLoses` are
properties of single steps (`BookSteps`): which rows of the book a step touches,
for whom, and who stands before him in the queue. They need the two facts that the
invariant of the queue gives: a row that a call adds is its own, and a call that
enters is first or finds the queue empty.

**Writes** (`RuntimeWritesProofs`). `TypeCorrect`, `OneAtATime`,
`PerformedAtMostOnce` and `AnswersStayFinal`, for any set of faults, threads,
operations and kills, appends that leave half a line in a surviving process
included. The inductive invariant is
`TypeOK /\ ChainInv /\ OwnInv /\ MemoryInv /\ (~ Gone => DiskInv)`: the chain of
events orders the operations of an attempt, an operation has one owner thread,
the index agrees with what was synced, and, unless a torn line made the file
unloadable, the file agrees with the index. `AtMostOnce` alone is not inductive: it
depends on the accepted record being in the index before the effect, which is
what `MemoryInv` says.

`AlwaysLoads` says that the file a process or a kill leaves can be loaded. It
assumes that an append which leaves half a line does not return to a process that
goes on (`"torn" \notin Faults`): with such an append the file really is lost, as
the next line is written behind the half one. `FileInv`, on top of the invariant
of the refinement below, says that an operation has at most one accepted and one
terminal line, in that order and never the second alone, and, as long as no two
lines share a number, that each number is the place of its line and the counter
in memory is at the end of the file or one line short of it.

**Refinement** (`RuntimeWritesProofs`). Without torn lines in a process that
goes on (`"torn" \notin Faults`), the protocol, read off its file, implements
`ExactlyOnce` (`ImplementsPromise`). The invariant adds `Clean`: every line of the file is whole or the
last.

`NobodyWaitsInVain` is the safety half of "every call returns": while the
controller serves, a request that waits, for its turn or for the response of the
operation it repeats, waits behind a thread of the same attempt that can go on.
The head of the chain of an attempt has its turn (`HeadGoesOn`); that
an operation which `_operations` calls running really has a thread is
`RunnerInv`, which a failed append and the handlers' `finally` must not break. That
the thread then goes on is fairness, and with TLC.

**Lifecycle** (`AttemptLifecycleProofs`). For any attempts, trees, slots and
modes, and any number of kills. The invariant `Inv` says of each attempt: what
the operation in progress found in its precheck is still so; which phases have a
Worker, a job or artifacts; a patch whose snapshot passed is sealed; a process
that has just started holds nothing; an attempt that has ended owns nothing,
whether the process is up, down or recovering. From it `GradesWhatWasSealed` and
`EndedStaysEmpty`. Neither property is inductive: an evaluation grades what an
earlier precheck and an earlier snapshot left, and that an ended attempt owns
nothing depends on its being idle, through a kill, the sweep at the start and the
recovery. `ChargesWhatIsLeft` has a second invariant, `Charging`: in every mode
but down, what Docker holds is charged to its owner, or the fence stands and an
attempt is blocked. It assumes that containers carry the pool's labels (`Pooled`);
without them it is false, which is the first observation of section 6.

`ClosedStaysClosed` is a property of single steps: an attempt that is acknowledged,
aborted, recovered or blocked in the journal stays one of these, and Docker gets
nothing new for it. The prechecks look at the memory, so `Closing` says that the
memory of a blocked attempt agrees with the journal, and that a job an aborted
cleanup has left belongs to a cancelled attempt: no retry revives it.

**Batch** (`BatchRunnerProofs`). `BudgetNeverExceeded` from `LedgerInv`, which
says the same of the memory and of the file, as the file is what the memory was
or will be. `ExecutedAtMostOnce` and `CompletedHasResult` from `RunInv`: an
execution is preceded by a `running` line in both store and log; the loop holds a
reservation only for a queued run; runs at or after the cursor have no task; a
run is settled only after its result is written. Neither property is inductive:
the first needs to know that a run which is about to execute has not executed
before, in this process or in an earlier one that was killed.
`NothingStartsAfterStop` is a property of single steps under the same invariant.
`SpendingIsCovered` compares what the runs were billed with what the file accounts
for or reserves. By itself this is not inductive: a run may still spend all it has
reserved, so `CoverInv` asks for more. What is owed is the whole reservation of every
run that holds one, the bill of each of the others, and the reservation that no
run has got yet; it is at most what the memory and at most what the file accounts
for and reserves. A run that is not settled holds its reservation, and one that
failed before its execution has no bill. What is owed is a cardinality, and no
step changes it for more than one run, so two lemmas about finite sets carry the
proof. A run caught with unknown usage owes its bill only: a write that failed
may have charged it already.

`ConcurrencyKept` (`RoomInv`): the loop counts its runs before it awaits a
reservation, and keeps the room it saw, as only the loop starts runs.
`NeverWaitsForNobody` (`WaitInv`): `Promise.race` is never given an empty list, and
each run it waits for is over or has a step to take. `NothingStaysReserved`
(`LeakInv`): a batch that has drained without an error to raise has nothing in
reserve and its ledger is on disk. Until then every reserved token belongs to a run
whose reservation is not null, and a file that is behind the memory belongs to a
run whose write failed and which will make the batch raise; both are
cardinalities, moved by one run per step.
None of these bounds the number of runs, faults or kills.

**Token supervisor** (`TokenSupervisorProofs`). The invariant `IInv` adds three
things to the types. `Sums`: the run's and the project's counter are the sums of
what the ledger counts for each request; a sum is stated as the cardinality of
a set of tokens, so that its lemmas are about finite sets. `WithinCaps`: neither exceeds its cap. `Coherent`, per
request: which lines, which place in the ledger and which bill go with each place
of the stream. From it `SpendingStaysWithinCaps` (the covered part of a bill is
at most its charge), `FileAlwaysCovers`, `ClosesOnce` (a reservation has one
closing line, although a settlement that fails is followed by the catch block's
full charge) and `OverrunsBlock`. `FileCoversBilling` is not inductive: after an
append that fails the counters have already been reduced, and it takes
`Coherent` to know that the file still has the open line.

**Workflow** (`RepoFixWorkflowProofs`). With and without LOCALIZE, for any trees,
turns and faults. The invariant `Inv` counts: completed stages determine how many
patches are sealed, at most one verification is missing and only between a
capture and the next stage, every checkpoint is such a state with its own summary
and snapshot, and the Controller's current snapshot is the last patch. From it
`EvidenceHolds`, `SnapshotHolds` and `VerifiedIsGraded`. None of them is
inductive: a recovery replaces the session by a checkpoint, of which one must
know that it was coherent when it was taken. `CheckpointsAreCoherent` states that
for itself. `WorkIsTakenBackOnce` is about single steps: stages, patches and
verifications are only added to, except by the one recovery, which cuts each of them
back to a prefix. A checkpoint that is coherent could still be of another history, so
`Behind` says that until the recovery each one lies behind the session it was
taken of.

**Worker pool** (`WorkerPoolProofs`). For any attempts, environments, budget and
number of failures, and any idle Workers at the start. The invariant `Seats` says
that the state of an entry, which changes only under the lock, tells who may be
at it outside the lock: a claiming entry has its one claimant, a resetting one the
attempt that returns it, a leased Worker is not in the pool, and a retiring entry
is in the hands of one thread and stays until that thread is done. From it
`OneUserAtATime`. `Charges` says who pays at each position, and that what Docker
holds has one payer: the owner, or the attempt that leases it. From it
`ChargedOnce`. Neither property is inductive: that a claimant binds an entry of
its own, and that it finds the reservation it takes over, depends on all the
threads that could have retired the entry meanwhile. `AbortedStaysEmpty` needs that
interests withdrawn are not added again while the abort waits for its entries
(`Withdrawals`).

`SleepersAreNotForgotten` rests on a second invariant, `Watch`, built on `Seats`. The
property is not inductive: it says that somebody is at the entry now, and each step
of that thread must either keep it there, hand the entry to another thread, or
remove it, which notifies. `Watch` therefore says who has which entry in hand
(`Orderly`, `Handled`, `Own`), and, in `Watched`, that a thread waits only for entries that
were marked, that a marked entry is never lent or ready again, and that one whose
Worker was validated in the meantime is going to be published or withdrawn. The
case it leaves out, `Stranded`, is the observation of section 6: there nobody is
at the entry, and the sleeper stays. That a sleeper is woken in the end is a
liveness property and is not claimed.

`MachineIsNotOvercommitted` is about containers, where the admission knows
reservations: the Workers that may run, of attempts, of preparations and on their way
back, are at most as many as the machine has room for. The admission bounds the full
reservations (`Budget`), and `Charges` gives each running Worker one of them that
no other Worker has, so that the one number bounds the other.

**Harness and session** (`AgentProofs`). For any runs, messages, turns,
compactions, navigations and failures and both queue modes. `ContextIsTheBranch`,
`BranchOnlyGrows`, `SessionHasOneWriter` and `EverybodyIsDeliveredOnce` assume that `Reentrant` is FALSE:
callers await an operation before they start the next. With `Reentrant` they are
false, which is an observation of section 6. `ReopensAtTheSameLeaf` needs nothing.

The invariant `HarnessInv` is about exclusion without a lock. The phase alone does
not exclude anybody: it is `"idle"` while the listeners of the end of a run are
still told and the postponed writes are flushed. What does is that at most one
run, the one whose promise is kept, is awake (`Awake`), and that the caller works
only when none is. Hence whoever is appending read the leaf that is still the leaf
when the line is written (`Writes`; `SessionHasOneWriter` states it), and the memory of a run is the context of
the branch, plus what it has in hand where it has taken more than it has written
(`Remembers`). The summary of a navigation hangs on the entry that `moveTo` was given;
`MovedLast` has that this is the leaf. `ContextIsBranch` is not inductive: it speaks of the instants at
which the Provider is called, and the memory of the loop is made in steps between.

The branch and the context are computed by functions that are recursive over the
file. The lemmas about them (`PathOfNext`, `GatherNext`, `ContextNext`: an entry at
the end of the file adds itself to the branch of its parent, and a message adds
itself to the context) are proved by the least counterexample (`Least`,
`Upwards`), as the prover has no induction over an operator.

`EverybodyIsDeliveredOnce` is about `Held`, which says what each of the queues, the
runs, the caller and the file holds, as one function from holders to sequences, so
that each step is one of a few exchanges between sequences: put at the end
(`PutLast`), move the head (`MoveHead`), move a whole sequence to the front of
another (`MoveAll`), cut (`Cut`), hand back (`HandBack`). Each of them keeps that no
message is in two places (`Once`), and all but the cuts, which only failures make,
that none is nowhere (`Kept`).

**Tool calls** (`AgentProofs`, section of that name). `ResultsComeInOrder` and
`NoneStartsAborted` state the properties `ResultsInOrder` and `AbortedNeverStarts` of
`AgentTools`, which the module extends beside `AgentHarness`. The invariant `ToolsInv` says how far a batch is at each position of its run:
the calls that were announced, and those whose result was given, are the first so
many, in a sequential batch the same number, in a parallel one none until all are
announced. The calls of a run that is over may go on; they change neither number.

These theorems state what no run checks separately: `TypeCorrect` (in
six of the modules; `CheckpointsAreCoherent` has the types of the workflow), `QueueCorrect`, `ReadsStayFresh`, `PerformedAtMostOnce`, `NobodyWaitsInVain`,
`ClosedStaysClosed`, `ConcurrencyKept`, `NeverWaitsForNobody`,
`NothingStaysReserved`, `MachineIsNotOvercommitted`, `CountersExact`, `ClosesOnce`,
`OverrunsBlock`, `CheckpointsAreCoherent`, `WorkIsTakenBackOnce` and
`SessionHasOneWriter`; the others state a property of a run. The inductive invariants
of these were tried on the instances of the runs before they were proved.

Every safety property a run checks, invariant or action property, is stated by
one of these theorems. Only model-checked: the liveness properties (`SleepersLeave`,
`EveryCallReturns`, `AbortEnds`, `BatchEnds`, `StreamsEnd`, `IdleAgain`, `RunsSettle` and
`WorkflowEnds`), which need fairness and `ENABLED`, out of the prover's reach.

## 5. What the models leave out

* *Admission*: `snapshot`, `has_reservation`, `check_cancelled` only read.
* *Journal*: the hash chain breaks exactly where the sequence breaks and is not
  carried; `pool_namespace` is a file written once.
* *Writes*: `publish_release` failing after the terminal record; the pair of
  records that recovery writes for an attempt without a pending operation (it is
  in the lifecycle).
* *Lifecycle*: `capacity_owned` (written, never read); the verification catalog;
  prewarming, except that it may raise, and the return of roles (`WorkerPool`); a graceful `close()`; a
  container that Docker was still creating when the controller was killed and that
  appears after the sweep; a kill in the middle of a recovery leaves all or none
  of a role, not half of it.
* *Worker pool*: the role evaluator, which is the same class with two interests
  whatever the capacity; `wait_prepared`, which only the benchmark calls;
  generations, of which `_assert_lease` and `publish` check that they are current;
  `reuse_containers` off; the recovery of leased attempts when the runtime closes.
  Where several entries match, the code takes the first inserted and the model
  any. CPU and memory are one unit per running Worker, and zero for a parked one;
  `transfer` either succeeds or is refused without holding a place in the queue.
  `cancel_pending` cancels in the admission, the backend and the pool under three
  locks one after the other: one step here.
* *Batch*: batches without `budget_admission`; the heartbeat of the lease;
  failures of the first writes (identity, empty ledger, first snapshot); the
  publication of the report; the two leases are released together;
  `recordObserved` and `markReconciliationRequired`, which the M1 and M6 probes
  call outside a batch. A lease file of a killed process is removed by
  its operator, as no code does it.
* *Token supervisor*: the estimator, and the split of an estimate into input and
  output; the process that reads the file afterwards.
* *Harness and session*: settings, tools, labels and models are one kind of
  postponed write; a torn last line of the session file; the repositories that
  create, fork and delete sessions; the choice of what a compaction cuts (any
  admissible entry is taken).
* *Tool calls*: `reset()`; the turns of one run and the queues between them, which
  are `AgentHarness`'s; the arguments and contents of calls.
* *Workflow*: the probe, the preparation of the Worker and its initial snapshot
  come before `Init`; the memory and the trajectory are written but decide nothing;
  sizes of outputs; polling of the evaluation, artifacts and acknowledgement
  (`AttemptLifecycle`); the baseline `pi-general`, a single stage without
  verification. LOCALIZE is a constant: absent in the run, either way in the
  proofs. An answer that violates a schema is a turn that is refused.

Not modelled at all, and why:

* The Terminal user interface, the interactive coding agent, the catalogues of
  models in `src/packages/ai/` and the HTML export are four fifths of the lines
  of the repository. They are layout, tables of data, and commands of a product
  of which RepoFixLab uses the session and the tool definitions only; that session
  has retries, queues and a session tree of its own over the modelled loop. The share
  of source lines the modules cover therefore stays small however much of the
  control of RepoFixLab they hold.
* Providers and their streams: one producer and one consumer; wire formats.
* The Orchestrator of agent processes: RepoFixLab does not start it (section 6
  has what reading it showed).
* Clients, contracts, cohorts, reports, doctors, the calibration runners, the
  evaluator and the dataset preparer: sequential or pure, with nothing between
  two states that a test would not reach.
* The role factory's probe service: an older relative of the runtime service with
  capacity one and no chain of operations.
* What a container does with files, volumes and images: the outcomes are choices.

## 6. What the runs disagree with

Two runs are expected to fail; `PROJECT.json` quotes the sentence of the
repository each contradicts.

1. `lifecycle_capacity` (`ctl/runtime_service.py:1006`). A failed
   `start_evaluation` gives the attempt's slot back and leaves it ready to be
   evaluated. Its repetition runs without a slot, beside the Worker of the
   attempt that took it.
2. `workflow_completion` (`src/agent/repofix.ts:576`). The stop after a
   completion-only turn is asked for once per stage and consumed by the first
   such turn, so that the second recovery prompt goes on to further turns whose
   calls are blocked, where the design speaks of exactly two turns.

Disagreements seen while modelling that have no run of their own:

* `ctl/runtime_docker.py:1552`: a `prepare_worker` whose cleanup failed leaves
  containers that, without pool labels, no restart removes or fences off;
  `configs/benchmarks/docker-v1/README.md:174` says otherwise.
* `ctl/runtime_service.py:1254`: `_restore_response` has no case for a restored
  Worker, so a restart finds another outcome of the policy than the running
  service had (same README, line 171).
* `src/runner/batch-runner.ts:293`: a kill while a new batch registers its runs
  leaves a store that no later start accepts.
* `agent/harness/agent-harness.ts:616`: `settled` is told while the run's promise
  and its signal are still there, which `src/packages/agent/docs/agent-harness.md:88`
  excludes; a listener that starts a second run then shares the flush of postponed
  writes with the first, whose `finally` clears the second's controller. The run
  keeps `Reentrant` FALSE.
* `agent/agent-loop.ts:517`: the end of a call that raised after the run's error
  was reported is told after `agent_end` (`agent.ts:570`).
* An abort during the set-up of a prompt finds no controller and does nothing,
  though the documentation allows it during a turn; messages queued for the next
  turn are lost when the hook before the run raises.
* Calls of a parallel batch that were prepared before an abort are still executed
  (which `AbortedNeverStarts` allows), and those after it get no result, so that
  the transcript ends with calls that were not answered.
* `src/m7/formal-runner.ts:296`: a completed agent with incomplete usage throws
  before the `try` that aborts its attempt, whose Worker is then retained.
* `src/packages/orchestrator/`: stopping an instance while it is being spawned
  leaves its child running, and a failed spawn does not dispose it.

Three observations about the pool:

* A return whose terminal record cannot be written stays `validated`, with
  nobody to publish it (`ctl/runtime_service.py:1027`). An abort of its attempt
  or a later `close` retires it; but when it becomes `validated` after `close` has
  marked the entries (`ctl/runtime_worker_pool.py:320`), `close` waits for it
  without end in `_wait_retired` (344). `SleepersAreAwaited` leaves out exactly this case, as
  `Stranded`.
* An offer that joins an entry whose interests are at the limit is reported as
  merged and not counted (98). When the counted ones are cancelled, the shared
  preparation is interrupted although one more attempt relies on it; that attempt
  falls back to a cold Worker.
* An eviction overwrites the reason `cancelled` (321), after which the abort that
  gave it no longer recognises its own entry (289) and does not wait for it.

Places that no property covers, with the reason in `PROJECT.json` or here:
`src/runner/batch-state.ts` 341 (a line written and not synced is repeated) and
208 (lease files of a killed process), `ctl/runtime_worker_pool.py` 193 (the mark
a waiter leaves), `ctl/factory_service.py` 1483 (the only slot is freed although
containers are left), `ctl/runtime_docker.py` 2583 (a container that appears
late).

## 7. Plan

Done: admission, journal and writes, lifecycle, batch, Worker pool, token
supervisor, workflow, agent harness with its session, and tool calls, with their
proofs.

What is left, in this order:

1. the mark a waiter leaves on an entry (`ctl/runtime_worker_pool.py:193`), and
   the end of every wait of the pool under fairness;
2. Docker lagging behind: a container that appears after the sweep, and
   `wait_available`;
3. the role factory's probe service, the single-stage baseline, `reset()` of the
   Agent, and the torn last line of a session file.

The number of runs and properties is kept small by giving each one question.
