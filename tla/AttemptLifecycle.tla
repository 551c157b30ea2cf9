-------------------------- MODULE AttemptLifecycle --------------------------
(***************************************************************************)
(* What the operations of RuntimeOperationService (runtime_service.py) do to *)
(* an attempt, and the Docker backend (runtime_docker.py) under them.  That  *)
(* an operation is performed once and that those of one attempt never        *)
(* overlap is RuntimeWrites' part and assumed here: an operation starts when *)
(* its accepted record is on disk, and ends with its terminal record.  The   *)
(* journal is kept as what _restore_response reads out of it.                *)
(***************************************************************************)
EXTENDS Naturals, FiniteSets

CONSTANTS
    Attempts,
    Capacity,   \* max_active of _capacity
    Pooled,     \* reuse_containers: resources carry the pool label
    Prewarms,   \* evaluator_pool is there
    Patches,    \* what the working tree of a Worker may differ by
    Untouched,  \* the difference in a fresh Worker
    Allowed,    \* the patches that pass the snapshot policy
    NoPatch,
    MaxCrashes

ASSUME LifecycleAssumption ==
    /\ Capacity \in Nat \ {0}
    /\ Pooled \in BOOLEAN /\ Prewarms \in BOOLEAN
    /\ Untouched \in Patches
    /\ Allowed \subseteq Patches
    /\ NoPatch \notin Patches
    /\ MaxCrashes \in Nat

VARIABLES
    mode,         \* "up", "down", "recovering" (_recover in progress)
    attempt,      \* _attempts
    running,      \* the operation each attempt is at
    slots,        \* identities active in _capacity
    cancelled,    \* identities cancelled in _capacity and resource_admission
    aborting,     \* attempts with an abort that waits for its turn
    fence,        \* _recovery_blocked
    charged,      \* attempts with a reservation in resource_admission
    quarantined,  \* _quarantined_owners
    docker,       \* roles of each attempt of which Docker holds containers or volumes
    tree,         \* the working tree of each Worker
    evaluator,    \* the evaluator process of each attempt
    graded,       \* the patch injected into it
    runs,         \* how many evaluators the job of each attempt has had
    journal,      \* phase and policy result that _recover would restore
    sealed,       \* patches of the passing snapshots in the journal
    pending,      \* attempts with an accepted record and no terminal one, when down
    crashes

memoryVars == <<attempt, running, slots, cancelled, aborting, fence, charged, quarantined>>
evaluationVars == <<evaluator, graded, runs>>
vars == <<mode, memoryVars, docker, tree, evaluationVars, journal, sealed, pending, crashes>>

Phases == {"new", "preflighted", "worker_active", "snapshotted", "worker_destroyed",
           "policy_rejected", "evaluating", "acked", "aborted", "recovered", "blocked"}

Operations == {"preflight", "prepare", "tool", "snapshot", "restore", "destroy",
               "evaluate", "retry", "acknowledge", "abort"}

TypeOK ==
    /\ mode \in {"up", "down", "recovering"}
    /\ attempt \in [Attempts ->
          [phase : Phases, worker : BOOLEAN, lease : BOOLEAN, interrupted : BOOLEAN,
           recoveries : 0..1, patch : Patches \cup {NoPatch}, passed : BOOLEAN,
           audited : BOOLEAN, job : BOOLEAN, retries : 0..1, cached : 0..2]]
    /\ running \in [Attempts -> Operations \cup {"idle", "queued", "recover"}]
    /\ slots \in SUBSET Attempts
    /\ cancelled \in SUBSET Attempts
    /\ aborting \in SUBSET cancelled
    /\ fence \in BOOLEAN
    /\ charged \in SUBSET Attempts
    /\ quarantined \in SUBSET Attempts
    /\ docker \in [Attempts -> SUBSET {"worker", "evaluator"}]
    /\ tree \in [Attempts -> Patches]
    /\ evaluator \in [Attempts -> {"none", "running", "retryable", "failed", "completed"}]
    /\ graded \in [Attempts -> Patches \cup {NoPatch}]
    /\ runs \in [Attempts -> 0..2]
    /\ journal \in [Attempts -> [phase : Phases, passed : BOOLEAN]]
    /\ sealed \in [Attempts -> SUBSET Patches]
    /\ pending \in SUBSET Attempts
    /\ crashes \in 0..MaxCrashes

\* _AttemptState, as constructed.  lease: the client holds the current
\* lease_id; audited: worker_cleanup is clean; cached: the evaluator whose
\* artifacts are in artifact_response.
Fresh == [phase |-> "new", worker |-> FALSE, lease |-> FALSE, interrupted |-> FALSE,
          recoveries |-> 0, patch |-> NoPatch, passed |-> FALSE, audited |-> FALSE,
          job |-> FALSE, retries |-> 0, cached |-> 0]

Init ==
    /\ mode = "up"
    /\ attempt = [a \in Attempts |-> Fresh]
    /\ running = [a \in Attempts |-> "idle"]
    /\ slots = {} /\ cancelled = {} /\ aborting = {} /\ fence = FALSE
    /\ charged = {} /\ quarantined = {}
    /\ docker = [a \in Attempts |-> {}]
    /\ tree = [a \in Attempts |-> Untouched]
    /\ evaluator = [a \in Attempts |-> "none"]
    /\ graded = [a \in Attempts |-> NoPatch]
    /\ runs = [a \in Attempts |-> 0]
    /\ journal = [a \in Attempts |-> [phase |-> "new", passed |-> FALSE]]
    /\ sealed = [a \in Attempts |-> {}]
    /\ pending = {}
    /\ crashes = 0
-----------------------------------------------------------------------------
(* Prechecks.                                                               *)

MayPreflight(a) == attempt[a].phase \in {"new", "preflighted"}

MayUseWorker(a) == attempt[a].lease /\ attempt[a].phase \in {"worker_active", "snapshotted"}

MayRestore(a) ==
    /\ MayUseWorker(a)
    /\ attempt[a].interrupted
    /\ attempt[a].recoveries = 0
    /\ sealed[a] # {}

MayDestroy(a) ==
    /\ attempt[a].lease
    /\ attempt[a].phase = "snapshotted"
    /\ attempt[a].patch # NoPatch

MayEvaluate(a) ==
    /\ attempt[a].phase = "worker_destroyed"
    /\ attempt[a].audited
    /\ attempt[a].patch # NoPatch
    /\ attempt[a].passed

Terminal(a) == "evaluator" \in docker[a] /\ evaluator[a] \in {"retryable", "failed", "completed"}

\* get_job retries a failed evaluator once.
MayRetry(a) == attempt[a].job /\ Terminal(a) /\ evaluator[a] = "retryable" /\ attempt[a].retries = 0

MayAcknowledge(a) ==
    /\ attempt[a].phase = "evaluating"
    /\ attempt[a].job
    /\ attempt[a].cached # 0 \/ Terminal(a)

\* The artifacts the client acknowledges are those in the response it was
\* given, read now if none was.
Cached(a) == IF attempt[a].cached = 0 THEN runs[a] ELSE attempt[a].cached

Idle(a) == mode = "up" /\ running[a] = "idle"

Enter(a, operation, state) ==
    /\ running' = [running EXCEPT ![a] = operation]
    /\ attempt' = [attempt EXCEPT ![a] = state]
    /\ UNCHANGED <<slots, cancelled, aborting, fence, charged, quarantined, mode, docker,
                   tree, evaluationVars, journal, sealed, pending, crashes>>

Start(a) ==
    /\ Idle(a)
    /\ a \notin cancelled
    /\ \/ MayPreflight(a) /\ Enter(a, "preflight", attempt[a])
       \/ MayUseWorker(a) /\ \E op \in {"tool", "snapshot"} : Enter(a, op, attempt[a])
       \/ MayRestore(a) /\ Enter(a, "restore", attempt[a])
       \/ MayDestroy(a) /\ Enter(a, "destroy", attempt[a])
       \/ MayEvaluate(a) /\ Enter(a, "evaluate", attempt[a])
       \/ MayRetry(a) /\ Enter(a, "retry", [attempt[a] EXCEPT !.retries = 1])
       \/ MayAcknowledge(a) /\ Enter(a, "acknowledge", [attempt[a] EXCEPT !.cached = Cached(a)])

\* get_artifacts
ReadArtifacts(a) ==
    /\ Idle(a)
    /\ a \notin cancelled
    /\ attempt[a].job
    /\ Terminal(a)
    /\ Enter(a, "idle", [attempt[a] EXCEPT !.cached = Cached(a)])

-----------------------------------------------------------------------------
(* Admission of prepare_worker: its precheck waits for a slot while it holds *)
(* the attempt, and looks at the fence before and after.                     *)

StartPrepare(a) ==
    /\ Idle(a)
    /\ ~ fence
    /\ attempt[a].phase = "preflighted"
    /\ a \notin cancelled
    /\ Enter(a, "queued", attempt[a])

Admitted(a) ==
    /\ mode = "up"
    /\ running[a] = "queued"
    /\ a \notin cancelled
    /\ Cardinality(slots) < Capacity
    /\ running' = [running EXCEPT ![a] = IF fence THEN "idle" ELSE "prepare"]
    /\ slots' = IF fence THEN slots ELSE slots \cup {a}
    /\ UNCHANGED <<attempt, cancelled, aborting, fence, charged, quarantined, mode, docker,
                   tree, evaluationVars, journal, sealed, pending, crashes>>

\* Faulty: a call whose attempt is cancelled stays in the queue.
NotAdmittedUnlessFull(a) ==
    /\ mode = "up"
    /\ running[a] = "queued"
    /\ Cardinality(slots) >= Capacity /\ a \notin cancelled
    /\ Enter(a, "idle", attempt[a])

\* Cancelled, refused by a full queue, or late: a deadline blocks the attempt.
NotAdmitted(a) ==
    /\ mode = "up"
    /\ running[a] = "queued"
    /\ \/ Enter(a, "idle", attempt[a]) /\ (a \in cancelled \/ Cardinality(slots) >= Capacity)
       \/ Enter(a, "idle", [attempt[a] EXCEPT !.phase = "blocked"]) /\ a \notin cancelled
-----------------------------------------------------------------------------
(* The backend.                                                             *)

\* Faulty: the reservation of a clean owner is not released.
CleanedStillCharged(a) ==
    /\ a \in quarantined => docker[a] = {}
    /\ docker' = [docker EXCEPT ![a] = {}]
    /\ quarantined' = quarantined \ {a}
    /\ UNCHANGED <<charged, tree, evaluationVars>>

\* _recover_resources: remove everything the attempt owns and audit.  After an
\* unclean audit the owner is quarantined: later calls only audit again.
Cleaned(a) ==
    /\ a \in quarantined => docker[a] = {}
    /\ docker' = [docker EXCEPT ![a] = {}]
    /\ charged' = charged \ {a}
    /\ quarantined' = quarantined \ {a}
    /\ tree' = [tree EXCEPT ![a] = Untouched]
    /\ evaluator' = [evaluator EXCEPT ![a] = "none"]
    /\ graded' = [graded EXCEPT ![a] = NoPatch]
    /\ runs' = [runs EXCEPT ![a] = 0]

NotCleaned(a) ==
    /\ \E left \in SUBSET docker[a] :
          /\ a \in quarantined => left = docker[a]
          /\ docker' = [docker EXCEPT ![a] = left]
    /\ quarantined' = quarantined \cup {a}
    /\ UNCHANGED <<charged, tree, evaluationVars>>

\* A role is created under a reservation.
Created(a, role) ==
    /\ a \notin charged
    /\ docker' = [docker EXCEPT ![a] = @ \cup {role}]
    /\ charged' = charged \cup {a}
    /\ UNCHANGED quarantined

\* Faulty: the reservation is released although the audit found residuals.
NotCreatedNotCharged(a, role, before) ==
    \/ /\ docker' = [docker EXCEPT ![a] = before]
       /\ charged' = charged \ {a}
       /\ quarantined' = quarantined \ {a}
    \/ /\ \E left \in SUBSET (before \cup {role}) : docker' = [docker EXCEPT ![a] = left]
       /\ charged' = charged \ {a}
       /\ quarantined' = quarantined \cup {a}

\* Creation fails: before anything exists (or all of it is removed again), or
\* with residuals that stay charged.
NotCreated(a, role, before) ==
    \/ /\ docker' = [docker EXCEPT ![a] = before]
       /\ charged' = charged \ {a}
       /\ quarantined' = quarantined \ {a}
    \/ /\ \E left \in SUBSET (before \cup {role}) : docker' = [docker EXCEPT ![a] = left]
       /\ charged' = charged \cup {a}
       /\ quarantined' = quarantined \cup {a}

\* An attempt that is still charged is refused a second reservation.
CreationFails(a, role) ==
    \/ a \in charged /\ UNCHANGED <<docker, charged, quarantined>>
    \/ a \notin charged /\ \E before \in {docker[a], {}} : NotCreated(a, role, before)

\* A removal that Docker reported as failed completes later.
ResidualGone(a) ==
    /\ a \in quarantined
    /\ docker[a] # {}
    /\ docker' = [docker EXCEPT ![a] = {}]
    /\ UNCHANGED <<mode, memoryVars, tree, evaluationVars, journal, sealed, pending, crashes>>

EvaluatorEnds(a) ==
    /\ "evaluator" \in docker[a]
    /\ evaluator[a] = "running"
    /\ \E status \in {"retryable", "failed", "completed"} :
          evaluator' = [evaluator EXCEPT ![a] = status]
    /\ UNCHANGED <<mode, memoryVars, docker, tree, graded, runs, journal, sealed, pending, crashes>>
-----------------------------------------------------------------------------
(* An operation ends: its effect, and the terminal record that tells of it.  *)

Ends(a, operation) ==
    /\ mode = "up"
    /\ running[a] = operation
    /\ running' = [running EXCEPT ![a] = "idle"]
    /\ UNCHANGED <<mode, cancelled, pending, crashes>>

Becomes(a, state) == attempt' = [attempt EXCEPT ![a] = state]

Records(a, phase) == journal' = [journal EXCEPT ![a].phase = phase]

backendVars == <<docker, charged, quarantined, tree, evaluationVars>>

Preflighted(a) ==
    /\ Ends(a, "preflight")
    /\ Becomes(a, [attempt[a] EXCEPT !.phase = "preflighted"])
    /\ Records(a, "preflighted")
    /\ UNCHANGED <<slots, aborting, fence, sealed, backendVars>>

Prepared(a) ==
    /\ Ends(a, "prepare")
    /\ Created(a, "worker")
    /\ tree' = [tree EXCEPT ![a] = Untouched]
    /\ Becomes(a, [attempt[a] EXCEPT !.phase = "worker_active", !.worker = TRUE, !.lease = TRUE])
    /\ Records(a, "worker_active")
    /\ UNCHANGED <<slots, aborting, fence, sealed, evaluationVars>>

\* repo_edit and repo_exec; the other tools and the verification catalog
\* change nothing here.
Edited(a) ==
    /\ Ends(a, "tool")
    /\ \E p \in Patches : tree' = [tree EXCEPT ![a] = p]
    /\ Becomes(a, [attempt[a] EXCEPT !.phase = "worker_active", !.patch = NoPatch, !.passed = FALSE])
    /\ UNCHANGED <<slots, aborting, fence, docker, charged, quarantined, evaluationVars,
                   journal, sealed>>

\* Faulty: once a snapshot has passed, the next ones do.
SnapshottedSticky(a) ==
    /\ Ends(a, "snapshot")
    /\ LET passed == attempt[a].passed \/ tree[a] \in Allowed
       IN  /\ Becomes(a, [attempt[a] EXCEPT !.phase = "snapshotted", !.patch = tree[a], !.passed = passed])
           /\ journal' = [journal EXCEPT ![a] = [phase |-> "snapshotted", passed |-> passed]]
    /\ sealed' = [sealed EXCEPT ![a] = @ \cup ({tree[a]} \cap Allowed)]
    /\ UNCHANGED <<slots, aborting, fence, backendVars>>

Snapshotted(a) ==
    /\ Ends(a, "snapshot")
    /\ Becomes(a, [attempt[a] EXCEPT !.phase = "snapshotted", !.patch = tree[a],
                                     !.passed = tree[a] \in Allowed])
    /\ journal' = [journal EXCEPT ![a] = [phase |-> "snapshotted", passed |-> tree[a] \in Allowed]]
    /\ sealed' = [sealed EXCEPT ![a] = @ \cup ({tree[a]} \cap Allowed)]
    /\ UNCHANGED <<slots, aborting, fence, backendVars>>

\* restore_worker: the old Worker is removed, a fresh one created, and a
\* sealed patch applied to it and snapshotted again.  _restore_response knows
\* nothing of it.
Restored(a) ==
    /\ Ends(a, "restore")
    /\ a \in quarantined => docker[a] = {}
    /\ docker' = [docker EXCEPT ![a] = {"worker"}]
    /\ charged' = charged \cup {a}
    /\ quarantined' = quarantined \ {a}
    /\ \E checkpoint \in sealed[a] :
          /\ tree' = [tree EXCEPT ![a] = checkpoint]
          /\ Becomes(a, [attempt[a] EXCEPT !.phase = "snapshotted", !.patch = checkpoint,
                                           !.passed = TRUE, !.interrupted = FALSE, !.recoveries = 1])
    /\ UNCHANGED <<slots, aborting, fence, evaluationVars, journal, sealed>>

Destroyed(a) ==
    /\ Ends(a, "destroy")
    /\ Cleaned(a)
    /\ LET phase == IF attempt[a].passed THEN "worker_destroyed" ELSE "policy_rejected"
       IN  /\ Becomes(a, [attempt[a] EXCEPT !.phase = phase, !.worker = FALSE, !.audited = TRUE])
           /\ slots' = IF attempt[a].passed THEN slots ELSE slots \ {a}
    /\ Records(a, IF journal[a].passed THEN "worker_destroyed" ELSE "policy_rejected")
    /\ UNCHANGED <<aborting, fence, sealed>>

\* The Worker is gone, and the offer to the pool of evaluators raises.  The response of a
\* failed operation is not restored; with neither a Worker nor a job the slot goes.
NotPrewarmed(a) ==
    /\ Prewarms
    /\ Ends(a, "destroy")
    /\ attempt[a].passed
    /\ Cleaned(a)
    /\ \E phase \in {"worker_destroyed", "blocked"} :
          Becomes(a, [attempt[a] EXCEPT !.phase = phase, !.worker = FALSE, !.audited = TRUE])
    /\ slots' = slots \ {a}
    /\ UNCHANGED <<aborting, fence, journal, sealed>>

NotDestroyed(a) ==
    /\ Ends(a, "destroy")
    /\ NotCleaned(a)
    /\ Becomes(a, [attempt[a] EXCEPT !.phase = "blocked", !.worker = FALSE, !.audited = FALSE])
    /\ Records(a, "blocked")
    /\ UNCHANGED <<slots, aborting, fence, sealed>>

\* An evaluator runs with the sealed patch as its input.
EvaluatorRuns(a, number) ==
    /\ evaluator' = [evaluator EXCEPT ![a] = "running"]
    /\ graded' = [graded EXCEPT ![a] = attempt[a].patch]
    /\ runs' = [runs EXCEPT ![a] = number]

EvaluationStarted(a) ==
    /\ Ends(a, "evaluate")
    /\ Created(a, "evaluator")
    /\ EvaluatorRuns(a, 1)
    /\ Becomes(a, [attempt[a] EXCEPT !.phase = "evaluating", !.job = TRUE])
    /\ Records(a, "evaluating")
    /\ UNCHANGED <<slots, aborting, fence, tree, sealed>>

\* get_job's retry: the failed evaluator is discarded and a new one started
\* under the same job.  _restore_response knows nothing of it.
RetryStarted(a) ==
    /\ Ends(a, "retry")
    /\ a \in quarantined => docker[a] = {}
    /\ docker' = [docker EXCEPT ![a] = {"evaluator"}]
    /\ charged' = charged \cup {a}
    /\ quarantined' = quarantined \ {a}
    /\ EvaluatorRuns(a, 2)
    /\ Becomes(a, [attempt[a] EXCEPT !.cached = 0])
    /\ UNCHANGED <<slots, aborting, fence, tree, journal, sealed>>

NotDiscarded(a) ==
    /\ Ends(a, "retry")
    /\ NotCleaned(a)
    /\ Becomes(a, [attempt[a] EXCEPT !.phase = "blocked"])
    /\ UNCHANGED <<slots, aborting, fence, journal, sealed>>

RetryFails(a) ==
    /\ Ends(a, "retry")
    /\ a \in quarantined => docker[a] = {}
    /\ NotCreated(a, "evaluator", {})
    /\ evaluator' = [evaluator EXCEPT ![a] = "none"]
    /\ Becomes(a, [attempt[a] EXCEPT !.cached = 0])
    /\ UNCHANGED <<slots, aborting, fence, tree, graded, runs, journal, sealed>>

Acknowledged(a) ==
    /\ Ends(a, "acknowledge")
    /\ Cleaned(a)
    /\ Becomes(a, [attempt[a] EXCEPT !.phase = "acked", !.job = FALSE])
    /\ slots' = slots \ {a}
    /\ Records(a, "acked")
    /\ UNCHANGED <<aborting, fence, sealed>>

NotAcknowledged(a) ==
    /\ Ends(a, "acknowledge")
    /\ NotCleaned(a)
    /\ Becomes(a, [attempt[a] EXCEPT !.phase = "blocked", !.job = FALSE])
    /\ Records(a, "blocked")
    /\ UNCHANGED <<slots, aborting, fence, sealed>>
-----------------------------------------------------------------------------
(* An operation raises.  Its failed response is not restored either.        *)

Reasons == {"other", "blocked", "interrupted"}

SlotAfterFailure(a) ==
    slots' = IF attempt[a].worker \/ attempt[a].job THEN slots ELSE slots \ {a}

\* The attempt after an error with this reason code.
After(a, reason) ==
    [attempt[a] EXCEPT !.phase = IF reason = "blocked" THEN "blocked" ELSE @,
                       !.interrupted = @ \/ (reason = "interrupted" /\ attempt[a].worker)]

Raises(a, operation) ==
    /\ Ends(a, operation)
    /\ SlotAfterFailure(a)
    /\ UNCHANGED <<aborting, fence, evaluationVars, journal, sealed>>

OperationFails(a) ==
    \E reason \in Reasons :
        \/ /\ \E op \in {"preflight", "snapshot", "destroy", "acknowledge"} : Raises(a, op)
           /\ Becomes(a, After(a, reason))
           /\ UNCHANGED <<docker, charged, quarantined, tree>>
        \/ /\ Raises(a, "tool")
           /\ Becomes(a, After(a, reason))
           /\ \E p \in Patches : tree' = [tree EXCEPT ![a] = p]
           /\ UNCHANGED <<docker, charged, quarantined>>
        \/ /\ Raises(a, "prepare")
           /\ Becomes(a, After(a, reason))
           /\ CreationFails(a, "worker")
           /\ UNCHANGED tree
        \/ /\ Raises(a, "evaluate")
           /\ Becomes(a, After(a, reason))
           /\ CreationFails(a, "evaluator")
           /\ UNCHANGED tree

\* The old Worker is not removed; or no new one is created; or the sealed
\* patch does not apply; or, with a lease_id the client is never told, the
\* restored tree is not what was sealed.
RestoreFails(a) ==
    \E reason \in Reasons :
        /\ Raises(a, "restore")
        /\ \/ /\ reason = "blocked"
              /\ NotCleaned(a)
              /\ Becomes(a, [After(a, reason) EXCEPT !.recoveries = 1])
           \/ /\ a \in quarantined => docker[a] = {}
              /\ NotCreated(a, "worker", {})
              /\ Becomes(a, [After(a, reason) EXCEPT !.recoveries = 1])
              /\ UNCHANGED tree
           \/ /\ a \in quarantined => docker[a] = {}
              /\ docker' = [docker EXCEPT ![a] = {"worker"}]
              /\ charged' = charged \cup {a}
              /\ quarantined' = quarantined \ {a}
              /\ \E p \in Patches : tree' = [tree EXCEPT ![a] = p]
              /\ \E lease \in BOOLEAN :
                    Becomes(a, [After(a, reason) EXCEPT !.recoveries = 1, !.lease = lease])

\* An operation that was registered before its attempt was cancelled.
Refused(a) ==
    /\ Idle(a)
    /\ a \in cancelled
    /\ MayEvaluate(a)
    /\ SlotAfterFailure(a)
    /\ UNCHANGED <<mode, attempt, running, cancelled, aborting, fence, charged, quarantined,
                   docker, tree, evaluationVars, journal, sealed, pending, crashes>>
-----------------------------------------------------------------------------
(* Abort: cancels at once what waits, and waits for its turn.               *)

RequestAbort(a) ==
    /\ mode = "up"
    /\ cancelled' = cancelled \cup {a}
    /\ aborting' = aborting \cup {a}
    /\ UNCHANGED <<mode, attempt, running, slots, fence, charged, quarantined, docker, tree,
                   evaluationVars, journal, sealed, pending, crashes>>

StartAbort(a) ==
    /\ Idle(a)
    /\ a \in aborting
    /\ Enter(a, "abort", attempt[a])

\* Faulty: the fence is not computed again.
FenceKept(a) == fence' = fence

\* Whether another attempt is blocked.
FenceWithout(a) == fence' = \E b \in Attempts \ {a} : attempt[b].phase = "blocked"

Aborted(a) ==
    /\ Ends(a, "abort")
    /\ Cleaned(a)
    /\ Becomes(a, [attempt[a] EXCEPT !.phase = "aborted", !.worker = FALSE, !.lease = FALSE,
                   !.patch = NoPatch, !.passed = FALSE, !.audited = TRUE, !.job = FALSE, !.cached = 0])
    /\ slots' = slots \ {a}
    /\ aborting' = aborting \ {a}
    /\ FenceWithout(a)
    /\ Records(a, "aborted")
    /\ UNCHANGED sealed

NotAborted(a) ==
    /\ Ends(a, "abort")
    /\ NotCleaned(a)
    /\ Becomes(a, [attempt[a] EXCEPT !.phase = "blocked"])
    /\ aborting' = aborting \ {a}
    /\ Records(a, "blocked")
    /\ UNCHANGED <<slots, fence, sealed>>

-----------------------------------------------------------------------------
(* Kill and restart.                                                        *)

\* What an operation may have created or removed when it is killed.
Creating(a) ==
    {role \in {"worker"} : running[a] \in {"prepare", "restore"}}
    \cup {role \in {"evaluator"} : running[a] \in {"evaluate", "retry"}}

Removing(a) ==
    running[a] \in {"prepare", "restore", "destroy", "evaluate", "retry", "acknowledge",
                    "abort", "recover"}

Crash ==
    /\ mode # "down"
    /\ crashes < MaxCrashes
    /\ crashes' = crashes + 1
    /\ mode' = "down"
    /\ docker' \in [Attempts -> SUBSET {"worker", "evaluator"}]
    /\ \A a \in Attempts :
          /\ docker'[a] \subseteq docker[a] \cup Creating(a)
          /\ Removing(a) \/ docker[a] \subseteq docker'[a]
    /\ pending' = pending \cup {a \in Attempts : running[a] \in Operations}
    /\ attempt' = [a \in Attempts |-> Fresh]
    /\ running' = [a \in Attempts |-> "idle"]
    /\ slots' = {} /\ cancelled' = {} /\ aborting' = {} /\ fence' = FALSE
    /\ charged' = {} /\ quarantined' = {}
    /\ UNCHANGED <<tree, evaluationVars, journal, sealed>>

\* start_runtime removes what carries the pool label, or refuses to start.
Sweep(a) ==
    /\ mode = "down"
    /\ Pooled
    /\ docker[a] # {}
    /\ docker' = [docker EXCEPT ![a] = {}]
    /\ UNCHANGED <<mode, memoryVars, tree, evaluationVars, journal, sealed, pending, crashes>>

NeedsRecovery(a) ==
    \/ a \in pending
    \/ journal[a].phase \in {"worker_active", "snapshotted", "worker_destroyed", "evaluating",
                             "blocked"}

Restart ==
    /\ mode = "down"
    /\ Pooled => \A a \in Attempts : docker[a] = {}
    /\ mode' = "recovering"
    /\ attempt' = [a \in Attempts |-> [Fresh EXCEPT !.phase = journal[a].phase,
                                                    !.passed = journal[a].passed]]
    /\ running' = [a \in Attempts |-> IF NeedsRecovery(a) THEN "recover" ELSE "idle"]
    /\ UNCHANGED <<slots, cancelled, aborting, fence, charged, quarantined, docker, tree,
                   evaluationVars, journal, sealed, pending, crashes>>

\* recover_attempt, and the terminal record of what was pending or a
\* runtime_recovery record.
Recover(a) ==
    /\ mode = "recovering"
    /\ running[a] = "recover"
    /\ \E phase \in {"recovered", "blocked"} :
          /\ IF phase = "recovered" THEN Cleaned(a) ELSE NotCleaned(a)
          /\ Becomes(a, [attempt[a] EXCEPT !.phase = phase])
          /\ Records(a, phase)
    /\ running' = [running EXCEPT ![a] = "idle"]
    /\ pending' = pending \ {a}
    /\ UNCHANGED <<mode, slots, cancelled, aborting, fence, sealed, crashes>>

Recovered ==
    /\ mode = "recovering"
    /\ \A a \in Attempts : running[a] = "idle"
    /\ mode' = "up"
    /\ fence' = \E a \in Attempts : attempt[a].phase = "blocked"
    /\ UNCHANGED <<attempt, running, slots, cancelled, aborting, charged, quarantined, docker,
                   tree, evaluationVars, journal, sealed, pending, crashes>>
-----------------------------------------------------------------------------
\* How the operation an attempt is at ends.
Finish(a) ==
    \/ Admitted(a) \/ NotAdmitted(a)
    \/ Preflighted(a)
    \/ Prepared(a)
    \/ Edited(a)
    \/ Snapshotted(a)
    \/ Restored(a) \/ RestoreFails(a)
    \/ Destroyed(a) \/ NotPrewarmed(a) \/ NotDestroyed(a)
    \/ EvaluationStarted(a)
    \/ RetryStarted(a) \/ NotDiscarded(a) \/ RetryFails(a)
    \/ Acknowledged(a) \/ NotAcknowledged(a)
    \/ OperationFails(a)
    \/ Aborted(a) \/ NotAborted(a)

Next ==
    \/ \E a \in Attempts :
          \/ Start(a) \/ StartPrepare(a) \/ ReadArtifacts(a) \/ Refused(a)
          \/ RequestAbort(a) \/ StartAbort(a)
          \/ Finish(a)
          \/ ResidualGone(a) \/ EvaluatorEnds(a)
          \/ Sweep(a) \/ Recover(a)
    \/ Crash
    \/ Restart
    \/ Recovered

Spec == Init /\ [][Next]_vars

\* Every Docker call, every wait for a slot and every wait for a cleanup of its own ends.
\* Only the wait in _wait_retired for an entry that somebody else retires has no deadline:
\* WorkerPool says when there is nobody left to end it.
FairSpec ==
    /\ Spec
    /\ \A a \in Attempts : WF_vars(Finish(a)) /\ WF_vars(StartAbort(a))
-----------------------------------------------------------------------------
(* Properties.                                                              *)

\* What is graded is a patch that was sealed by a passing snapshot, whatever
\* edits, failed tools, restorations and retries lie between; and the Worker
\* that made it has left nothing beside the evaluator.  Artifacts that can be acknowledged
\* are those of the job's last evaluator, not of one that a retry has discarded.
GradedAsSealed ==
    \A a \in Attempts : attempt[a].job =>
        /\ graded[a] = attempt[a].patch
        /\ graded[a] \in sealed[a] \cap Allowed
        /\ "worker" \notin docker[a]
        /\ attempt[a].cached \in {0, runs[a]}

\* What Docker holds for an attempt is charged to it, or new Workers are
\* fenced off until it is removed; and the fence is up only while some attempt is
\* blocked: aborting or recovering the last one opens admission again.
ResidualsCharged ==
    mode = "up" =>
        /\ \A a \in Attempts : docker[a] # {} => a \in charged \/ fence
        /\ fence => \E a \in Attempts : attempt[a].phase = "blocked"

Ended == {"acked", "aborted", "recovered"}

\* An attempt whose end is on disk owns nothing: no handle, no slot, no
\* reservation and nothing in Docker, however it ended.
EndedOwnsNothing ==
    mode = "up" => \A a \in Attempts : journal[a].phase \in Ended =>
        /\ ~ attempt[a].worker /\ ~ attempt[a].job
        /\ a \notin slots /\ a \notin charged
        /\ docker[a] = {}

\* An abort is not starved by the operation it waits for, or by a full queue.
AbortEnds == \A a \in Attempts : a \in aborting ~> a \notin aborting

\* "With capacity 1 at most one heavy container exists."
WithinCapacity == Cardinality({a \in Attempts : attempt[a].worker \/ attempt[a].job}) <= Capacity
=============================================================================
