------------------------ MODULE AttemptLifecycleProofs ------------------------
(* Theorems about the operations of an attempt over the Docker backend, for    *)
(* any attempts, slots, patches and number of kills.                           *)
EXTENDS AttemptLifecycle, TLAPS

-----------------------------------------------------------------------------
(* Types.                                                                    *)
MaybePatch == Patches \cup {NoPatch}
AttemptState ==
    [phase : Phases, worker : BOOLEAN, lease : BOOLEAN, interrupted : BOOLEAN,
     recoveries : 0..1, patch : MaybePatch, passed : BOOLEAN,
     audited : BOOLEAN, job : BOOLEAN, retries : 0..1, cached : 0..2]

\* What the actions of one attempt do to the state of another: nothing, except that a
\* slot may become free.
Same(b) ==
    /\ mode' = mode
    /\ attempt'[b] = attempt[b] /\ running'[b] = running[b] /\ docker'[b] = docker[b]
    /\ graded'[b] = graded[b] /\ runs'[b] = runs[b]
    /\ journal'[b] = journal[b] /\ sealed'[b] = sealed[b]
    /\ b \in slots' => b \in slots
    /\ b \in charged' <=> b \in charged

ActionOf(a) ==
    \/ Start(a) \/ StartPrepare(a) \/ ReadArtifacts(a) \/ Refused(a)
    \/ RequestAbort(a) \/ StartAbort(a)
    \/ Finish(a)
    \/ ResidualGone(a) \/ EvaluatorEnds(a)
    \/ Sweep(a) \/ Recover(a)

LEMMA InitType == Init => TypeOK
  <1> SUFFICES ASSUME Init PROVE TypeOK
    OBVIOUS
  <1>1. Fresh \in AttemptState
    BY DEF Fresh, AttemptState, Phases, MaybePatch
  <1>2. attempt \in [Attempts -> AttemptState]
    BY <1>1 DEF Init
  <1>3. journal \in [Attempts -> [phase : Phases, passed : BOOLEAN]]
    BY DEF Init, Phases
  <1>4. /\ running \in [Attempts -> Operations \cup {"idle", "queued", "recover"}]
        /\ docker \in [Attempts -> SUBSET {"worker", "evaluator"}]
        /\ tree \in [Attempts -> Patches]
        /\ sealed \in [Attempts -> SUBSET Patches]
    BY LifecycleAssumption DEF Init
  <1>5. /\ evaluator \in [Attempts -> {"none", "running", "retryable", "failed", "completed"}]
        /\ graded \in [Attempts -> Patches \cup {NoPatch}]
        /\ runs \in [Attempts -> 0..2]
        /\ crashes \in 0..MaxCrashes
    BY LifecycleAssumption DEF Init
  <1>6. /\ mode \in {"up", "down", "recovering"} /\ fence \in BOOLEAN
        /\ slots \in SUBSET Attempts /\ cancelled \in SUBSET Attempts
        /\ aborting \in SUBSET cancelled /\ charged \in SUBSET Attempts
        /\ quarantined \in SUBSET Attempts /\ pending \in SUBSET Attempts
    BY DEF Init
  <1> QED
    BY <1>2, <1>3, <1>4, <1>5, <1>6 DEF TypeOK, AttemptState, MaybePatch

\* An operation in progress, or its start.
LEMMA EnterType ==
    ASSUME TypeOK, NEW a \in Attempts, NEW op \in Operations \cup {"idle", "queued"},
           NEW s \in AttemptState, Enter(a, op, s)
    PROVE  TypeOK'
  BY DEF TypeOK, Enter, AttemptState, MaybePatch, evaluationVars

LEMMA StartType ==
    ASSUME TypeOK, NEW a \in Attempts, Start(a) \/ StartPrepare(a) \/ ReadArtifacts(a)
    PROVE  TypeOK'
  <1>0. attempt[a] \in AttemptState /\ runs[a] \in 0..2
    BY DEF TypeOK, AttemptState, MaybePatch
  <1>1. [attempt[a] EXCEPT !.retries = 1] \in AttemptState
    BY <1>0 DEF AttemptState
  <1>2. [attempt[a] EXCEPT !.cached = Cached(a)] \in AttemptState
    BY <1>0 DEF AttemptState, Cached
  <1> QED
    BY <1>0, <1>1, <1>2, EnterType DEF Start, StartPrepare, ReadArtifacts, Operations

\* What the backend keeps.
Roles == {"worker", "evaluator"}
BackendType ==
    /\ charged \in SUBSET Attempts /\ quarantined \in SUBSET Attempts
    /\ docker \in [Attempts -> SUBSET Roles]
    /\ tree \in [Attempts -> Patches]
    /\ evaluator \in [Attempts -> {"none", "running", "retryable", "failed", "completed"}]
    /\ graded \in [Attempts -> Patches \cup {NoPatch}]
    /\ runs \in [Attempts -> 0..2]

LEMMA CleanedType ==
    ASSUME BackendType, NEW a \in Attempts, Cleaned(a) PROVE BackendType'
  BY LifecycleAssumption DEF BackendType, Cleaned

LEMMA NotCleanedType ==
    ASSUME BackendType, NEW a \in Attempts, NotCleaned(a) PROVE BackendType'
  BY DEF BackendType, NotCleaned, evaluationVars

LEMMA CreatedType ==
    ASSUME BackendType, NEW a \in Attempts, NEW role \in Roles, Created(a, role)
    PROVE  charged' \in SUBSET Attempts /\ quarantined' \in SUBSET Attempts
           /\ docker' \in [Attempts -> SUBSET Roles]
  BY DEF BackendType, Created

LEMMA NotCreatedType ==
    ASSUME BackendType, NEW a \in Attempts, NEW role \in Roles, NEW before \in SUBSET Roles,
           NotCreated(a, role, before)
    PROVE  charged' \in SUBSET Attempts /\ quarantined' \in SUBSET Attempts
           /\ docker' \in [Attempts -> SUBSET Roles]
  BY DEF BackendType, NotCreated

LEMMA CreationFailsType ==
    ASSUME BackendType, NEW a \in Attempts, NEW role \in Roles, CreationFails(a, role)
    PROVE  charged' \in SUBSET Attempts /\ quarantined' \in SUBSET Attempts
           /\ docker' \in [Attempts -> SUBSET Roles]
  <1>1. docker[a] \in SUBSET Roles /\ {} \in SUBSET Roles
    BY DEF BackendType
  <1>2. CASE UNCHANGED <<docker, charged, quarantined>>
    BY <1>2 DEF BackendType
  <1>3. CASE \E before \in {docker[a], {}} : NotCreated(a, role, before)
    BY <1>1, <1>3, NotCreatedType
  <1> QED
    BY <1>2, <1>3 DEF CreationFails

\* An operation that ends well typed.
LEMMA EndsType ==
    ASSUME TypeOK, NEW a \in Attempts, NEW op, Ends(a, op),
           NEW s \in AttemptState, Becomes(a, s),
           BackendType', slots' \in SUBSET Attempts, aborting' \in SUBSET aborting,
           fence' \in BOOLEAN, sealed' \in [Attempts -> SUBSET Patches],
           journal' \in [Attempts -> [phase : Phases, passed : BOOLEAN]]
    PROVE  TypeOK'
  BY DEF TypeOK, Ends, Becomes, BackendType, Roles, AttemptState, MaybePatch

\* Updates of several fields.
LEMMA Fields ==
    ASSUME NEW s \in AttemptState, NEW p \in Phases, NEW q \in MaybePatch,
           NEW x \in BOOLEAN, NEW y \in BOOLEAN, NEW n \in 0..1, NEW c \in 0..2
    PROVE  /\ [s EXCEPT !.phase = p, !.patch = q, !.passed = x] \in AttemptState
           /\ [s EXCEPT !.recoveries = n] \in AttemptState
           /\ [s EXCEPT !.recoveries = n, !.lease = x] \in AttemptState
           /\ [s EXCEPT !.phase = p, !.worker = x, !.lease = x, !.patch = q, !.passed = x,
                        !.audited = y, !.job = x, !.cached = c] \in AttemptState
  BY DEF AttemptState

LEMMA FinishType ==
    ASSUME TypeOK, NEW a \in Attempts, Finish(a)
    PROVE  TypeOK'
  <1> DEFINE State == AttemptState
             Journal == [Attempts -> [phase : Phases, passed : BOOLEAN]]
             Kept == slots' \in SUBSET Attempts /\ aborting' \in SUBSET aborting
                     /\ fence' \in BOOLEAN
             KeptS == slots' \in SUBSET Attempts /\ sealed' \in [Attempts -> SUBSET Patches]
  <1>0. /\ attempt[a] \in AttemptState /\ tree[a] \in Patches
        /\ sealed[a] \subseteq Patches
        /\ journal \in Journal /\ slots \in SUBSET Attempts /\ fence \in BOOLEAN
        /\ sealed \in [Attempts -> SUBSET Patches]
    BY DEF TypeOK, AttemptState, MaybePatch
  <1>j. ASSUME NEW p \in Phases, Records(a, p) PROVE journal' \in Journal
    BY <1>0, <1>j DEF Records
  <1>m. NoPatch \in MaybePatch /\ \A p \in Patches : p \in MaybePatch
    BY DEF MaybePatch
  <1>b. BackendType
    BY DEF TypeOK, BackendType, Roles
  <1>r. "worker" \in Roles /\ "evaluator" \in Roles
    BY DEF Roles
  <1>p. /\ {"preflighted", "worker_active", "snapshotted", "worker_destroyed", "policy_rejected",
           "evaluating", "acked", "aborted", "blocked"} \subseteq Phases
    BY DEF Phases
  <1>s. \A reason \in Reasons : After(a, reason) \in AttemptState
    BY <1>0, ZenonT(30) DEF After, AttemptState, Reasons, Phases
  <1>1. ASSUME Admitted(a) \/ NotAdmitted(a) PROVE TypeOK'
    <2>1. CASE Admitted(a)
      BY <2>1 DEF TypeOK, Admitted, evaluationVars, Operations
    <2>2. [attempt[a] EXCEPT !.phase = "blocked"] \in AttemptState
      BY <1>0, <1>m, <1>p DEF AttemptState
    <2>3. CASE NotAdmitted(a)
      BY <1>0, <2>2, <2>3, EnterType DEF NotAdmitted
    <2> QED
      BY <1>1, <2>1, <2>3
  <1>2. ASSUME Preflighted(a) PROVE TypeOK'
    <2>1. [attempt[a] EXCEPT !.phase = "preflighted"] \in AttemptState
      BY <1>0, <1>m, <1>p DEF AttemptState
    <2>2. BackendType'
      BY <1>2, <1>b DEF Preflighted, backendVars, evaluationVars, BackendType
    <2> QED
      BY <1>0, <1>2, <1>p, <1>j, <2>1, <2>2, EndsType DEF Preflighted
  <1>3. ASSUME Prepared(a) PROVE TypeOK'
    <2>1. [attempt[a] EXCEPT !.phase = "worker_active", !.worker = TRUE, !.lease = TRUE]
            \in AttemptState
      BY <1>0, <1>m, <1>p DEF AttemptState
    <2>2. BackendType'
      BY <1>3, <1>b, <1>r, CreatedType, LifecycleAssumption
         DEF Prepared, evaluationVars, BackendType
    <2> QED
      BY <1>0, <1>3, <1>p, <1>j, <2>1, <2>2, EndsType DEF Prepared
  <1>4. ASSUME Edited(a) PROVE TypeOK'
    <2>1. [attempt[a] EXCEPT !.phase = "worker_active", !.patch = NoPatch, !.passed = FALSE]
            \in AttemptState
      BY <1>0, <1>m, <1>p DEF AttemptState
    <2>2. BackendType'
      BY <1>4, <1>b DEF Edited, evaluationVars, BackendType
    <2> QED
      BY <1>0, <1>4, <1>p, <1>j, <2>1, <2>2, EndsType DEF Edited
  <1>5. ASSUME Snapshotted(a) PROVE TypeOK'
    <2>1. [attempt[a] EXCEPT !.phase = "snapshotted", !.patch = tree[a],
                             !.passed = tree[a] \in Allowed] \in AttemptState
      <3> DEFINE passed == tree[a] \in Allowed
      <3>1. passed \in BOOLEAN /\ tree[a] \in MaybePatch /\ "snapshotted" \in Phases
        BY <1>0, <1>m, <1>p
      <3> HIDE DEF passed
      <3>2. [attempt[a] EXCEPT !.phase = "snapshotted", !.patch = tree[a], !.passed = passed]
              \in AttemptState
        BY <1>0, <3>1 DEF AttemptState
      <3> QED
        BY <3>2 DEF passed
    <2>2. BackendType'
      BY <1>5, <1>b DEF Snapshotted, backendVars, evaluationVars, BackendType
    <2>3. journal' \in Journal
      BY <1>0, <1>5, <1>p DEF Snapshotted
    <2>4. sealed' \in [Attempts -> SUBSET Patches]
      BY <1>0, <1>5 DEF Snapshotted
    <2> QED
      BY <1>0, <1>5, <2>1, <2>2, <2>3, <2>4, EndsType DEF Snapshotted
  <1>6. ASSUME Restored(a) PROVE TypeOK'
    <2>1. PICK checkpoint \in sealed[a] :
            /\ tree' = [tree EXCEPT ![a] = checkpoint]
            /\ Becomes(a, [attempt[a] EXCEPT !.phase = "snapshotted", !.patch = checkpoint,
                             !.passed = TRUE, !.interrupted = FALSE, !.recoveries = 1])
      BY <1>6 DEF Restored
    <2>2. [attempt[a] EXCEPT !.phase = "snapshotted", !.patch = checkpoint, !.passed = TRUE,
                             !.interrupted = FALSE, !.recoveries = 1] \in AttemptState
      <3>1. checkpoint \in MaybePatch /\ "snapshotted" \in Phases /\ 1 \in 0..1
        BY <1>0, <1>m, <1>p
      <3> QED
        BY <1>0, <3>1 DEF AttemptState
    <2>3. BackendType'
      BY <1>0, <1>6, <1>b, <1>r, <2>1 DEF Restored, evaluationVars, BackendType
    <2> QED
      BY <1>0, <1>6, <2>1, <2>2, <2>3, EndsType DEF Restored
  <1>7. ASSUME RestoreFails(a) PROVE TypeOK'
    <2>1. PICK reason \in Reasons :
            /\ Raises(a, "restore")
            /\ \/ /\ reason = "blocked"
                  /\ NotCleaned(a)
                  /\ Becomes(a, [After(a, reason) EXCEPT !.recoveries = 1])
               \/ /\ a \in quarantined => docker[a] = {}
                  /\ NotCreated(a, "worker", {})
                  /\ Becomes(a, [After(a, reason) EXCEPT !.recoveries = 1])
                  /\ UNCHANGED tree
               \/ /\ a \in quarantined => docker[a] = {}
                  /\ docker' = [docker EXCEPT ![a] = {"worker"}]
                  /\ charged' = charged \cup {a}
                  /\ quarantined' = quarantined \ {a}
                  /\ \E p \in Patches : tree' = [tree EXCEPT ![a] = p]
                  /\ \E lease \in BOOLEAN :
                        Becomes(a, [After(a, reason) EXCEPT !.recoveries = 1, !.lease = lease])
      BY <1>7 DEF RestoreFails
    <2>2. \A lease \in BOOLEAN :
             /\ [After(a, reason) EXCEPT !.recoveries = 1] \in AttemptState
             /\ [After(a, reason) EXCEPT !.recoveries = 1, !.lease = lease] \in AttemptState
      <3>1. After(a, reason) \in AttemptState
        BY <1>s
      <3> QED
        BY <3>1, <1>m, <1>p, 1 \in 0..1, 0 \in 0..2, Fields
    <2>3. Ends(a, "restore") /\ SlotAfterFailure(a)
          /\ UNCHANGED <<aborting, fence, evaluationVars, journal, sealed>>
      BY <2>1 DEF Raises
    <2>4. slots' \in SUBSET Attempts
      BY <1>0, <2>3 DEF SlotAfterFailure
    <2>5. BackendType'
      <3>1. CASE NotCleaned(a)
        BY <3>1, <1>b, NotCleanedType
      <3>2. CASE NotCreated(a, "worker", {}) /\ UNCHANGED tree
        <4>1. {} \in SUBSET Roles
          OBVIOUS
        <4> QED
          BY <3>2, <4>1, <1>b, <1>r, <2>3, NotCreatedType DEF BackendType, evaluationVars
      <3>3. CASE /\ docker' = [docker EXCEPT ![a] = {"worker"}]
                 /\ charged' = charged \cup {a}
                 /\ quarantined' = quarantined \ {a}
                 /\ \E p \in Patches : tree' = [tree EXCEPT ![a] = p]
        BY <3>3, <1>b, <1>r, <2>3 DEF BackendType, evaluationVars
      <3> QED
        BY <2>1, <3>1, <3>2, <3>3
    <2> QED
      BY <1>0, <2>1, <2>2, <2>3, <2>4, <2>5, EndsType
  <1>8. ASSUME Destroyed(a) PROVE TypeOK'
    <2>1. \A phase \in {"worker_destroyed", "policy_rejected"} :
             [attempt[a] EXCEPT !.phase = phase, !.worker = FALSE, !.audited = TRUE]
                \in AttemptState
      BY <1>0, <1>m, <1>p DEF AttemptState
    <2>2. BackendType'
      BY <1>8, <1>b, CleanedType DEF Destroyed
    <2>3. journal' \in Journal
      BY <1>0, <1>8, <1>j, <1>p DEF Destroyed
    <2> QED
      BY <1>0, <1>8, <2>1, <2>2, <2>3, EndsType DEF Destroyed
  <1>9. ASSUME NotDestroyed(a) PROVE TypeOK'
    <2>1. [attempt[a] EXCEPT !.phase = "blocked", !.worker = FALSE, !.audited = FALSE]
            \in AttemptState
      BY <1>0, <1>m, <1>p DEF AttemptState
    <2>2. BackendType'
      BY <1>9, <1>b, NotCleanedType DEF NotDestroyed
    <2> QED
      BY <1>0, <1>9, <1>p, <1>j, <2>1, <2>2, EndsType DEF NotDestroyed
  <1>10. ASSUME EvaluationStarted(a) PROVE TypeOK'
    <2>1. [attempt[a] EXCEPT !.phase = "evaluating", !.job = TRUE] \in AttemptState
      BY <1>0, <1>m, <1>p DEF AttemptState
    <2>2. BackendType'
      <3>1. attempt[a].patch \in Patches \cup {NoPatch}
        BY <1>0 DEF AttemptState, MaybePatch
      <3> QED
        BY <1>10, <1>b, <1>r, <3>1, CreatedType DEF EvaluationStarted, EvaluatorRuns, BackendType
    <2> QED
      BY <1>0, <1>10, <1>p, <1>j, <2>1, <2>2, EndsType DEF EvaluationStarted
  <1>11. ASSUME RetryStarted(a) PROVE TypeOK'
    <2>1. [attempt[a] EXCEPT !.cached = 0] \in AttemptState
      BY <1>0 DEF AttemptState
    <2>2. BackendType'
      <3>1. attempt[a].patch \in Patches \cup {NoPatch}
        BY <1>0 DEF AttemptState, MaybePatch
      <3> QED
        BY <1>11, <1>b, <1>r, <3>1 DEF RetryStarted, EvaluatorRuns, BackendType
    <2> QED
      BY <1>0, <1>11, <2>1, <2>2, EndsType DEF RetryStarted
  <1>12. ASSUME NotDiscarded(a) PROVE TypeOK'
    <2>1. [attempt[a] EXCEPT !.phase = "blocked"] \in AttemptState
      BY <1>0, <1>m, <1>p DEF AttemptState
    <2>2. BackendType'
      BY <1>12, <1>b, NotCleanedType DEF NotDiscarded
    <2> QED
      BY <1>0, <1>12, <2>1, <2>2, EndsType DEF NotDiscarded
  <1>13. ASSUME RetryFails(a) PROVE TypeOK'
    <2>1. [attempt[a] EXCEPT !.cached = 0] \in AttemptState
      BY <1>0 DEF AttemptState
    <2>2. BackendType'
      <3>1. {} \in SUBSET Roles
        OBVIOUS
      <3> QED
        BY <1>13, <1>b, <1>r, <3>1, NotCreatedType DEF RetryFails, BackendType
    <2> QED
      BY <1>0, <1>13, <2>1, <2>2, EndsType DEF RetryFails
  <1>14. ASSUME Acknowledged(a) PROVE TypeOK'
    <2>1. [attempt[a] EXCEPT !.phase = "acked", !.job = FALSE] \in AttemptState
      BY <1>0, <1>m, <1>p DEF AttemptState
    <2>2. BackendType'
      BY <1>14, <1>b, CleanedType DEF Acknowledged
    <2> QED
      BY <1>0, <1>14, <1>p, <1>j, <2>1, <2>2, EndsType DEF Acknowledged
  <1>15. ASSUME NotAcknowledged(a) PROVE TypeOK'
    <2>1. [attempt[a] EXCEPT !.phase = "blocked", !.job = FALSE] \in AttemptState
      BY <1>0, <1>m, <1>p DEF AttemptState
    <2>2. BackendType'
      BY <1>15, <1>b, NotCleanedType DEF NotAcknowledged
    <2> QED
      BY <1>0, <1>15, <1>p, <1>j, <2>1, <2>2, EndsType DEF NotAcknowledged
  <1>16. ASSUME OperationFails(a) PROVE TypeOK'
    <2>1. PICK reason \in Reasons, op \in Operations :
            /\ Raises(a, op)
            /\ Becomes(a, After(a, reason))
            /\ \/ UNCHANGED <<docker, charged, quarantined, tree>>
               \/ /\ \E p \in Patches : tree' = [tree EXCEPT ![a] = p]
                  /\ UNCHANGED <<docker, charged, quarantined>>
               \/ /\ \E role \in Roles : CreationFails(a, role)
                  /\ UNCHANGED tree
      BY <1>16, <1>r DEF OperationFails, Operations
    <2>2. Ends(a, op) /\ SlotAfterFailure(a)
          /\ UNCHANGED <<aborting, fence, evaluationVars, journal, sealed>>
      BY <2>1 DEF Raises
    <2>3. slots' \in SUBSET Attempts
      BY <1>0, <2>2 DEF SlotAfterFailure
    <2>4. BackendType'
      BY <1>b, <2>1, <2>2, CreationFailsType DEF BackendType, evaluationVars
    <2> QED
      BY <1>0, <1>s, <2>1, <2>2, <2>3, <2>4, EndsType
  <1>17. ASSUME Aborted(a) PROVE TypeOK'
    <2>1. [attempt[a] EXCEPT !.phase = "aborted", !.worker = FALSE, !.lease = FALSE,
                   !.patch = NoPatch, !.passed = FALSE, !.audited = TRUE, !.job = FALSE,
                   !.cached = 0] \in AttemptState
      BY <1>0, <1>m, <1>p, 0 \in 0..1, 0 \in 0..2, Fields
    <2>2. BackendType'
      BY <1>17, <1>b, CleanedType DEF Aborted
    <2>3. fence' \in BOOLEAN
      BY <1>17 DEF Aborted, FenceWithout
    <2> QED
      BY <1>0, <1>17, <1>p, <1>j, <2>1, <2>2, <2>3, EndsType DEF Aborted
  <1>18. ASSUME NotAborted(a) PROVE TypeOK'
    <2>1. [attempt[a] EXCEPT !.phase = "blocked"] \in AttemptState
      BY <1>0, <1>m, <1>p DEF AttemptState
    <2>2. BackendType'
      BY <1>18, <1>b, NotCleanedType DEF NotAborted
    <2> QED
      BY <1>0, <1>18, <1>p, <1>j, <2>1, <2>2, EndsType DEF NotAborted
  <1>19. ASSUME NotPrewarmed(a) PROVE TypeOK'
    <2>1. PICK phase \in {"worker_destroyed", "blocked"} :
             Becomes(a, [attempt[a] EXCEPT !.phase = phase, !.worker = FALSE, !.audited = TRUE])
      BY <1>19 DEF NotPrewarmed
    <2>2. [attempt[a] EXCEPT !.phase = phase, !.worker = FALSE, !.audited = TRUE] \in AttemptState
      BY <1>0, <1>m, <1>p DEF AttemptState
    <2>3. BackendType'
      BY <1>19, <1>b, CleanedType DEF NotPrewarmed
    <2> QED
      BY <1>0, <1>19, <2>1, <2>2, <2>3, EndsType DEF NotPrewarmed
  <1> QED
    BY <1>1, <1>2, <1>3, <1>4, <1>5, <1>6, <1>7, <1>8, <1>9, <1>10, <1>11, <1>12, <1>13, <1>14,
       <1>15, <1>16, <1>17, <1>18, <1>19 DEF Finish

LEMMA RecoverType ==
    ASSUME TypeOK, NEW a \in Attempts, Recover(a)
    PROVE  TypeOK'
  <1>1. PICK phase \in {"recovered", "blocked"} :
          /\ IF phase = "recovered" THEN Cleaned(a) ELSE NotCleaned(a)
          /\ Becomes(a, [attempt[a] EXCEPT !.phase = phase])
          /\ Records(a, phase)
    BY DEF Recover
  <1>2. attempt' \in [Attempts -> AttemptState]
    <2>1. attempt[a] \in AttemptState /\ attempt \in [Attempts -> AttemptState]
      BY DEF TypeOK, AttemptState, MaybePatch
    <2>2. phase \in Phases
      BY DEF Phases
    <2>3. [attempt[a] EXCEPT !.phase = phase] \in AttemptState
      BY <2>1, <2>2 DEF AttemptState
    <2> QED
      BY <1>1, <2>1, <2>3 DEF Becomes
  <1>3. journal' \in [Attempts -> [phase : Phases, passed : BOOLEAN]]
    BY <1>1, ZenonT(30) DEF TypeOK, Records, Phases
  <1>4. BackendType
    BY DEF TypeOK, BackendType, Roles
  <1>5. BackendType'
    BY <1>1, <1>4, CleanedType, NotCleanedType
  <1> QED
    BY <1>2, <1>3, <1>5 DEF Recover, TypeOK, BackendType, Roles, AttemptState, MaybePatch

LEMMA CrashType ==
    ASSUME TypeOK, Crash
    PROVE  TypeOK'
  <1>1. Fresh \in AttemptState
    BY DEF Fresh, AttemptState, Phases, MaybePatch
  <1>2. attempt' \in [Attempts -> AttemptState] /\ crashes' \in 0..MaxCrashes
    BY <1>1, LifecycleAssumption DEF Crash, TypeOK
  <1>3. running' \in [Attempts -> Operations \cup {"idle", "queued", "recover"}]
        /\ pending' \in SUBSET Attempts
    BY DEF Crash, TypeOK
  <1> QED
    BY <1>2, <1>3 DEF Crash, TypeOK, evaluationVars, AttemptState, MaybePatch

LEMMA RestartType ==
    ASSUME TypeOK, Restart
    PROVE  TypeOK'
  <1>1. \A a \in Attempts : [Fresh EXCEPT !.phase = journal[a].phase, !.passed = journal[a].passed]
                              \in AttemptState
    <2> TAKE a \in Attempts
    <2>1. Fresh \in AttemptState
      BY DEF Fresh, AttemptState, Phases, MaybePatch
    <2>2. journal[a].phase \in Phases /\ journal[a].passed \in BOOLEAN
      BY DEF TypeOK
    <2> QED
      BY <2>1, <2>2 DEF AttemptState
  <1>2. attempt' \in [Attempts -> AttemptState]
    BY <1>1 DEF Restart
  <1>3. running' \in [Attempts -> Operations \cup {"idle", "queued", "recover"}]
    BY DEF Restart
  <1> QED
    BY <1>2, <1>3 DEF Restart, TypeOK, evaluationVars, AttemptState, MaybePatch

LEMMA NextType == TypeOK /\ [Next]_vars => TypeOK'
  <1> SUFFICES ASSUME TypeOK, [Next]_vars PROVE TypeOK'
    OBVIOUS
  <1>1. ASSUME NEW a \in Attempts, Start(a) \/ StartPrepare(a) \/ ReadArtifacts(a) PROVE TypeOK'
    BY <1>1, StartType
  <1>2. ASSUME NEW a \in Attempts, Refused(a) PROVE TypeOK'
    BY <1>2 DEF Refused, SlotAfterFailure, TypeOK, evaluationVars
  <1>3. ASSUME NEW a \in Attempts, RequestAbort(a) PROVE TypeOK'
    BY <1>3 DEF RequestAbort, TypeOK, evaluationVars
  <1>4. ASSUME NEW a \in Attempts, StartAbort(a) PROVE TypeOK'
    <2>1. attempt[a] \in AttemptState
      BY DEF TypeOK, AttemptState, MaybePatch
    <2> QED
      BY <1>4, <2>1, EnterType DEF StartAbort, Operations
  <1>5. ASSUME NEW a \in Attempts, ResidualGone(a) \/ Sweep(a) PROVE TypeOK'
    BY <1>5 DEF ResidualGone, Sweep, TypeOK, memoryVars, evaluationVars
  <1>6. ASSUME NEW a \in Attempts, EvaluatorEnds(a) PROVE TypeOK'
    BY <1>6 DEF EvaluatorEnds, TypeOK, memoryVars
  <1>7. CASE Recovered
    BY <1>7 DEF Recovered, TypeOK, evaluationVars
  <1>8. CASE UNCHANGED vars
    BY <1>8 DEF vars, memoryVars, evaluationVars, TypeOK
  <1> QED
    BY <1>1, <1>2, <1>3, <1>4, <1>5, <1>6, <1>7, <1>8, FinishType, RecoverType, CrashType,
       RestartType DEF Next

-----------------------------------------------------------------------------
(* The inductive invariant.                                                  *)
\* What the operation in progress found in its precheck is still so.
Working(a) ==
    LET phase == attempt[a].phase
    IN  /\ running[a] = "preflight" => phase \in {"new", "preflighted"}
        /\ running[a] \in {"queued", "prepare"} => phase = "preflighted"
        /\ running[a] \in {"tool", "snapshot", "restore"} =>
              phase \in {"worker_active", "snapshotted"}
        /\ running[a] = "destroy" => phase = "snapshotted"
        /\ running[a] = "evaluate" => MayEvaluate(a)
        /\ running[a] = "retry" => attempt[a].job
        /\ running[a] = "acknowledge" => phase = "evaluating"
        /\ running[a] = "recover" => mode = "recovering"

\* Which phases have a Worker, a job and artifacts.
Holding(a) ==
    LET phase == attempt[a].phase
    IN  /\ attempt[a].worker => phase \in {"worker_active", "snapshotted", "blocked"}
        /\ attempt[a].job => phase \in {"evaluating", "blocked"}
        /\ attempt[a].cached # 0 => phase \in {"evaluating", "blocked", "acked"}
        /\ phase = "worker_destroyed" /\ attempt[a].audited => "worker" \notin docker[a]

Sealing(a) ==
    /\ sealed[a] \subseteq Allowed
    /\ attempt[a].patch # NoPatch /\ attempt[a].passed => attempt[a].patch \in sealed[a]

\* GradedAsSealed of one attempt.
Grading(a) ==
    attempt[a].job =>
        /\ graded[a] = attempt[a].patch
        /\ graded[a] \in sealed[a] \cap Allowed
        /\ "worker" \notin docker[a]
        /\ attempt[a].cached \in {0, runs[a]}

\* A process that has just started holds nothing.
Started(a) ==
    mode # "up" =>
       /\ running[a] \in {"idle", "recover"}
       /\ ~attempt[a].worker /\ ~attempt[a].job /\ ~attempt[a].audited
       /\ attempt[a].patch = NoPatch /\ attempt[a].cached = 0
       /\ a \notin slots /\ a \notin charged

\* EndedOwnsNothing of one attempt, whatever the mode, and what keeps it so.
Ending(a) ==
    journal[a].phase \in Ended =>
       /\ ~attempt[a].worker /\ ~attempt[a].job
       /\ a \notin slots /\ a \notin charged
       /\ docker[a] = {}
       /\ running[a] \in {"idle", "abort", "recover"}
       /\ mode # "down" => attempt[a].phase = journal[a].phase

Sound(a) == Working(a) /\ Holding(a) /\ Sealing(a) /\ Grading(a) /\ Started(a) /\ Ending(a)
Inv == TypeOK /\ \A a \in Attempts : Sound(a)

\* With pool labels: what Docker holds is charged, and the fence has its reason.
Charging ==
    /\ mode # "down" => \A a \in Attempts : docker[a] # {} => a \in charged
    /\ fence => mode = "up" /\ \E a \in Attempts : attempt[a].phase = "blocked"

LEMMA Frame ==
    ASSUME NEW b \in Attempts, Sound(b), Same(b)
    PROVE  Sound(b)'
  BY DEF Sound, Same, Working, Holding, Sealing, Grading, Started, Ending, MayEvaluate

LEMMA EnterOthers ==
    ASSUME TypeOK, NEW a \in Attempts, NEW b \in Attempts \ {a}, NEW op, NEW state,
           Enter(a, op, state)
    PROVE  Same(b)
  BY DEF TypeOK, Enter, Same, evaluationVars

LEMMA CleanedOthers ==
    ASSUME TypeOK, NEW a \in Attempts, NEW b \in Attempts \ {a}, Cleaned(a) \/ NotCleaned(a)
    PROVE  /\ docker'[b] = docker[b] /\ graded'[b] = graded[b] /\ runs'[b] = runs[b]
           /\ b \in charged' <=> b \in charged
  BY DEF TypeOK, Cleaned, NotCleaned, evaluationVars

\* The actions of one attempt leave the others alone.
LEMMA Others ==
    ASSUME TypeOK, NEW a \in Attempts, NEW b \in Attempts \ {a}, ActionOf(a)
    PROVE  Same(b)
  <1>1. ASSUME Start(a) \/ StartPrepare(a) \/ ReadArtifacts(a) \/ StartAbort(a) PROVE Same(b)
    BY <1>1, EnterOthers DEF Start, StartPrepare, ReadArtifacts, StartAbort
  <1>2. ASSUME Refused(a) \/ RequestAbort(a) \/ ResidualGone(a) \/ EvaluatorEnds(a) \/ Sweep(a)
        PROVE  Same(b)
    BY <1>2 DEF TypeOK, Refused, RequestAbort, ResidualGone, EvaluatorEnds, Sweep, Same,
       SlotAfterFailure, memoryVars, evaluationVars
  <1>3. ASSUME Recover(a) PROVE Same(b)
    <2>1. Cleaned(a) \/ NotCleaned(a)
      BY <1>3 DEF Recover
    <2> QED
      BY <1>3, <2>1, CleanedOthers DEF TypeOK, Recover, Same, Becomes, Records
  <1>4. ASSUME Admitted(a) PROVE Same(b)
    BY <1>4 DEF TypeOK, Admitted, Same, evaluationVars
  <1>5. ASSUME NotAdmitted(a) PROVE Same(b)
    BY <1>5, EnterOthers DEF NotAdmitted
  <1>6. ASSUME Preflighted(a) \/ Edited(a) \/ Snapshotted(a) PROVE Same(b)
    BY <1>6 DEF TypeOK, Preflighted, Edited, Snapshotted, Ends, Becomes, Records, Same,
       backendVars, evaluationVars
  <1>7. ASSUME Prepared(a) \/ Restored(a) \/ EvaluationStarted(a) \/ RetryStarted(a) PROVE Same(b)
    BY <1>7, ZenonT(30) DEF TypeOK, Prepared, Restored, EvaluationStarted, RetryStarted, Created,
       EvaluatorRuns,
       Ends, Becomes, Records, Same, evaluationVars
  <1>8. ASSUME Destroyed(a) \/ NotPrewarmed(a) \/ NotDestroyed(a) \/ NotDiscarded(a)
               \/ Acknowledged(a) \/ NotAcknowledged(a) \/ Aborted(a) \/ NotAborted(a)
        PROVE  Same(b)
    <2>1. Cleaned(a) \/ NotCleaned(a)
      BY <1>8 DEF Destroyed, NotPrewarmed, NotDestroyed, NotDiscarded, Acknowledged,
         NotAcknowledged, Aborted, NotAborted
    <2> QED
      BY <1>8, <2>1, CleanedOthers DEF TypeOK, Destroyed, NotPrewarmed, NotDestroyed, NotDiscarded,
         Acknowledged,
         NotAcknowledged, Aborted, NotAborted, Ends, Becomes, Records, Same
  <1>9. ASSUME RetryFails(a) PROVE Same(b)
    BY <1>9 DEF TypeOK, RetryFails, NotCreated, Ends, Becomes, Same
  <1>10. ASSUME OperationFails(a) PROVE Same(b)
    BY <1>10 DEF TypeOK, OperationFails, CreationFails, NotCreated, Raises, SlotAfterFailure,
       Ends, Becomes,
       Same, evaluationVars
  <1>11. ASSUME RestoreFails(a) PROVE Same(b)
    <2>1. CASE NotCleaned(a)
      BY <1>11, <2>1, CleanedOthers DEF TypeOK, RestoreFails, Raises, SlotAfterFailure, Ends,
         Becomes,
         Same, evaluationVars
    <2>2. CASE ~NotCleaned(a)
      BY <1>11, <2>2 DEF TypeOK, RestoreFails, NotCreated, Raises, SlotAfterFailure, Ends,
         Becomes,
         Same, evaluationVars
    <2> QED
      BY <2>1, <2>2
  <1> QED
    BY <1>1, <1>2, <1>3, <1>4, <1>5, <1>6, <1>7, <1>8, <1>9, <1>10, <1>11 DEF ActionOf, Finish

-----------------------------------------------------------------------------
(* The invariant of the attempt that acts.                                   *)
LEMMA StartSound ==
    ASSUME Inv, NEW a \in Attempts,
           Start(a) \/ StartPrepare(a) \/ ReadArtifacts(a) \/ StartAbort(a)
    PROVE  Sound(a)'
  <1> USE DEF Sound, Working, Holding, Sealing, Grading, Started, Ending, Ended, MayEvaluate
  <1>0. Sound(a) /\ runs[a] \in 0..2 /\ attempt[a] \in AttemptState
    BY DEF Inv, TypeOK, AttemptState, MaybePatch
  <1>1. ASSUME NEW op, NEW s, Enter(a, op, s)
        PROVE  /\ running'[a] = op /\ attempt'[a] = s
               /\ mode' = mode /\ docker' = docker /\ graded' = graded /\ runs' = runs
               /\ journal' = journal /\ sealed' = sealed /\ slots' = slots /\ charged' = charged
    BY <1>1 DEF Enter, Inv, TypeOK, evaluationVars
  <1>2. CASE StartAbort(a)
    BY <1>0, <1>1, <1>2 DEF StartAbort, Idle
  <1>3. CASE StartPrepare(a)
    BY <1>0, <1>1, <1>3 DEF StartPrepare, Idle
  <1>4. CASE ReadArtifacts(a)
    BY <1>0, <1>1, <1>4 DEF ReadArtifacts, Idle, Cached, AttemptState
  <1>5. CASE Start(a)
    BY <1>0, <1>1, <1>5 DEF Start, MayPreflight, MayUseWorker, MayRestore, MayDestroy, MayRetry,
       MayAcknowledge, Idle, Cached, AttemptState
  <1> QED
    BY <1>2, <1>3, <1>4, <1>5

\* An operation that fails leaves a sound attempt if it puts no Worker beside a job or an
\* evaluation to be started.
LEMMA FailureSound ==
    ASSUME NEW a \in Attempts, Sound(a),
           running[a] \notin {"idle", "abort", "recover"}, running'[a] = "idle",
           mode = "up", mode' = mode,
           attempt'[a].phase \in {attempt[a].phase, "blocked"},
           attempt'[a].worker = attempt[a].worker, attempt'[a].job = attempt[a].job,
           attempt'[a].cached = attempt[a].cached, attempt'[a].audited = attempt[a].audited,
           attempt'[a].patch = attempt[a].patch, attempt'[a].passed = attempt[a].passed,
           graded' = graded, runs' = runs, journal' = journal, sealed' = sealed,
           attempt[a].job \/ attempt[a].phase = "worker_destroyed" =>
              ("worker" \in docker'[a] => "worker" \in docker[a])
    PROVE  Sound(a)'
  BY DEF Sound, Working, Holding, Sealing, Grading, Started, Ending, MayEvaluate, Ended

LEMMA FinishSound ==
    ASSUME Inv, NEW a \in Attempts, Finish(a)
    PROVE  Sound(a)'
  <1> USE DEF Sound, Working, Holding, Sealing, Grading, Started, Ending, Ended, MayEvaluate
  <1>0. /\ Sound(a) /\ runs[a] \in 0..2 /\ attempt[a] \in AttemptState
        /\ attempt \in [Attempts -> AttemptState] /\ docker \in [Attempts -> SUBSET Roles]
        /\ graded \in [Attempts -> Patches \cup {NoPatch}] /\ runs \in [Attempts -> 0..2]
        /\ journal \in [Attempts -> [phase : Phases, passed : BOOLEAN]]
        /\ sealed \in [Attempts -> SUBSET Patches] /\ tree \in [Attempts -> Patches]
        /\ DOMAIN running = Attempts
    BY DEF Inv, TypeOK, AttemptState, MaybePatch, Roles
  <1>1. ASSUME Preflighted(a) PROVE Sound(a)'
    BY <1>0, <1>1, LifecycleAssumption DEF Preflighted, backendVars, Ends, Becomes, Records,
       evaluationVars, AttemptState
  <1>2. ASSUME Prepared(a) PROVE Sound(a)'
    BY <1>0, <1>2, LifecycleAssumption DEF Prepared, Created, Ends, Becomes, Records,
       evaluationVars, AttemptState
  <1>3. ASSUME Edited(a) PROVE Sound(a)'
    BY <1>0, <1>3, LifecycleAssumption DEF Edited, Ends, Becomes, Records,
       evaluationVars, AttemptState
  <1>4. ASSUME Snapshotted(a) PROVE Sound(a)'
    BY <1>0, <1>4, LifecycleAssumption DEF Snapshotted, backendVars, Ends, Becomes, Records,
       evaluationVars, AttemptState
  <1>5. ASSUME Restored(a) PROVE Sound(a)'
    BY <1>0, <1>5, LifecycleAssumption DEF Restored, Ends, Becomes, Records,
       evaluationVars, AttemptState
  <1>6. ASSUME Destroyed(a) PROVE Sound(a)'
    BY <1>0, <1>6, LifecycleAssumption DEF Destroyed, Cleaned, Ends, Becomes, Records,
       evaluationVars, AttemptState
  <1>7. ASSUME NotDestroyed(a) PROVE Sound(a)'
    BY <1>0, <1>7, LifecycleAssumption DEF NotDestroyed, NotCleaned, Ends, Becomes, Records,
       evaluationVars, AttemptState
  <1>8. ASSUME EvaluationStarted(a) PROVE Sound(a)'
    BY <1>0, <1>8, LifecycleAssumption DEF EvaluationStarted, Created, EvaluatorRuns, Ends,
       Becomes, Records,
       evaluationVars, AttemptState
  <1>9. ASSUME RetryStarted(a) PROVE Sound(a)'
    BY <1>0, <1>9, LifecycleAssumption DEF RetryStarted, EvaluatorRuns, Ends, Becomes, Records,
       evaluationVars, AttemptState
  <1>10. ASSUME NotDiscarded(a) PROVE Sound(a)'
    BY <1>0, <1>10, LifecycleAssumption DEF NotDiscarded, NotCleaned, Ends, Becomes, Records,
       evaluationVars, AttemptState
  <1>11. ASSUME RetryFails(a) PROVE Sound(a)'
    BY <1>0, <1>11, LifecycleAssumption DEF RetryFails, NotCreated, Ends, Becomes, Records,
       evaluationVars, AttemptState
  <1>12. ASSUME Acknowledged(a) PROVE Sound(a)'
    BY <1>0, <1>12, LifecycleAssumption DEF Acknowledged, Cleaned, Ends, Becomes, Records,
       evaluationVars, AttemptState
  <1>13. ASSUME NotAcknowledged(a) PROVE Sound(a)'
    BY <1>0, <1>13, LifecycleAssumption DEF NotAcknowledged, NotCleaned, Ends, Becomes, Records,
       evaluationVars, AttemptState
  <1>14. ASSUME OperationFails(a) PROVE Sound(a)'
    <2>1. PICK reason \in Reasons, op \in Operations \ {"abort"} :
            /\ Raises(a, op)
            /\ Becomes(a, After(a, reason))
            /\ \/ UNCHANGED docker
               \/ op = "prepare"
               \/ op = "evaluate" /\ CreationFails(a, "evaluator")
      BY <1>14 DEF OperationFails, Operations
    <2>2. /\ attempt'[a] = After(a, reason)
          /\ running[a] = op /\ running'[a] = "idle" /\ mode = "up" /\ mode' = mode
          /\ graded' = graded /\ runs' = runs /\ journal' = journal /\ sealed' = sealed
      BY <1>0, <2>1 DEF Raises, Ends, Becomes, evaluationVars
    <2>3. op \notin {"idle", "abort", "recover"}
      BY DEF Operations
    <2>4. attempt[a].job \/ attempt[a].phase = "worker_destroyed" =>
             ("worker" \in docker'[a] => "worker" \in docker[a])
      <3>1. CASE op = "prepare"
        BY <1>0, <2>2, <3>1 DEF Sound, Working, Holding
      <3>2. CASE CreationFails(a, "evaluator")
        BY <1>0, <3>2 DEF CreationFails, NotCreated
      <3> QED
        BY <2>1, <3>1, <3>2
    <2>5. /\ attempt'[a].phase \in {attempt[a].phase, "blocked"}
          /\ attempt'[a].worker = attempt[a].worker /\ attempt'[a].job = attempt[a].job
          /\ attempt'[a].cached = attempt[a].cached /\ attempt'[a].audited = attempt[a].audited
          /\ attempt'[a].patch = attempt[a].patch /\ attempt'[a].passed = attempt[a].passed
      BY <1>0, <2>1, <2>2 DEF After, AttemptState
    <2> QED
      BY <1>0, <2>2, <2>3, <2>4, <2>5, FailureSound
  <1>15. ASSUME RestoreFails(a) PROVE Sound(a)'
    <2>0. PICK reason \in Reasons : \E s :
            /\ Raises(a, "restore") /\ Becomes(a, s)
            /\ \/ s = [After(a, reason) EXCEPT !.recoveries = 1]
               \/ \E lease \in BOOLEAN :
                     s = [After(a, reason) EXCEPT !.recoveries = 1, !.lease = lease]
      BY <1>15 DEF RestoreFails
    <2>1. PICK s :
            /\ Raises(a, "restore") /\ Becomes(a, s)
            /\ \/ s = [After(a, reason) EXCEPT !.recoveries = 1]
               \/ \E lease \in BOOLEAN :
                     s = [After(a, reason) EXCEPT !.recoveries = 1, !.lease = lease]
      BY <2>0
    <2>2. /\ attempt'[a] = s
          /\ running[a] = "restore" /\ running'[a] = "idle" /\ mode = "up" /\ mode' = mode
          /\ graded' = graded /\ runs' = runs /\ journal' = journal /\ sealed' = sealed
      BY <1>0, <2>1 DEF Raises, Ends, Becomes, evaluationVars
    <2>3. ~attempt[a].job /\ attempt[a].phase # "worker_destroyed"
      BY <1>0, <2>2 DEF Sound, Working, Holding
    <2>4. /\ attempt'[a].phase \in {attempt[a].phase, "blocked"}
          /\ attempt'[a].worker = attempt[a].worker /\ attempt'[a].job = attempt[a].job
          /\ attempt'[a].cached = attempt[a].cached /\ attempt'[a].audited = attempt[a].audited
          /\ attempt'[a].patch = attempt[a].patch /\ attempt'[a].passed = attempt[a].passed
      BY <1>0, <2>1, <2>2 DEF After, AttemptState
    <2> QED
      BY <1>0, <2>2, <2>3, <2>4, FailureSound
  <1>16. ASSUME Aborted(a) PROVE Sound(a)'
    BY <1>0, <1>16, LifecycleAssumption DEF Aborted, Cleaned, Ends, Becomes, Records,
       evaluationVars, AttemptState
  <1>17. ASSUME NotAborted(a) PROVE Sound(a)'
    BY <1>0, <1>17, LifecycleAssumption DEF NotAborted, NotCleaned, Ends, Becomes, Records,
       evaluationVars, AttemptState
  <1>18. ASSUME Admitted(a) PROVE Sound(a)'
    BY <1>0, <1>18 DEF Admitted, evaluationVars
  <1>19. ASSUME NotAdmitted(a) PROVE Sound(a)'
    BY <1>0, <1>19, SMTT(15) DEF NotAdmitted, Enter, evaluationVars, AttemptState
  <1>20. ASSUME NotPrewarmed(a) PROVE Sound(a)'
    <2>1. /\ attempt'[a].phase \in {"worker_destroyed", "blocked"}
          /\ attempt'[a] = [attempt[a] EXCEPT !.phase = attempt'[a].phase, !.worker = FALSE,
                                              !.audited = TRUE]
      BY <1>0, <1>20 DEF NotPrewarmed, Becomes, AttemptState
    <2> QED
      BY <1>0, <1>20, <2>1 DEF NotPrewarmed, Cleaned, Ends, AttemptState
  <1> QED
    BY <1>1, <1>2, <1>3, <1>4, <1>5, <1>6, <1>7, <1>8, <1>9, <1>10, <1>11, <1>12, <1>13, <1>14,
       <1>15, <1>16, <1>17, <1>18, <1>19, <1>20 DEF Finish

LEMMA BesideSound ==
    ASSUME Inv, NEW a \in Attempts,
           Refused(a) \/ RequestAbort(a) \/ ResidualGone(a) \/ EvaluatorEnds(a) \/ Sweep(a)
           \/ Recover(a)
    PROVE  Sound(a)'
  <1> USE DEF Sound, Working, Holding, Sealing, Grading, Started, Ending, Ended, MayEvaluate
  <1>0. /\ Sound(a) /\ attempt[a] \in AttemptState
        /\ attempt \in [Attempts -> AttemptState] /\ docker \in [Attempts -> SUBSET Roles]
        /\ journal \in [Attempts -> [phase : Phases, passed : BOOLEAN]]
        /\ graded \in [Attempts -> Patches \cup {NoPatch}] /\ runs \in [Attempts -> 0..2]
        /\ DOMAIN running = Attempts
    BY DEF Inv, TypeOK, AttemptState, MaybePatch, Roles
  <1>1. CASE Refused(a)
    BY <1>0, <1>1 DEF Refused, SlotAfterFailure, evaluationVars
  <1>2. CASE RequestAbort(a) \/ EvaluatorEnds(a)
    BY <1>0, <1>2 DEF RequestAbort, EvaluatorEnds, memoryVars, evaluationVars
  <1>3. CASE ResidualGone(a) \/ Sweep(a)
    BY <1>0, <1>3 DEF ResidualGone, Sweep, memoryVars, evaluationVars
  <1>4. CASE Recover(a)
    BY <1>0, <1>4 DEF Recover, Cleaned, NotCleaned, Becomes, Records, evaluationVars, AttemptState
  <1> QED
    BY <1>1, <1>2, <1>3, <1>4

LEMMA CrashSound ==
    ASSUME Inv, Crash, NEW a \in Attempts
    PROVE  Sound(a)'
  <1>0. Sound(a) /\ journal \in [Attempts -> [phase : Phases, passed : BOOLEAN]]
    BY DEF Inv, TypeOK
  <1> QED
    BY <1>0, LifecycleAssumption DEF Crash, Fresh, Creating, evaluationVars, Sound, Working,
       Holding, Sealing, Grading, Started, Ending, MayEvaluate, Ended

LEMMA RestartSound ==
    ASSUME Inv, Restart \/ Recovered, NEW a \in Attempts
    PROVE  Sound(a)'
  <1> USE DEF Sound, Working, Holding, Sealing, Grading, Started, Ending, Ended, MayEvaluate
  <1>0. Sound(a) /\ journal \in [Attempts -> [phase : Phases, passed : BOOLEAN]]
    BY DEF Inv, TypeOK
  <1>1. CASE Restart
    BY <1>0, <1>1 DEF Restart, Fresh, evaluationVars
  <1>2. CASE Recovered
    BY <1>0, <1>2 DEF Recovered, evaluationVars
  <1> QED
    BY <1>1, <1>2

LEMMA InitSound == Init => Inv
  <1> SUFFICES ASSUME Init PROVE \A a \in Attempts : Sound(a)
    BY InitType DEF Inv
  <1> QED
    BY LifecycleAssumption DEF Init, Fresh, Sound, Working, Holding, Sealing, Grading, Started,
       Ending, MayEvaluate, Ended

LEMMA NextSound == Inv /\ [Next]_vars => Inv'
  <1> SUFFICES ASSUME Inv, [Next]_vars, NEW b \in Attempts PROVE Sound(b)'
    BY NextType DEF Inv
  <1>0. TypeOK /\ Sound(b)
    BY DEF Inv
  <1>1. ASSUME NEW a \in Attempts, ActionOf(a) PROVE Sound(b)'
    <2>1. CASE a = b
      BY <1>1, <2>1, StartSound, FinishSound, BesideSound DEF ActionOf
    <2>2. CASE a # b
      BY <1>0, <1>1, <2>2, Others, Frame
    <2> QED
      BY <2>1, <2>2
  <1>2. CASE UNCHANGED vars
    <2>1. Same(b)
      BY <1>2 DEF vars, memoryVars, evaluationVars, Same
    <2> QED
      BY <1>0, <2>1, Frame
  <1> QED
    BY <1>1, <1>2, CrashSound, RestartSound DEF Next, ActionOf

LEMMA InvHolds == Spec => []Inv
  BY InitSound, NextSound, PTL DEF Spec

-----------------------------------------------------------------------------
(* What is charged, with pool labels.                                        *)
LEMMA ActionCharged ==
    ASSUME Inv, NEW a \in Attempts, ActionOf(a), mode # "down",
           docker[a] # {} => a \in charged
    PROVE  docker'[a] # {} => a \in charged'
  <1>0. docker \in [Attempts -> SUBSET Roles] /\ Sound(a)
    BY DEF Inv, TypeOK, Roles
  <1>1. ASSUME Start(a) \/ StartPrepare(a) \/ ReadArtifacts(a) \/ StartAbort(a) \/ NotAdmitted(a)
        PROVE  UNCHANGED <<docker, charged>>
    BY <1>1 DEF Start, StartPrepare, ReadArtifacts, StartAbort, NotAdmitted, Enter
  <1>2. ASSUME Refused(a) \/ RequestAbort(a) \/ EvaluatorEnds(a) \/ Admitted(a) \/ Preflighted(a)
               \/ Edited(a) \/ Snapshotted(a)
        PROVE  UNCHANGED <<docker, charged>>
    BY <1>2 DEF Refused, RequestAbort, EvaluatorEnds, Admitted, Preflighted, Edited, Snapshotted,
       memoryVars, backendVars
  <1>3. CASE ResidualGone(a) \/ Sweep(a)
    BY <1>0, <1>3 DEF ResidualGone, Sweep
  <1>4. CASE Cleaned(a) \/ NotCleaned(a)
    BY <1>0, <1>4 DEF Cleaned, NotCleaned
  <1>5. ASSUME Recover(a) \/ Destroyed(a) \/ NotPrewarmed(a) \/ NotDestroyed(a) \/ NotDiscarded(a)
               \/ Acknowledged(a) \/ NotAcknowledged(a) \/ Aborted(a) \/ NotAborted(a)
        PROVE  Cleaned(a) \/ NotCleaned(a)
    BY <1>5 DEF Recover, Destroyed, NotPrewarmed, NotDestroyed, NotDiscarded, Acknowledged, NotAcknowledged,
       Aborted, NotAborted
  <1>6. CASE Prepared(a) \/ Restored(a) \/ EvaluationStarted(a) \/ RetryStarted(a)
    BY <1>0, <1>6 DEF Prepared, Restored, EvaluationStarted, RetryStarted, Created
  <1>7. CASE RetryFails(a)
    BY <1>0, <1>7 DEF RetryFails, NotCreated
  <1>8. CASE OperationFails(a)
    BY <1>0, <1>8 DEF OperationFails, CreationFails, NotCreated
  <1>9. CASE RestoreFails(a)
    <2>1. \/ NotCleaned(a)
          \/ NotCreated(a, "worker", {})
          \/ charged' = charged \cup {a}
      BY <1>9 DEF RestoreFails
    <2> QED
      BY <1>0, <1>4, <2>1 DEF NotCreated
  <1> QED
    BY <1>1, <1>2, <1>3, <1>4, <1>5, <1>6, <1>7, <1>8, <1>9 DEF ActionOf, Finish

\* Only an abort takes an attempt out of "blocked", and only it computes the fence.
LEMMA BlockedStays ==
    ASSUME Inv, NEW a \in Attempts, ActionOf(a), ~Aborted(a)
    PROVE  /\ fence' = fence
           /\ mode = "up" /\ attempt[a].phase = "blocked" => attempt'[a].phase = "blocked"
  <1>0. /\ Sound(a) /\ attempt[a] \in AttemptState
        /\ attempt \in [Attempts -> AttemptState]
    BY DEF Inv, TypeOK, AttemptState, MaybePatch
  <1>1. CASE Start(a) \/ StartPrepare(a) \/ ReadArtifacts(a) \/ StartAbort(a) \/ NotAdmitted(a)
    <2>1. PICK op, s : Enter(a, op, s) /\ s.phase \in {attempt[a].phase, "blocked"}
      BY <1>0, <1>1 DEF Start, StartPrepare, ReadArtifacts, StartAbort, NotAdmitted, AttemptState
    <2> QED
      BY <1>0, <2>1 DEF Enter
  <1>2. CASE Refused(a) \/ RequestAbort(a) \/ EvaluatorEnds(a) \/ Admitted(a) \/ ResidualGone(a)
             \/ Sweep(a) \/ Recover(a)
    BY <1>0, <1>2 DEF Refused, RequestAbort, EvaluatorEnds, Admitted, ResidualGone, Sweep,
       Recover,
       memoryVars
  <1>3. CASE Preflighted(a) \/ Prepared(a) \/ Edited(a) \/ Snapshotted(a) \/ Restored(a)
             \/ Destroyed(a) \/ NotPrewarmed(a) \/ EvaluationStarted(a) \/ Acknowledged(a)
    BY <1>0, <1>3 DEF Preflighted, Prepared, Edited, Snapshotted, Restored, Destroyed, NotPrewarmed,
       EvaluationStarted, Acknowledged, Ends, Sound, Working, MayEvaluate
  <1>4. CASE NotDestroyed(a) \/ NotDiscarded(a) \/ NotAcknowledged(a) \/ NotAborted(a)
    <2>1. /\ fence' = fence
          /\ \/ Becomes(a, [attempt[a] EXCEPT !.phase = "blocked"])
             \/ Becomes(a, [attempt[a] EXCEPT !.phase = "blocked", !.job = FALSE])
             \/ Becomes(a, [attempt[a] EXCEPT !.phase = "blocked", !.worker = FALSE,
                                              !.audited = FALSE])
      BY <1>4 DEF NotDestroyed, NotDiscarded, NotAcknowledged, NotAborted
    <2>2. CASE Becomes(a, [attempt[a] EXCEPT !.phase = "blocked"])
      BY <1>0, <2>1, <2>2 DEF Becomes, AttemptState
    <2>3. CASE Becomes(a, [attempt[a] EXCEPT !.phase = "blocked", !.job = FALSE])
      BY <1>0, <2>1, <2>3 DEF Becomes, AttemptState
    <2>4. CASE Becomes(a, [attempt[a] EXCEPT !.phase = "blocked", !.worker = FALSE,
                                             !.audited = FALSE])
      BY <1>0, <2>1, <2>4 DEF Becomes, AttemptState
    <2> QED
      BY <2>1, <2>2, <2>3, <2>4
  <1>5. CASE RetryStarted(a) \/ RetryFails(a)
    <2>1. /\ fence' = fence
          /\ Becomes(a, [attempt[a] EXCEPT !.cached = 0])
      BY <1>5 DEF RetryStarted, RetryFails
    <2> QED
      BY <1>0, <2>1 DEF Becomes, AttemptState
  <1>6. CASE OperationFails(a)
    <2>1. /\ fence' = fence
          /\ \E reason \in Reasons : Becomes(a, After(a, reason))
      BY <1>6 DEF OperationFails, Raises
    <2> QED
      BY <1>0, <2>1 DEF Becomes, After, AttemptState
  <1>7. CASE RestoreFails(a)
    <2>1. fence' = fence /\ running[a] = "restore"
      BY <1>7 DEF RestoreFails, Raises, Ends
    <2> QED
      BY <1>0, <2>1 DEF Sound, Working
  <1> QED
    BY <1>1, <1>2, <1>3, <1>4, <1>5, <1>6, <1>7 DEF ActionOf, Finish

LEMMA NextCharging ==
    ASSUME Pooled, Inv, Charging, [Next]_vars
    PROVE  Charging'
  <1>0. TypeOK
    BY DEF Inv
  <1>1. ASSUME NEW a \in Attempts, ActionOf(a) PROVE Charging'
    <2>1. mode' = mode /\ \A b \in Attempts \ {a} : Same(b)
      <3>1. mode' = mode
        BY <1>1 DEF ActionOf, Start, StartPrepare, ReadArtifacts, StartAbort, Enter, Refused,
           RequestAbort, ResidualGone, EvaluatorEnds, Sweep, Recover, Finish, Admitted, NotAdmitted,
           Preflighted, Prepared, Edited, Snapshotted, Restored, RestoreFails, Raises, Destroyed,
           NotPrewarmed, NotDestroyed, EvaluationStarted, RetryStarted, NotDiscarded, RetryFails, Acknowledged,
           NotAcknowledged, OperationFails, Aborted, NotAborted, Ends
      <3> QED
        BY <1>0, <1>1, <3>1, Others
    <2>2. mode' # "down" => \A b \in Attempts : docker'[b] # {} => b \in charged'
      BY <1>1, <2>1, ActionCharged DEF Charging, Same
    <2>3. CASE Aborted(a)
      <3>1. mode = "up" /\ fence' = \E b \in Attempts \ {a} : attempt[b].phase = "blocked"
        BY <2>3 DEF Aborted, Ends, FenceWithout
      <3> QED
        BY <2>1, <2>2, <3>1 DEF Charging, Same
    <2>4. CASE ~Aborted(a)
      BY <1>1, <2>1, <2>2, <2>4, BlockedStays DEF Charging, Same
    <2> QED
      BY <2>3, <2>4
  <1>2. CASE Crash
    BY <1>2 DEF Crash, Charging
  <1>3. CASE Restart
    <2>1. ~fence
      BY <1>3 DEF Charging, Restart
    <2> QED
      BY <1>3, <2>1 DEF Restart, Charging
  <1>4. CASE Recovered
    BY <1>4 DEF Recovered, Charging
  <1>5. CASE UNCHANGED vars
    BY <1>5 DEF vars, memoryVars, Charging
  <1> QED
    BY <1>1, <1>2, <1>3, <1>4, <1>5 DEF Next, ActionOf

-----------------------------------------------------------------------------
(* Theorems.                                                                 *)
\* Every state that the operations, kills and recoveries reach is well typed; in particular
\* an attempt is recovered and retried at most once.
THEOREM TypeCorrect == Spec => []TypeOK
  <1>1. Inv => TypeOK
    BY DEF Inv
  <1> QED
    BY <1>1, InvHolds, PTL

\* Whatever edits, failures, restorations, retries and kills lie between, what an evaluator
\* grades is the patch of a passing snapshot, and it has no Worker beside it.
THEOREM GradesWhatWasSealed == Spec => []GradedAsSealed
  <1>1. Inv => GradedAsSealed
    BY DEF Inv, Sound, Grading, GradedAsSealed
  <1> QED
    BY <1>1, InvHolds, PTL

\* An attempt whose end is on disk owns nothing, and stays so.
THEOREM EndedStaysEmpty == Spec => []EndedOwnsNothing
  <1>1. Inv => EndedOwnsNothing
    BY DEF Inv, Sound, Ending, EndedOwnsNothing
  <1> QED
    BY <1>1, InvHolds, PTL

\* With containers that carry the pool label, what Docker holds for an attempt is charged to
\* it, after every kill too, and the fence is up only while an attempt is blocked.
THEOREM ChargesWhatIsLeft == ASSUME Pooled PROVE Spec => []ResidualsCharged
  <1>1. Init => Charging
    BY DEF Init, Charging
  <1>2. Inv /\ Charging /\ [Next]_vars => Charging'
    BY NextCharging
  <1>3. Charging => ResidualsCharged
    BY DEF Charging, ResidualsCharged
  <1> QED
    BY <1>1, <1>2, <1>3, InvHolds, PTL DEF Spec

-----------------------------------------------------------------------------
(* What is closed on disk is not opened again.                               *)
Closed == Ended \cup {"blocked"}

StaysClosed(a) ==
    journal[a].phase \in Closed => journal'[a].phase \in Closed /\ docker'[a] \subseteq docker[a]

\* The memory of a blocked attempt agrees with the journal, and nothing but its abort or its
\* recovery is at it: a job that an abort has left is not retried, as its attempt is cancelled.
Closing(a) ==
    /\ running[a] = "abort" => a \in cancelled
    /\ journal[a].phase = "blocked" =>
          /\ running[a] \in {"idle", "abort", "recover"}
          /\ attempt[a].job => a \in cancelled
          /\ mode # "down" => attempt[a].phase = "blocked"

\* Only a kill forgets that an attempt was cancelled.
LEMMA CancelledStays ==
    ASSUME NEW a \in Attempts, ActionOf(a)
    PROVE  cancelled \subseteq cancelled'
  BY DEF ActionOf, Start, StartPrepare, ReadArtifacts, StartAbort, Enter, Refused, RequestAbort,
     ResidualGone, EvaluatorEnds, Sweep, Recover, Finish, Admitted, NotAdmitted, Preflighted,
     Prepared, Edited, Snapshotted, Restored, RestoreFails, Raises, Destroyed, NotPrewarmed,
     NotDestroyed,
     EvaluationStarted, RetryStarted, NotDiscarded, RetryFails, Acknowledged, NotAcknowledged,
     OperationFails, Aborted, NotAborted, Ends, memoryVars

\* No operation starts on a closed attempt except its abort.
LEMMA StartClosing ==
    ASSUME Inv, NEW a \in Attempts, Closing(a),
           Start(a) \/ StartPrepare(a) \/ ReadArtifacts(a) \/ StartAbort(a)
    PROVE  Closing(a)' /\ UNCHANGED <<journal, docker>>
  <1> USE DEF Closing
  <1>0. /\ attempt[a] \in AttemptState /\ DOMAIN running = Attempts /\ DOMAIN attempt = Attempts
        /\ aborting \subseteq cancelled
    BY DEF Inv, TypeOK, AttemptState, MaybePatch
  <1>1. ASSUME NEW op, NEW s, Enter(a, op, s)
        PROVE  /\ running'[a] = op /\ attempt'[a] = s
               /\ UNCHANGED <<mode, docker, journal, cancelled>>
    BY <1>0, <1>1 DEF Enter
  <1>2. CASE StartAbort(a)
    BY <1>0, <1>1, <1>2 DEF StartAbort, Idle
  <1>3. CASE StartPrepare(a)
    BY <1>0, <1>1, <1>3 DEF StartPrepare, Idle
  <1>4. CASE ReadArtifacts(a)
    BY <1>0, <1>1, <1>4 DEF ReadArtifacts, Idle, AttemptState
  <1>5. CASE Start(a)
    BY <1>0, <1>1, <1>5 DEF Start, MayPreflight, MayUseWorker, MayRestore, MayDestroy, MayEvaluate,
       MayRetry, MayAcknowledge, Idle, AttemptState
  <1> QED
    BY <1>2, <1>3, <1>4, <1>5

\* An operation other than the abort ends only on an attempt that is open; what it writes may
\* close it, with its Worker and its job taken away.
LEMMA FinishClosing ==
    ASSUME Inv, NEW a \in Attempts, Closing(a), Finish(a)
    PROVE  Closing(a)' /\ StaysClosed(a)
  <1>0. /\ Sound(a) /\ attempt[a] \in AttemptState
        /\ attempt \in [Attempts -> AttemptState] /\ docker \in [Attempts -> SUBSET Roles]
        /\ journal \in [Attempts -> [phase : Phases, passed : BOOLEAN]]
        /\ DOMAIN running = Attempts
    BY DEF Inv, TypeOK, AttemptState, MaybePatch, Roles
  <1>1. CASE Aborted(a)
    BY <1>0, <1>1 DEF Aborted, Cleaned, Ends, Becomes, Records, Closing, StaysClosed, Closed,
       Ended
  <1>2. CASE NotAborted(a)
    <2>1. a \in cancelled'
      BY <1>2 DEF NotAborted, Ends, Closing
    <2> QED
      BY <1>0, <1>2, <2>1 DEF NotAborted, NotCleaned, Ends, Becomes, Records, Closing,
         StaysClosed, Closed, Ended, AttemptState
  <1>3. CASE ~ Aborted(a) /\ ~ NotAborted(a)
    <2>1. running[a] \notin {"idle", "abort", "recover"}
      <3>1. Admitted(a) \/ NotAdmitted(a) => running[a] = "queued"
        BY DEF Admitted, NotAdmitted
      <3>2. OperationFails(a) \/ RestoreFails(a) => running[a] \notin {"idle", "abort", "recover"}
        BY DEF OperationFails, RestoreFails, Raises, Ends
      <3> QED
        BY <1>3, <3>1, <3>2 DEF Finish, Preflighted, Prepared, Edited, Snapshotted, Restored,
           Destroyed, NotPrewarmed, NotDestroyed, EvaluationStarted, RetryStarted, NotDiscarded,
           RetryFails,
           Acknowledged, NotAcknowledged, Ends
    <2>2. journal[a].phase \notin Closed
      BY <1>0, <2>1 DEF Sound, Ending, Closing, Closed
    <2>3. running'[a] # "abort"
      <3>1. CASE Admitted(a)
        BY <1>0, <3>1 DEF Admitted
      <3>2. CASE NotAdmitted(a)
        BY <1>0, <3>2 DEF NotAdmitted, Enter
      <3>3. ASSUME NEW op, Ends(a, op) PROVE running'[a] # "abort"
        BY <1>0, <3>3 DEF Ends
      <3>4. OperationFails(a) \/ RestoreFails(a) => \E op : Ends(a, op)
        BY DEF OperationFails, RestoreFails, Raises
      <3> QED
        BY <1>3, <3>1, <3>2, <3>3, <3>4 DEF Finish, Preflighted, Prepared, Edited, Snapshotted,
           Restored, Destroyed, NotPrewarmed, NotDestroyed, EvaluationStarted, RetryStarted, NotDiscarded,
           RetryFails, Acknowledged, NotAcknowledged
    <2>4. journal'[a].phase = "blocked" => NotDestroyed(a) \/ NotAcknowledged(a)
      <3>1. Admitted(a) \/ NotAdmitted(a) \/ Edited(a) \/ Restored(a) \/ RestoreFails(a)
              \/ RetryStarted(a) \/ NotDiscarded(a) \/ RetryFails(a) \/ OperationFails(a)
              \/ NotPrewarmed(a)
              => journal' = journal
        BY DEF Admitted, NotAdmitted, Enter, Edited, Restored, RestoreFails, RetryStarted,
           NotPrewarmed, NotDiscarded, RetryFails, OperationFails, Raises
      <3>2. Preflighted(a) \/ Prepared(a) \/ Snapshotted(a) \/ Destroyed(a)
              \/ EvaluationStarted(a) \/ Acknowledged(a)
              => journal'[a].phase # "blocked"
        BY <1>0 DEF Preflighted, Prepared, Snapshotted, Destroyed, EvaluationStarted,
           Acknowledged, Records
      <3> QED
        BY <1>3, <2>2, <3>1, <3>2 DEF Finish, Closed
    <2>5. CASE NotDestroyed(a)
      BY <1>0, <2>2, <2>3, <2>5 DEF NotDestroyed, Ends, Becomes, Sound, Working, Holding, Closing,
         StaysClosed, AttemptState
    <2>6. CASE NotAcknowledged(a)
      BY <1>0, <2>2, <2>3, <2>6 DEF NotAcknowledged, Ends, Becomes, Closing, StaysClosed,
         AttemptState
    <2> QED
      BY <2>2, <2>3, <2>4, <2>5, <2>6 DEF Closing, StaysClosed
  <1> QED
    BY <1>1, <1>2, <1>3

LEMMA BesideClosing ==
    ASSUME Inv, NEW a \in Attempts, Closing(a),
           Refused(a) \/ RequestAbort(a) \/ ResidualGone(a) \/ EvaluatorEnds(a) \/ Sweep(a)
           \/ Recover(a)
    PROVE  Closing(a)' /\ StaysClosed(a)
  <1>0. /\ Sound(a) /\ attempt \in [Attempts -> AttemptState]
        /\ docker \in [Attempts -> SUBSET Roles]
        /\ journal \in [Attempts -> [phase : Phases, passed : BOOLEAN]]
        /\ DOMAIN running = Attempts
    BY DEF Inv, TypeOK, AttemptState, MaybePatch, Roles
  <1>1. CASE Refused(a) \/ RequestAbort(a) \/ EvaluatorEnds(a)
    BY <1>1 DEF Refused, RequestAbort, EvaluatorEnds, memoryVars, Closing, StaysClosed
  <1>2. CASE ResidualGone(a) \/ Sweep(a)
    BY <1>0, <1>2 DEF ResidualGone, Sweep, memoryVars, Closing, StaysClosed
  <1>3. CASE Recover(a)
    <2>1. ~ attempt'[a].job
      BY <1>0, <1>3 DEF Recover, Becomes, Sound, Started, AttemptState
    <2>2. running'[a] = "idle"
      BY <1>0, <1>3 DEF Recover
    <2>3. docker'[a] \subseteq docker[a]
      BY <1>0, <1>3 DEF Recover, Cleaned, NotCleaned
    <2>4. /\ journal'[a].phase \in {"recovered", "blocked"}
          /\ attempt'[a].phase = journal'[a].phase
      BY <1>0, <1>3 DEF Recover, Becomes, Records, AttemptState
    <2> QED
      BY <2>1, <2>2, <2>3, <2>4 DEF Closing, StaysClosed, Closed, Ended
  <1> QED
    BY <1>1, <1>2, <1>3

LEMMA NextClosing ==
    ASSUME Inv, \A b \in Attempts : Closing(b), [Next]_vars, NEW b \in Attempts
    PROVE  Closing(b)' /\ StaysClosed(b)
  <1>0. TypeOK /\ Sound(b) /\ Closing(b)
    BY DEF Inv
  <1>1. ASSUME NEW a \in Attempts, ActionOf(a) PROVE Closing(b)' /\ StaysClosed(b)
    <2>1. CASE a = b
      BY <1>0, <1>1, <2>1, StartClosing, FinishClosing, BesideClosing DEF ActionOf, StaysClosed
    <2>2. CASE a # b
      BY <1>0, <1>1, <2>2, Others, CancelledStays DEF Same, Closing, StaysClosed
    <2> QED
      BY <2>1, <2>2
  <1>2. CASE Crash
    BY <1>0, <1>2 DEF Crash, Fresh, Creating, Sound, Ending, Closing, StaysClosed, Closed, Ended,
       TypeOK
  <1>3. CASE Restart
    BY <1>0, <1>3 DEF Restart, Fresh, Closing, StaysClosed
  <1>4. CASE Recovered
    BY <1>0, <1>4 DEF Recovered, Closing, StaysClosed
  <1>5. CASE UNCHANGED vars
    BY <1>0, <1>5 DEF vars, memoryVars, Closing, StaysClosed
  <1> QED
    BY <1>1, <1>2, <1>3, <1>4, <1>5 DEF Next, ActionOf

\* An attempt that is closed on disk - acknowledged, aborted, recovered or blocked - is never
\* opened again, by repeated calls, by an abort, or by a restart that replays the journal; and
\* from then on Docker loses what it holds for it and gets nothing new
\* (runtime_service.py, _restore_response and the prechecks).
THEOREM ClosedStaysClosed == Spec => [][\A a \in Attempts : StaysClosed(a)]_vars
  <1>1. Init => \A a \in Attempts : Closing(a)
    BY DEF Init, Closing
  <1>2. Inv /\ (\A a \in Attempts : Closing(a)) /\ [Next]_vars
        => (\A a \in Attempts : Closing(a))' /\ \A a \in Attempts : StaysClosed(a)
    BY NextClosing
  <1> QED
    BY <1>1, <1>2, InvHolds, PTL DEF Spec
=============================================================================
