---------------------------- MODULE RepoFixWorkflow ----------------------------
(***************************************************************************)
(* One attempt of RepoFix: the stages of runRepoFixWorkflow under the stage *)
(* machine and the completion control, the session of runM4DevWorkflow that *)
(* resumes them once on a new Worker from the newest valid checkpoint, and  *)
(* the hand-over of the last snapshot to runM7FormalRun.  Of the Controller *)
(* it has the attempt whose Worker the tools edit and whose snapshot the    *)
(* verification reads.  A tree stands for the code and for its patch.        *)
(***************************************************************************)
EXTENDS Naturals, Sequences

CONSTANTS
    Trees,        \* states of the repository
    Baseline,     \* the tree of the base commit, whose patch is empty
    Unsafe,       \* trees whose snapshot fails the patch policy
    None,
    WithLocalize, \* include_localize_stage
    MaxRequests,  \* maxModelTurns
    MaxFaults     \* bound on Worker exits, failures and lost answers

Attempts == 2     \* MAX_STAGE_COMPLETION_ONLY_ATTEMPTS

ASSUME WorkflowAssumption ==
    /\ Baseline \in Trees /\ Unsafe \subseteq Trees \ {Baseline} /\ None \notin Trees
    /\ WithLocalize \in BOOLEAN
    /\ MaxRequests \in Nat /\ MaxFaults \in Nat

VARIABLES
    worker,           \* the Worker's container: is it up, and its tree
    attempt,          \* the Controller's record of the attempt
    late,             \* edits whose answer the client gave up, still to be executed
    done,             \* completed stages, a prefix of Stages
    stage,            \* of the active stage: tools, stop after the turn, prompts
    sealed,           \* p0, v1, v2, p1 as far as the workflow has them
    feedback,         \* verificationFeedback: the tree it is about, the session that got it
    recorded,         \* the patch hashes and the verification hashes of the summary
    latestSnapshot,
    checkpoints,
    interruption,
    recoveries,       \* workerRecoveries
    requests,         \* agentRequests
    pc,
    faults

session == <<done, stage, sealed, feedback, recorded, latestSnapshot, checkpoints>>
outer == <<interruption, recoveries, requests, faults>>
vars == <<worker, attempt, late, session, outer, pc>>
-----------------------------------------------------------------------------
(* Stages.                                                                   *)
Stages ==
    IF WithLocalize
    THEN <<"UNDERSTAND", "LOCALIZE", "PLAN", "IMPLEMENT", "REFINE_1", "REFINE_2", "SELF_REVIEW">>
    ELSE <<"UNDERSTAND", "PLAN", "IMPLEMENT", "REFINE_1", "REFINE_2", "SELF_REVIEW">>
Editing == {"IMPLEMENT", "REFINE_1", "REFINE_2"}
Capturing == Editing \cup {"SELF_REVIEW"}
Active == Stages[done + 1]       \* the stage that runs
Completed == Stages[done]        \* the one that has just completed

\* The stage's tools are cut to stage_complete (completionOnly, completion_forced); this turn
\* is the last of its prompt; recovery prompts so far.
Started == [only |-> FALSE, stop |-> FALSE, prompts |-> 0]

LastOf(s, otherwise) == IF s = <<>> THEN otherwise ELSE s[Len(s)]
LastPatch == LastOf(sealed, Baseline)

Init ==
    /\ worker = [up |-> TRUE, tree |-> Baseline]
    /\ attempt = [lease |-> 1, phase |-> "snapshotted", patch |-> Baseline,
                  interrupted |-> FALSE, graded |-> None]
    /\ late = {}
    /\ done = 0 /\ stage = Started
    /\ sealed = <<>> /\ feedback = <<>> /\ recorded = [patches |-> <<>>, hashes |-> <<>>]
    /\ latestSnapshot = Baseline
    /\ checkpoints = <<[done |-> 0, sealed |-> <<>>, feedback |-> <<>>, hashes |-> <<>>,
                        snapshot |-> Baseline]>>
    /\ interruption = FALSE /\ recoveries = 0 /\ requests = 0
    /\ pc = "boundary" /\ faults = 0

Fault == faults < MaxFaults /\ faults' = faults + 1
NoFault == UNCHANGED faults
-----------------------------------------------------------------------------
(* A prompt: turns of the model under the stage's hooks.                     *)
StartStage ==
    /\ pc = "boundary" /\ done < Len(Stages)
    /\ stage' = Started /\ pc' = "prompt"
    /\ UNCHANGED <<worker, attempt, late, done, sealed, feedback, recorded, latestSnapshot,
                   checkpoints, outer>>

\* A request is admitted and counted; the answer ends the prompt, or the loop goes on unless
\* the completion control asked for a stop.
Turn(ends, only, fin) ==
    /\ pc = "prompt" /\ requests < MaxRequests
    /\ requests' = requests + 1
    /\ done' = IF fin THEN done + 1 ELSE done
    /\ stage' = [stage EXCEPT !.only = only /\ ~fin, !.stop = FALSE]
    /\ pc' = CASE fin -> "complete"
               [] ~fin /\ (ends \/ stage.stop \/ only # stage.only) -> "returned"
               [] OTHER -> "prompt"
    /\ UNCHANGED <<sealed, feedback, recorded, latestSnapshot, checkpoints, recoveries>>

Quietly == UNCHANGED <<worker, attempt, late, interruption>> /\ NoFault

\* Text, an output cut at its length, a stage_complete that was refused; or the calls were
\* blocked, and the model is asked again.
TurnEnds == Turn(TRUE, stage.only, FALSE) /\ Quietly
CallsBlocked == Turn(FALSE, stage.only, FALSE) /\ Quietly
StageCompletes == Turn(TRUE, stage.only, TRUE) /\ Quietly

\* The Provider fails: the run ends on its error message, before the hook that would stop it.
ProviderFails ==
    /\ pc = "prompt" /\ requests < MaxRequests
    /\ requests' = requests + 1 /\ Fault
    /\ pc' = "returned"
    /\ UNCHANGED <<worker, attempt, late, session, interruption, recoveries>>

\* The limit on model turns is reached: an error message, and no hook of the turn runs.
TurnRefused ==
    /\ pc = "prompt" /\ requests = MaxRequests
    /\ pc' = "returned"
    /\ UNCHANGED <<worker, attempt, late, session, outer>>

\* A repository tool answers; over: its output used up the stage's budget, which leaves only
\* stage_complete and stops after this turn.
ToolTurn(over) == ~stage.only /\ Turn(FALSE, over, FALSE)
MayEdit == pc = "prompt" /\ Active \in Editing
Usable == worker.up /\ attempt.phase \in {"active", "snapshotted"}
Edited(t) ==
    /\ worker' = [worker EXCEPT !.tree = t]
    /\ attempt' = [attempt EXCEPT !.phase = "active", !.patch = None]

Read == \E over \in BOOLEAN : ToolTurn(over) /\ worker.up /\ Quietly
Edit(t) ==
    /\ MayEdit /\ Usable
    /\ \E over \in BOOLEAN : ToolTurn(over)
    /\ Edited(t)
    /\ UNCHANGED <<late, interruption>> /\ NoFault

\* The helper fails: the edit may be there, and perform never reaches the phase.
EditFails(t) ==
    /\ MayEdit /\ Usable
    /\ ToolTurn(FALSE)
    /\ worker' = [worker EXCEPT !.tree = t]
    /\ UNCHANGED <<attempt, late, interruption>> /\ Fault

\* The client's timeout: the model gets an error, the Controller has the request.
EditUnanswered(t) ==
    /\ MayEdit
    /\ ToolTurn(FALSE)
    /\ late' = late \cup {[lease |-> attempt.lease, tree |-> t]}
    /\ UNCHANGED <<worker, attempt, interruption>> /\ Fault

\* runtime_worker_exited or runtime_worker_interrupted: the transport notes it and aborts the
\* Agent, so the prompt returns and no request follows.
ToolFindsWorkerGone ==
    /\ pc = "prompt" /\ requests < MaxRequests /\ ~stage.only
    /\ \/ ~worker.up /\ UNCHANGED worker /\ NoFault
       \/ /\ worker.up /\ Fault
          /\ \E t \in IF MayEdit THEN Trees ELSE {worker.tree} :
                 worker' = [worker EXCEPT !.tree = t]
    /\ attempt' = [attempt EXCEPT !.interrupted = TRUE]
    /\ interruption' = TRUE /\ requests' = requests + 1
    /\ pc' = "returned"
    /\ UNCHANGED <<late, session, recoveries>>
-----------------------------------------------------------------------------
(* Between prompts.                                                          *)
Fail == pc' = "failed"

\* A stage without an artifact is cut to stage_complete; the first time only, a stop is asked
\* for after the next turn.
ForceCompletion(s) == [s EXCEPT !.only = TRUE, !.stop = @ \/ ~s.only]

\* Faulty: the attempts are not counted.
PromptAgainForever ==
    /\ pc = "returned" /\ ~interruption
    /\ stage' = ForceCompletion(stage)
    /\ pc' = "prompt"
    /\ UNCHANGED <<worker, attempt, late, done, sealed, feedback, recorded, latestSnapshot,
                   checkpoints, outer>>

PromptAgain ==
    /\ pc = "returned" /\ ~interruption /\ stage.prompts < Attempts
    /\ stage' = [ForceCompletion(stage) EXCEPT !.prompts = @ + 1]
    /\ pc' = "prompt"
    /\ UNCHANGED <<worker, attempt, late, done, sealed, feedback, recorded, latestSnapshot,
                   checkpoints, outer>>
StageMissing ==
    /\ pc = "returned" /\ ~interruption /\ stage.prompts = Attempts
    /\ Fail /\ UNCHANGED <<worker, attempt, late, session, outer>>
PromptInterrupted ==
    /\ pc = "returned" /\ interruption
    /\ pc' = "lost" /\ UNCHANGED <<worker, attempt, late, session, outer>>

\* The prefix is bound to the last snapshot, unless that failed the policy.
Checkpoint(snapshot, patches, verified, hashes) ==
    checkpoints' = IF snapshot \in Unsafe THEN checkpoints
                   ELSE Append(checkpoints, [done |-> done, sealed |-> patches,
                            feedback |-> verified, hashes |-> hashes, snapshot |-> snapshot])

\* A stage that seals no patch: its artifact is the boundary.
StageSealed ==
    /\ pc = "complete" /\ Completed \notin Capturing
    /\ Checkpoint(latestSnapshot, sealed, feedback, recorded.hashes)
    /\ pc' = "boundary"
    /\ UNCHANGED <<worker, attempt, late, done, stage, sealed, feedback, recorded,
                   latestSnapshot, outer>>

\* Faulty: P1 is not compared with V2.
SnapshotTakenAnyway ==
    /\ pc = "complete" /\ Completed \in Capturing /\ Usable
    /\ attempt' = [attempt EXCEPT !.phase = "snapshotted", !.patch = worker.tree]
    /\ latestSnapshot' = worker.tree
    /\ sealed' = Append(sealed, worker.tree)
    /\ recorded' = [recorded EXCEPT !.patches = Append(@, worker.tree)]
    /\ Checkpoint(worker.tree, sealed', feedback, recorded.hashes)
    /\ pc' = IF Completed = "SELF_REVIEW" THEN "boundary" ELSE "verify"
    /\ UNCHANGED <<worker, late, done, stage, feedback, outer>>

\* capturePatch: P0, V1, V2, and a P1 that has to be V2.
SnapshotTaken ==
    /\ pc = "complete" /\ Completed \in Capturing /\ Usable
    /\ attempt' = [attempt EXCEPT !.phase = "snapshotted", !.patch = worker.tree]
    /\ latestSnapshot' = worker.tree
    /\ sealed' = Append(sealed, worker.tree)
    /\ recorded' = [recorded EXCEPT !.patches = Append(@, worker.tree)]
    /\ IF Completed = "SELF_REVIEW" /\ worker.tree # LastPatch
       THEN Fail /\ UNCHANGED checkpoints
       ELSE /\ Checkpoint(worker.tree, sealed', feedback, recorded.hashes)
            /\ pc' = IF Completed = "SELF_REVIEW" THEN "boundary" ELSE "verify"
    /\ UNCHANGED <<worker, late, done, stage, feedback, outer>>

\* Faulty: of what the Worker has, current snapshot or not.
VerifiedInWorker ==
    /\ pc = "verify" /\ worker.up
    /\ LET result == [on |-> worker.tree, by |-> recoveries] IN
       /\ feedback' = Append(feedback, result)
       /\ recorded' = [recorded EXCEPT !.hashes = Append(@, result)]
       /\ Checkpoint(latestSnapshot, sealed, feedback', recorded'.hashes)
    /\ pc' = "boundary"
    /\ UNCHANGED <<worker, attempt, late, done, stage, sealed, latestSnapshot, outer>>

\* controlledVerify, after a capture or first in a resumed session: of the Controller's patch.
Verified ==
    /\ pc = "verify" /\ worker.up /\ attempt.phase = "snapshotted"
    /\ LET result == [on |-> attempt.patch, by |-> recoveries] IN
       /\ feedback' = Append(feedback, result)
       /\ recorded' = [recorded EXCEPT !.hashes = Append(@, result)]
       /\ Checkpoint(latestSnapshot, sealed, feedback', recorded'.hashes)
    /\ pc' = "boundary"
    /\ UNCHANGED <<worker, attempt, late, done, stage, sealed, latestSnapshot, outer>>

Asking == (pc = "complete" /\ Completed \in Capturing) \/ pc = "verify"
ControllerFindsWorkerGone ==
    /\ Asking
    /\ \/ ~worker.up /\ NoFault
       \/ worker.up /\ Fault
    /\ attempt' = [attempt EXCEPT !.interrupted = TRUE]
    /\ pc' = "lost"
    /\ UNCHANGED <<worker, late, session, interruption, recoveries, requests>>

\* A snapshot or a verification that fails otherwise, or an edit came since the snapshot.
ControllerRefuses ==
    /\ Asking
    /\ \/ pc = "verify" /\ attempt.phase # "snapshotted" /\ NoFault
       \/ Fault
    /\ Fail
    /\ UNCHANGED <<worker, attempt, late, session, interruption, recoveries, requests>>
-----------------------------------------------------------------------------
(* Recovery, at most once.                                                   *)
\* Faulty: the code of the last snapshot under the stages of an earlier checkpoint.
SelectedLatest(c) ==
    /\ latestSnapshot \notin Unsafe
    /\ worker' = [up |-> TRUE, tree |-> latestSnapshot]
    /\ attempt' = [attempt EXCEPT !.lease = @ + 1, !.phase = "snapshotted",
                                  !.patch = latestSnapshot, !.interrupted = FALSE]
    /\ done' = c.done /\ stage' = Started
    /\ sealed' = c.sealed /\ feedback' = c.feedback
    /\ recorded' = [patches |-> c.sealed, hashes |-> c.hashes]
    /\ UNCHANGED latestSnapshot

\* The newest checkpoint whose artifacts are still what was written: any may be damaged.  The
\* Controller replaces the interrupted Worker and applies the patch of the sealed snapshot.
Selected(c) ==
    /\ c.snapshot \notin Unsafe
    /\ worker' = [up |-> TRUE, tree |-> c.snapshot]
    /\ attempt' = [attempt EXCEPT !.lease = @ + 1, !.phase = "snapshotted",
                                  !.patch = c.snapshot, !.interrupted = FALSE]
    /\ done' = c.done /\ stage' = Started
    /\ sealed' = c.sealed /\ feedback' = c.feedback
    /\ recorded' = [patches |-> c.sealed, hashes |-> c.hashes]
    /\ latestSnapshot' = c.snapshot
MayRestore == recoveries = 0 /\ attempt.interrupted /\ attempt.phase \in {"active", "snapshotted"}
Recover ==
    /\ pc = "lost" /\ MayRestore
    /\ \E i \in DOMAIN checkpoints : Selected(checkpoints[i])
    /\ recoveries' = recoveries + 1 /\ interruption' = FALSE
    /\ pc' = IF Len(sealed') > Len(feedback') /\ Len(sealed') < 4 THEN "verify" ELSE "boundary"
    /\ UNCHANGED <<late, checkpoints, requests, faults>>

\* No checkpoint is valid, the restoration fails, or this was the second time.
NotRecovered ==
    /\ pc = "lost"
    /\ \/ recoveries = 1 /\ NoFault
       \/ recoveries = 0 /\ Fault
    /\ Fail
    /\ UNCHANGED <<worker, attempt, late, session, interruption, recoveries, requests>>
-----------------------------------------------------------------------------
(* The end of the attempt.                                                   *)
Complete ==
    /\ pc = "boundary" /\ done = Len(Stages)
    /\ pc' = "retained"
    /\ UNCHANGED <<worker, attempt, late, session, outer>>

\* runM7FormalRun destroys the retained Worker and evaluates the final snapshot.
Accepted ==
    /\ attempt.phase = "snapshotted" /\ attempt.patch \notin Unsafe
    /\ attempt.patch = LastOf(recorded.patches, None)
Evaluate ==
    /\ pc = "retained"
    /\ Accepted
    /\ worker' = [worker EXCEPT !.up = FALSE]
    /\ attempt' = [attempt EXCEPT !.phase = "destroyed", !.graded = attempt.patch]
    /\ pc' = "over"
    /\ UNCHANGED <<late, session, outer>>
NotEvaluated ==
    /\ pc = "retained" /\ Fail
    /\ \/ ~Accepted /\ NoFault
       \/ Fault
    /\ UNCHANGED <<worker, attempt, late, session, interruption, recoveries, requests>>

Abort ==
    /\ pc = "failed" /\ pc' = "over"
    /\ worker' = [worker EXCEPT !.up = FALSE]
    /\ attempt' = [attempt EXCEPT !.lease = 0, !.phase = "aborted", !.patch = None]
    /\ UNCHANGED <<late, session, outer>>
-----------------------------------------------------------------------------
(* What happens beside the session.                                          *)
WorkerExits ==
    /\ worker.up /\ worker' = [worker EXCEPT !.up = FALSE]
    /\ Fault
    /\ UNCHANGED <<attempt, late, session, interruption, recoveries, requests, pc>>

\* The Controller comes to an edit nobody waits for: under the lease it was sent with.
LateEdit(e) ==
    /\ late' = late \ {e}
    /\ IF e.lease # attempt.lease \/ attempt.phase \notin {"active", "snapshotted"}
       THEN UNCHANGED <<worker, attempt>>
       ELSE IF worker.up THEN Edited(e.tree)
       ELSE UNCHANGED worker /\ attempt' = [attempt EXCEPT !.interrupted = TRUE]
    /\ UNCHANGED <<session, outer, pc>>

Steps ==
    \/ StartStage \/ TurnEnds \/ CallsBlocked \/ StageCompletes \/ TurnRefused \/ Read
    \/ ProviderFails
    \/ \E t \in Trees : Edit(t) \/ EditFails(t) \/ EditUnanswered(t)
    \/ ToolFindsWorkerGone
    \/ PromptAgain \/ StageMissing \/ PromptInterrupted
    \/ StageSealed \/ SnapshotTaken \/ Verified
    \/ ControllerFindsWorkerGone \/ ControllerRefuses
    \/ Recover \/ NotRecovered
    \/ Complete \/ Evaluate \/ NotEvaluated \/ Abort
Next == Steps \/ WorkerExits \/ \E e \in late : LateEdit(e)

Spec == Init /\ [][Next]_vars

\* Prompts, calls of the Controller and its answers end; the Worker may exit and an edit nobody
\* waits for may never be executed.
FairSpec == Spec /\ WF_vars(Steps)
-----------------------------------------------------------------------------
(* Properties.                                                               *)

\* Every verification the model is told about was of the patch sealed before it, and the
\* summary lists these patches and verifications, whatever of them a recovery took back.
EvidenceIsOnPatch ==
    /\ recorded = [patches |-> sealed, hashes |-> feedback]
    /\ Len(feedback) <= Len(sealed)
    /\ \A i \in DOMAIN feedback : feedback[i].on = sealed[i]

\* The snapshot that the Controller holds as current is the workflow's last one, after edits,
\* failed edits and a recovery: no stage and no verification builds on work that was given up.
SnapshotIsSealed == attempt.patch # None => attempt.patch = LastPatch

\* The patch that is evaluated is P1, is V2, is what the last verification was run on, and
\* passed the policy: edits that arrive late do not get in.
GradedAsVerified ==
    attempt.graded # None =>
        /\ Len(sealed) = 4 /\ Len(feedback) = 3
        /\ attempt.graded = sealed[4] /\ attempt.graded = feedback[3].on
        /\ attempt.graded \notin Unsafe

\* The attempt comes to its end, whatever the model answers and the Worker does.
WorkflowEnds == <>(pc = "over")

\* "requests a stop after every completion-only recovery turn": a turn in which only
\* stage_complete is left is the last of its prompt.
OneTurnPerRecovery ==
    [][pc = "prompt" /\ stage.only /\ requests' # requests => pc' # "prompt"]_vars
=============================================================================
