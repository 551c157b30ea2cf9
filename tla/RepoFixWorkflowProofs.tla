------------------------ MODULE RepoFixWorkflowProofs ------------------------
(* Theorems about one attempt of RepoFix, for all trees, with and without     *)
(* LOCALIZE, for any number of turns and faults.                              *)
EXTENDS RepoFixWorkflow, SequenceTheorems, TLAPS

-----------------------------------------------------------------------------
(* The inductive invariant.                                                 *)
Results == [on : Trees, by : Nat]

\* The stages before IMPLEMENT, and the patches that n completed stages have sealed.
Before == Len(Stages) - 4
Captured(n) == IF n <= Before THEN 0 ELSE n - Before

Typed ==
    /\ worker \in [up : BOOLEAN, tree : Trees]
    /\ attempt \in [lease : Nat, phase : {"active", "snapshotted", "destroyed", "aborted"},
                    patch : Trees \cup {None}, interrupted : BOOLEAN,
                    graded : Trees \cup {None}]
    /\ late \subseteq [lease : Nat, tree : Trees]
    /\ done \in 0..Len(Stages)
    /\ sealed \in Seq(Trees) /\ feedback \in Seq(Results)
    /\ recoveries \in Nat
    /\ pc \in {"boundary", "prompt", "returned", "complete", "verify", "lost", "retained",
               "failed", "over"}

\* The verifications of f are of the patches of s, one by one.
Matches(s, f) ==
    /\ Len(f) <= Len(s)
    /\ \A i \in 1..Len(f) : f[i].on = s[i]

\* What n completed stages have left: P1 is V2, and at most the last verification is missing.
Coherent(n, s, f) ==
    /\ Matches(s, f)
    /\ Len(s) = Captured(n)
    /\ Len(f) <= 3 /\ Len(s) <= Len(f) + 1
    /\ Len(s) = 4 => s[4] = s[3]

\* No verification is missing.
Verifications(s, f) == Len(s) <= 3 => Len(f) = Len(s)

Checkpoints ==
    {c \in [done : 0..Len(Stages), sealed : Seq(Trees), feedback : Seq(Results),
            hashes : Seq(Results), snapshot : Trees] :
        /\ Coherent(c.done, c.sealed, c.feedback)
        /\ c.hashes = c.feedback
        /\ c.snapshot = LastOf(c.sealed, Baseline)}

Progress ==
    /\ pc \in {"boundary", "prompt", "returned", "retained"} =>
          Coherent(done, sealed, feedback) /\ Verifications(sealed, feedback)
    /\ pc \in {"prompt", "returned"} => done < Len(Stages)
    /\ pc = "complete" =>
          done > 0 /\ Coherent(done - 1, sealed, feedback) /\ Verifications(sealed, feedback)
    /\ pc = "verify" =>
          Coherent(done, sealed, feedback) /\ Len(sealed) = Len(feedback) + 1 /\ Len(sealed) < 4
    /\ pc = "retained" => done = Len(Stages)

Current ==
    /\ latestSnapshot = LastPatch
    /\ attempt.phase = "snapshotted" => attempt.patch # None
    /\ attempt.patch # None => attempt.patch = LastPatch

Evaluated == attempt.graded # None => pc = "over" /\ GradedAsVerified

Inv ==
    /\ Typed
    /\ Matches(sealed, feedback)
    /\ recorded = [patches |-> sealed, hashes |-> feedback]
    /\ checkpoints \in Seq(Checkpoints)
    /\ Progress /\ Current /\ Evaluated

-----------------------------------------------------------------------------
(* Stages and sequences.                                                    *)
\* The last four stages seal patches, the very last is SELF_REVIEW.
LEMMA StageFacts ==
    /\ Len(Stages) \in Nat /\ Before \in Nat /\ Len(Stages) = Before + 4
    /\ \A n \in 1..Len(Stages) :
          /\ Stages[n] \in Capturing <=> n > Before
          /\ Stages[n] = "SELF_REVIEW" <=> n = Len(Stages)
  <1>1. CASE WithLocalize
    <2>1. Len(Stages) = 7 /\ Before = 3
      BY <1>1 DEF Stages, Before
    <2>2. \A n \in 1..7 : n = 1 \/ n = 2 \/ n = 3 \/ n = 4 \/ n = 5 \/ n = 6 \/ n = 7
      OBVIOUS
    <2>3. /\ Stages[1] = "UNDERSTAND" /\ Stages[2] = "LOCALIZE" /\ Stages[3] = "PLAN"
          /\ Stages[4] = "IMPLEMENT" /\ Stages[5] = "REFINE_1" /\ Stages[6] = "REFINE_2"
          /\ Stages[7] = "SELF_REVIEW"
      BY <1>1 DEF Stages
    <2> QED
      BY <2>1, <2>2, <2>3 DEF Capturing, Editing
  <1>2. CASE ~WithLocalize
    <2>1. Len(Stages) = 6 /\ Before = 2
      BY <1>2 DEF Stages, Before
    <2>2. \A n \in 1..6 : n = 1 \/ n = 2 \/ n = 3 \/ n = 4 \/ n = 5 \/ n = 6
      OBVIOUS
    <2>3. /\ Stages[1] = "UNDERSTAND" /\ Stages[2] = "PLAN"
          /\ Stages[3] = "IMPLEMENT" /\ Stages[4] = "REFINE_1" /\ Stages[5] = "REFINE_2"
          /\ Stages[6] = "SELF_REVIEW"
      BY <1>2 DEF Stages
    <2> QED
      BY <2>1, <2>2, <2>3 DEF Capturing, Editing
  <1> QED
    BY <1>1, <1>2

\* The last of a sequence that has just grown.
LEMMA LastOfAppend ==
    ASSUME NEW S, NEW s \in Seq(S), NEW e \in S, NEW otherwise
    PROVE  /\ Append(s, e) \in Seq(S) /\ Len(Append(s, e)) = Len(s) + 1
           /\ \A i \in 1..Len(s) : Append(s, e)[i] = s[i]
           /\ Append(s, e)[Len(s) + 1] = e
           /\ LastOf(Append(s, e), otherwise) = e
  <1>1. /\ Append(s, e) \in Seq(S) /\ Len(Append(s, e)) = Len(s) + 1
        /\ \A i \in 1..Len(s) : Append(s, e)[i] = s[i]
        /\ Append(s, e)[Len(s) + 1] = e
    BY AppendProperties
  <1>2. Append(s, e) # <<>>
    BY <1>1, EmptySeq
  <1> QED
    BY <1>1, <1>2 DEF LastOf

\* The last of a sequence of trees is a tree.
LEMMA LastOfType ==
    ASSUME NEW s \in Seq(Trees)
    PROVE  LastOf(s, Baseline) \in Trees /\ (Len(s) > 0 => LastOf(s, Baseline) = s[Len(s)])
  BY EmptySeq, WorkflowAssumption DEF LastOf

\* A patch more leaves the verifications where they are.
LEMMA MatchesMorePatches ==
    ASSUME NEW s \in Seq(Trees), NEW t \in Trees, NEW f \in Seq(Results), Matches(s, f)
    PROVE  Matches(Append(s, t), f)
  <1>1. /\ Len(Append(s, t)) = Len(s) + 1
        /\ \A i \in 1..Len(s) : Append(s, t)[i] = s[i]
    BY LastOfAppend
  <1>2. 1..Len(f) \subseteq 1..Len(s)
    BY DEF Matches
  <1> QED
    BY <1>1, <1>2 DEF Matches

\* A stage that seals a patch.
LEMMA CoherentMorePatches ==
    ASSUME NEW n \in 1..Len(Stages), NEW s \in Seq(Trees), NEW t \in Trees, NEW f \in Seq(Results),
           Coherent(n - 1, s, f), Verifications(s, f), Stages[n] \in Capturing,
           Stages[n] = "SELF_REVIEW" => t = LastOf(s, Baseline)
    PROVE  /\ Coherent(n, Append(s, t), f)
           /\ Len(s) = n - 1 - Before /\ Len(s) <= 3
           /\ Stages[n] = "SELF_REVIEW" => Verifications(Append(s, t), f)
           /\ Stages[n] # "SELF_REVIEW" => Len(s) + 1 = Len(f) + 1 /\ Len(s) + 1 < 4
  <1>1. n > Before /\ Len(Stages) = Before + 4 /\ Before \in Nat
        /\ (Stages[n] = "SELF_REVIEW" <=> n = Len(Stages))
    BY StageFacts
  <1>2. Len(s) = n - 1 - Before /\ Captured(n) = Len(s) + 1 /\ Len(s) <= 3
    BY <1>1 DEF Coherent, Captured
  <1>3. Len(f) = Len(s)
    BY <1>2 DEF Verifications
  <1>4. /\ Len(Append(s, t)) = Len(s) + 1
        /\ \A i \in 1..Len(s) : Append(s, t)[i] = s[i]
        /\ Append(s, t)[Len(s) + 1] = t
    BY LastOfAppend
  <1>5. ASSUME Len(s) + 1 = 4
        PROVE  Append(s, t)[4] = Append(s, t)[3]
    <2>1. n = Len(Stages) /\ Len(s) = 3
      BY <1>1, <1>2, <1>5
    <2>2. Len(s) > 0
      BY <2>1
    <2>3. LastOf(s, Baseline) = s[Len(s)]
      BY <2>2, LastOfType, Zenon
    <2>4. t = s[3]
      BY <1>1, <2>1, <2>3
    <2> QED
      BY <1>4, <2>1, <2>4
  <1>6. Matches(Append(s, t), f)
    BY MatchesMorePatches DEF Coherent
  <1> QED
    BY <1>1, <1>2, <1>3, <1>4, <1>5, <1>6 DEF Coherent, Verifications

\* The verification of the last patch.
LEMMA CoherentMoreVerifications ==
    ASSUME NEW n \in 0..Len(Stages), NEW s \in Seq(Trees), NEW f \in Seq(Results), NEW r \in Results,
           Coherent(n, s, f), Len(s) = Len(f) + 1, Len(s) < 4, r.on = LastOf(s, Baseline)
    PROVE  Coherent(n, s, Append(f, r)) /\ Verifications(s, Append(f, r))
  <1>1. r.on = s[Len(s)]
    BY LastOfType
  <1>2. /\ Len(Append(f, r)) = Len(f) + 1
        /\ \A i \in 1..Len(f) : Append(f, r)[i] = f[i]
        /\ Append(f, r)[Len(f) + 1] = r
    BY LastOfAppend
  <1>3. \A i \in 1..(Len(f) + 1) : i \in 1..Len(f) \/ i = Len(f) + 1
    OBVIOUS
  <1>4. Matches(s, Append(f, r))
    BY <1>1, <1>2, <1>3 DEF Matches, Coherent
  <1> QED
    BY <1>2, <1>4 DEF Coherent, Verifications

-----------------------------------------------------------------------------
(* The steps.                                                               *)
\* What an action has to leave as it is when nothing of the session is sealed.
Kept == <<sealed, feedback, recorded, latestSnapshot, checkpoints>>

LEMMA InitInv == Init => Inv
  <1> SUFFICES ASSUME Init PROVE Inv
    OBVIOUS
  <1>1. /\ Len(Stages) \in Nat /\ Before \in Nat
        /\ Baseline \in Trees /\ sealed \in Seq(Trees) /\ feedback \in Seq(Results)
        /\ Len(sealed) = 0 /\ Len(feedback) = 0 /\ sealed = <<>> /\ feedback = <<>>
    BY StageFacts, WorkflowAssumption DEF Init
  <1>2. Typed
    BY <1>1 DEF Init, Typed
  <1>3. Matches(<<>>, <<>>) /\ Coherent(0, <<>>, <<>>) /\ Verifications(<<>>, <<>>)
    BY <1>1 DEF Matches, Coherent, Captured, Verifications
  <1>4. LastOf(<<>>, Baseline) = Baseline
    BY DEF LastOf
  <1>5. [done |-> 0, sealed |-> <<>>, feedback |-> <<>>, hashes |-> <<>>, snapshot |-> Baseline]
        \in Checkpoints
    BY <1>1, <1>3, <1>4 DEF Checkpoints
  <1>6. checkpoints \in Seq(Checkpoints)
    BY <1>5 DEF Init
  <1>7. Progress
    BY <1>1, <1>3 DEF Init, Progress
  <1>8. attempt.patch = Baseline /\ attempt.graded = None
    BY DEF Init
  <1>9. Current /\ Evaluated
    BY <1>1, <1>4, <1>8, WorkflowAssumption DEF Init, Current, LastPatch, Evaluated
  <1> QED
    BY <1>1, <1>2, <1>3, <1>6, <1>7, <1>9 DEF Init, Inv

\* A turn of the model moves the stage on or leaves it.
LEMMA TurnStep ==
    ASSUME Inv, NEW ends, NEW only, NEW fin \in BOOLEAN, Turn(ends, only, fin)
    PROVE  /\ done' \in 0..Len(Stages)
           /\ pc' \in {"prompt", "returned", "complete"}
           /\ Progress' /\ UNCHANGED Kept /\ UNCHANGED recoveries
           /\ attempt.graded = None
  <1>1. /\ pc = "prompt" /\ done \in 0..Len(Stages) /\ done < Len(Stages) /\ Len(Stages) \in Nat
        /\ Coherent(done, sealed, feedback) /\ Verifications(sealed, feedback)
    BY StageFacts DEF Inv, Typed, Progress, Turn
  <1>2. UNCHANGED Kept /\ UNCHANGED recoveries /\ attempt.graded = None
    BY <1>1 DEF Turn, Kept, Inv, Evaluated
  <1>3. CASE fin
    <2>1. done' = done + 1 /\ pc' = "complete"
      BY <1>3 DEF Turn
    <2>2. done' > 0 /\ done' - 1 = done /\ done' \in 0..Len(Stages)
      BY <1>1, <2>1
    <2> QED
      BY <1>1, <1>2, <2>1, <2>2 DEF Progress, Kept
  <1>4. CASE ~fin
    <2>1. done' = done /\ pc' \in {"prompt", "returned"}
      BY <1>4 DEF Turn
    <2> QED
      BY <1>1, <1>2, <2>1 DEF Progress, Kept
  <1> QED
    BY <1>3, <1>4

\* A turn that leaves the Controller's attempt alone.
LEMMA QuietTurn ==
    ASSUME Inv, NEW ends, NEW only, NEW fin \in BOOLEAN, Turn(ends, only, fin),
           UNCHANGED attempt, worker' \in [up : BOOLEAN, tree : Trees],
           late' \subseteq [lease : Nat, tree : Trees]
    PROVE  Inv'
  <1>1. /\ done' \in 0..Len(Stages) /\ pc' \in {"prompt", "returned", "complete"}
        /\ Progress' /\ UNCHANGED Kept /\ UNCHANGED recoveries /\ attempt.graded = None
    BY TurnStep
  <1>2. Typed'
    BY <1>1 DEF Inv, Typed, Kept
  <1>3. Current' /\ Evaluated'
    BY <1>1 DEF Inv, Current, LastPatch, Evaluated, Kept
  <1> QED
    BY <1>1, <1>2, <1>3 DEF Inv, Kept, Matches

\* Everything between two seals: only the position, the Worker and the fault budget move.
LEMMA NothingSealed ==
    ASSUME Inv, UNCHANGED <<done, Kept, recoveries>>,
           worker' \in [up : BOOLEAN, tree : Trees],
           late' \subseteq [lease : Nat, tree : Trees],
           attempt' \in [lease : Nat, phase : {"active", "snapshotted", "destroyed", "aborted"},
                         patch : Trees \cup {None}, interrupted : BOOLEAN,
                         graded : Trees \cup {None}],
           attempt'.patch \in {None, attempt.patch},
           attempt'.phase = "snapshotted" => attempt.phase = "snapshotted" /\ attempt'.patch = attempt.patch,
           attempt'.graded = attempt.graded,
           pc = "over" => pc' = "over",
           pc' \in {"boundary", "prompt", "returned", "complete", "verify", "lost", "retained",
                    "failed", "over"},
           Progress'
    PROVE  Inv'
  <1>1. Typed'
    BY DEF Inv, Typed, Kept
  <1>2. Current'
    BY DEF Inv, Current, LastPatch, Kept
  <1>3. Evaluated'
    BY DEF Inv, Evaluated, GradedAsVerified, Kept
  <1> QED
    BY <1>1, <1>2, <1>3 DEF Inv, Kept, Matches

\* A checkpoint is bound to the code that its stages left.
LEMMA CheckpointAdded ==
    ASSUME checkpoints \in Seq(Checkpoints), done \in 0..Len(Stages),
           NEW snapshot \in Trees, NEW s \in Seq(Trees), NEW f \in Seq(Results),
           Coherent(done, s, f), snapshot = LastOf(s, Baseline), Checkpoint(snapshot, s, f, f)
    PROVE  checkpoints' \in Seq(Checkpoints)
  <1> DEFINE c == [done |-> done, sealed |-> s, feedback |-> f, hashes |-> f, snapshot |-> snapshot]
  <1>1. c \in Checkpoints
    BY DEF Checkpoints
  <1>2. checkpoints' = checkpoints \/ checkpoints' = Append(checkpoints, c)
    BY DEF Checkpoint
  <1> HIDE DEF c
  <1>3. Append(checkpoints, c) \in Seq(Checkpoints)
    BY <1>1, AppendProperties
  <1> QED
    BY <1>2, <1>3

LEMMA EditInv ==
    ASSUME Inv, NEW t \in Trees, Edit(t)
    PROVE  Inv'
  <1>1. PICK over \in BOOLEAN : Turn(FALSE, over, FALSE)
    BY DEF Edit, ToolTurn
  <1>2. /\ done' \in 0..Len(Stages) /\ pc' \in {"prompt", "returned", "complete"}
        /\ Progress' /\ UNCHANGED Kept /\ UNCHANGED recoveries /\ attempt.graded = None
    BY <1>1, TurnStep
  <1>3. /\ worker' \in [up : BOOLEAN, tree : Trees] /\ late' = late
        /\ attempt' \in [lease : Nat, phase : {"active", "snapshotted", "destroyed", "aborted"},
                         patch : Trees \cup {None}, interrupted : BOOLEAN,
                         graded : Trees \cup {None}]
        /\ attempt'.phase = "active" /\ attempt'.patch = None /\ attempt'.graded = None
    BY <1>2 DEF Edit, Edited, Inv, Typed
  <1>4. Typed'
    BY <1>2, <1>3 DEF Inv, Typed, Kept
  <1>5. Current' /\ Evaluated'
    BY <1>2, <1>3 DEF Inv, Current, LastPatch, Evaluated, Kept
  <1> QED
    BY <1>2, <1>4, <1>5 DEF Inv, Kept, Matches

LEMMA StageSealedInv ==
    ASSUME Inv, StageSealed
    PROVE  Inv'
  <1>1. /\ pc = "complete" /\ pc' = "boundary" /\ done \in 1..Len(Stages)
        /\ Coherent(done - 1, sealed, feedback) /\ Verifications(sealed, feedback)
        /\ Stages[done] \notin Capturing
        /\ Len(Stages) \in Nat /\ Before \in Nat
    BY StageFacts DEF Inv, Typed, Progress, StageSealed, Completed
  <1>2. done <= Before
    BY <1>1, StageFacts
  <1>3. Captured(done) = 0 /\ Captured(done - 1) = 0
    BY <1>1, <1>2 DEF Captured
  <1>4. Coherent(done, sealed, feedback)
    BY <1>1, <1>3 DEF Coherent
  <1>5. /\ Checkpoint(latestSnapshot, sealed, feedback, feedback)
        /\ latestSnapshot = LastOf(sealed, Baseline)
        /\ sealed \in Seq(Trees) /\ feedback \in Seq(Results) /\ checkpoints \in Seq(Checkpoints)
    BY DEF StageSealed, Inv, Typed, Current, LastPatch
  <1>6. latestSnapshot \in Trees
    BY <1>5, LastOfType
  <1>7. checkpoints' \in Seq(Checkpoints)
    BY <1>1, <1>4, <1>5, <1>6, CheckpointAdded
  <1>8. UNCHANGED <<worker, attempt, late, done, sealed, feedback, recorded, latestSnapshot, recoveries>>
    BY DEF StageSealed, outer
  <1>9. Progress'
    BY <1>1, <1>4, <1>8 DEF Progress
  <1>10. Typed'
    BY <1>1, <1>8 DEF Inv, Typed
  <1>11. Current' /\ Evaluated'
    BY <1>1, <1>8 DEF Inv, Current, LastPatch, Evaluated
  <1> QED
    BY <1>7, <1>8, <1>9, <1>10, <1>11 DEF Inv, Matches

LEMMA SnapshotTakenInv ==
    ASSUME Inv, SnapshotTaken
    PROVE  Inv'
  <1> DEFINE t == worker.tree
             s == Append(sealed, t)
  <1>1. /\ pc = "complete" /\ done \in 1..Len(Stages) /\ Stages[done] \in Capturing
        /\ Coherent(done - 1, sealed, feedback) /\ Verifications(sealed, feedback)
        /\ t \in Trees /\ sealed \in Seq(Trees) /\ feedback \in Seq(Results)
        /\ attempt.graded = None /\ checkpoints \in Seq(Checkpoints)
        /\ Matches(sealed, feedback)
        /\ recorded = [patches |-> sealed, hashes |-> feedback]
    BY StageFacts DEF Inv, Typed, Progress, Evaluated, SnapshotTaken, Completed
  <1>2. /\ sealed' = s /\ feedback' = feedback /\ latestSnapshot' = t /\ done' = done
        /\ attempt' = [attempt EXCEPT !.phase = "snapshotted", !.patch = t]
        /\ UNCHANGED <<worker, late, recoveries>>
        /\ recorded' = [recorded EXCEPT !.patches = Append(@, t)]
    BY DEF SnapshotTaken, outer
  <1>3. recorded' = [patches |-> sealed', hashes |-> feedback']
    BY <1>1, <1>2
  <1>4. s \in Seq(Trees) /\ LastOf(s, Baseline) = t
    BY <1>1, LastOfAppend
  <1>5. Matches(s, feedback)
    BY <1>1, MatchesMorePatches
  <1>6. /\ attempt' \in [lease : Nat, phase : {"active", "snapshotted", "destroyed", "aborted"},
                         patch : Trees \cup {None}, interrupted : BOOLEAN,
                         graded : Trees \cup {None}]
        /\ attempt'.phase = "snapshotted" /\ attempt'.patch = t /\ attempt'.graded = None
    BY <1>1, <1>2 DEF Inv, Typed
  <1>7. Current' /\ Evaluated'
    BY <1>1, <1>2, <1>4, <1>6, WorkflowAssumption DEF Current, LastPatch, Evaluated
  <1>8. CASE Completed = "SELF_REVIEW" /\ t # LastPatch
    <2>1. pc' = "failed" /\ checkpoints' = checkpoints
      BY <1>8 DEF SnapshotTaken, Fail
    <2>2. Progress'
      BY <2>1 DEF Progress
    <2>3. Typed'
      BY <1>2, <1>4, <1>6, <2>1 DEF Inv, Typed
    <2> QED
      BY <1>1, <1>2, <1>3, <1>5, <1>7, <2>1, <2>2, <2>3 DEF Inv
  <1>9. CASE ~(Completed = "SELF_REVIEW" /\ t # LastPatch)
    <2>1. /\ Checkpoint(t, s, feedback, feedback)
          /\ pc' = IF Stages[done] = "SELF_REVIEW" THEN "boundary" ELSE "verify"
      BY <1>1, <1>2, <1>9 DEF SnapshotTaken, Completed
    <2>2. Stages[done] = "SELF_REVIEW" => t = LastOf(sealed, Baseline)
      BY <1>9 DEF Completed, LastPatch
    <2> HIDE DEF t
    <2>3. /\ Coherent(done, s, feedback)
          /\ Len(sealed) = done - 1 - Before /\ Len(sealed) <= 3
          /\ Stages[done] = "SELF_REVIEW" => Verifications(s, feedback)
          /\ Stages[done] # "SELF_REVIEW" => Len(sealed) + 1 = Len(feedback) + 1 /\ Len(sealed) + 1 < 4
      BY <1>1, <2>2, CoherentMorePatches
    <2>4. Len(s) = Len(sealed) + 1
      BY <1>1, LastOfAppend
    <2> HIDE DEF s
    <2>5. done \in 0..Len(Stages)
      BY <1>1, StageFacts
    <2>6. checkpoints' \in Seq(Checkpoints)
      BY <1>1, <1>4, <2>1, <2>3, <2>5, CheckpointAdded
    <2>7. Progress'
      BY <1>2, <2>1, <2>3, <2>4 DEF Progress
    <2>8. Typed'
      BY <1>2, <1>4, <1>6, <2>1 DEF Inv, Typed
    <2> QED
      BY <1>2, <1>3, <1>5, <1>7, <2>6, <2>7, <2>8 DEF Inv
  <1> QED
    BY <1>8, <1>9

LEMMA VerifiedInv ==
    ASSUME Inv, Verified
    PROVE  Inv'
  <1> DEFINE r == [on |-> attempt.patch, by |-> recoveries]
             f == Append(feedback, r)
  <1>1. /\ pc = "verify" /\ pc' = "boundary" /\ done \in 0..Len(Stages)
        /\ Coherent(done, sealed, feedback) /\ Len(sealed) = Len(feedback) + 1 /\ Len(sealed) < 4
        /\ sealed \in Seq(Trees) /\ feedback \in Seq(Results)
        /\ checkpoints \in Seq(Checkpoints)
        /\ recorded = [patches |-> sealed, hashes |-> feedback]
    BY DEF Inv, Typed, Progress, Verified
  <1>2. /\ attempt.patch = LastOf(sealed, Baseline) /\ latestSnapshot = LastOf(sealed, Baseline)
        /\ latestSnapshot \in Trees /\ attempt.patch \in Trees
    BY <1>1, LastOfType DEF Verified, Inv, Current, LastPatch
  <1>3. r \in Results /\ r.on = LastOf(sealed, Baseline)
    BY <1>2 DEF Results, Inv, Typed
  <1>4. /\ feedback' = f
        /\ recorded' = [recorded EXCEPT !.hashes = Append(@, r)]
        /\ Checkpoint(latestSnapshot, sealed, f, recorded'.hashes)
        /\ UNCHANGED <<worker, attempt, late, done, sealed, latestSnapshot, recoveries>>
    BY DEF Verified, outer
  <1> HIDE DEF r
  <1>5. recorded' = [patches |-> sealed', hashes |-> feedback'] /\ recorded'.hashes = f
    BY <1>1, <1>4
  <1>6. Coherent(done, sealed, f) /\ Verifications(sealed, f)
    BY <1>1, <1>3, CoherentMoreVerifications
  <1>7. f \in Seq(Results)
    BY <1>1, <1>3, LastOfAppend
  <1> HIDE DEF f
  <1>8. checkpoints' \in Seq(Checkpoints)
    <2>1. Checkpoint(latestSnapshot, sealed, f, f)
      BY <1>4, <1>5
    <2> QED
      BY <2>1, <1>1, <1>2, <1>6, <1>7, CheckpointAdded
  <1>9. Progress'
    BY <1>1, <1>4, <1>6 DEF Progress
  <1>10. Typed'
    BY <1>1, <1>4, <1>7 DEF Inv, Typed
  <1>11. Current' /\ Evaluated'
    BY <1>1, <1>4 DEF Inv, Current, LastPatch, Evaluated
  <1>12. Matches(sealed, f)
    BY <1>6 DEF Coherent
  <1> QED
    BY <1>4, <1>5, <1>8, <1>9, <1>10, <1>11, <1>12 DEF Inv

LEMMA RecoverInv ==
    ASSUME Inv, Recover
    PROVE  Inv'
  <1>1. PICK i \in DOMAIN checkpoints : Selected(checkpoints[i])
    BY DEF Recover
  <1> DEFINE c == checkpoints[i]
  <1>2. c \in Checkpoints
    BY ElementOfSeq DEF Inv
  <1>3. Selected(c)
    BY <1>1
  <1> HIDE DEF c
  <1>4. /\ c.done \in 0..Len(Stages) /\ c.sealed \in Seq(Trees) /\ c.feedback \in Seq(Results)
        /\ c.snapshot \in Trees /\ Coherent(c.done, c.sealed, c.feedback)
        /\ c.hashes = c.feedback /\ c.snapshot = LastOf(c.sealed, Baseline)
    BY <1>2 DEF Checkpoints
  <1>5. /\ pc = "lost" /\ attempt.graded = None /\ recoveries \in Nat
        /\ pc' = IF Len(sealed') > Len(feedback') /\ Len(sealed') < 4 THEN "verify" ELSE "boundary"
        /\ recoveries' = recoveries + 1 /\ UNCHANGED <<late, checkpoints>>
    BY DEF Recover, Inv, Typed, Evaluated
  <1>6. /\ worker' \in [up : BOOLEAN, tree : Trees]
        /\ attempt' \in [lease : Nat, phase : {"active", "snapshotted", "destroyed", "aborted"},
                         patch : Trees \cup {None}, interrupted : BOOLEAN,
                         graded : Trees \cup {None}]
        /\ attempt'.patch = c.snapshot /\ attempt'.graded = None
    <2>1. attempt \in [lease : Nat, phase : {"active", "snapshotted", "destroyed", "aborted"},
                       patch : Trees \cup {None}, interrupted : BOOLEAN,
                       graded : Trees \cup {None}]
      BY DEF Inv, Typed
    <2>2. attempt.lease + 1 \in Nat
      BY <2>1
    <2>3. /\ worker' = [up |-> TRUE, tree |-> c.snapshot]
          /\ attempt' = [attempt EXCEPT !.lease = @ + 1, !.phase = "snapshotted",
                                        !.patch = c.snapshot, !.interrupted = FALSE]
      BY <1>3 DEF Selected
    <2> QED
      BY <1>4, <1>5, <2>1, <2>2, <2>3
  <1>7. /\ done' = c.done /\ sealed' = c.sealed /\ feedback' = c.feedback
        /\ latestSnapshot' = c.snapshot
        /\ recorded' = [patches |-> sealed', hashes |-> feedback']
    BY <1>3, <1>4 DEF Selected
  <1>8. Typed'
    BY <1>4, <1>5, <1>6, <1>7 DEF Inv, Typed
  <1>9. Current' /\ Evaluated'
    BY <1>4, <1>6, <1>7, WorkflowAssumption DEF Current, LastPatch, Evaluated
  <1>10. Coherent(done', sealed', feedback') /\ Matches(sealed', feedback')
    BY <1>4, <1>7 DEF Coherent
  <1>11. Progress'
    <2>1. Len(sealed') \in Nat /\ Len(feedback') \in Nat
      BY <1>4, <1>7
    <2>2. Len(feedback') <= Len(sealed') /\ Len(sealed') <= Len(feedback') + 1
      BY <1>10 DEF Coherent, Matches
    <2> QED
      BY <1>5, <1>10, <2>1, <2>2 DEF Progress, Verifications
  <1> QED
    BY <1>5, <1>7, <1>8, <1>9, <1>10, <1>11 DEF Inv

LEMMA EvaluateInv ==
    ASSUME Inv, Evaluate
    PROVE  Inv'
  <1>1. /\ pc = "retained" /\ pc' = "over" /\ done = Len(Stages)
        /\ Coherent(done, sealed, feedback)
        /\ sealed \in Seq(Trees) /\ feedback \in Seq(Results)
    BY DEF Inv, Typed, Progress, Evaluate
  <1>2. UNCHANGED <<late, done, Kept, recoveries>>
    BY DEF Evaluate, session, outer, Kept
  <1>3. Len(sealed) = 4 /\ Len(feedback) = 3
    <2>1. Len(Stages) = Before + 4 /\ Before \in Nat
      BY StageFacts
    <2>2. Captured(done) = 4
      BY <1>1, <2>1 DEF Captured
    <2>3. Len(sealed) \in Nat /\ Len(feedback) \in Nat
      BY <1>1
    <2>4. /\ Len(sealed) = Captured(done) /\ Len(feedback) <= 3
          /\ Len(sealed) <= Len(feedback) + 1
      BY <1>1 DEF Coherent
    <2>5. Len(sealed) = 4 /\ 4 <= Len(feedback) + 1
      BY <2>2, <2>4
    <2>6. \A n \in Nat : n <= 3 /\ 4 <= n + 1 => n = 3
      OBVIOUS
    <2> QED
      BY <2>3, <2>4, <2>5, <2>6, Zenon
  <1>4. attempt.patch \in Trees \cup {None} /\ attempt.patch # None /\ attempt.patch \notin Unsafe
        /\ attempt.patch = LastOf(sealed, Baseline)
    BY DEF Evaluate, Accepted, Inv, Typed, Current, LastPatch
  <1>5. attempt.patch = sealed[4] /\ sealed[4] = sealed[3] /\ feedback[3].on = sealed[3]
    <2>1. LastOf(sealed, Baseline) = sealed[Len(sealed)]
      <3>1. Len(sealed) > 0
        BY <1>3
      <3> QED
        BY <1>1, <3>1, LastOfType, Zenon
    <2>2. 3 \in 1..Len(feedback)
      BY <1>3
    <2> QED
      BY <1>1, <1>3, <1>4, <2>1, <2>2 DEF Coherent, Matches
  <1>6. /\ worker' \in [up : BOOLEAN, tree : Trees]
        /\ attempt' \in [lease : Nat, phase : {"active", "snapshotted", "destroyed", "aborted"},
                         patch : Trees \cup {None}, interrupted : BOOLEAN,
                         graded : Trees \cup {None}]
        /\ attempt'.phase = "destroyed" /\ attempt'.patch = attempt.patch
        /\ attempt'.graded = attempt.patch
    BY DEF Evaluate, Inv, Typed
  <1>7. Typed'
    BY <1>1, <1>2, <1>6 DEF Inv, Typed, Kept
  <1>8. Current'
    BY <1>2, <1>6 DEF Inv, Current, LastPatch, Kept
  <1>9. Evaluated'
    BY <1>1, <1>2, <1>3, <1>4, <1>5, <1>6 DEF Evaluated, GradedAsVerified, Kept
  <1>10. Progress'
    BY <1>1 DEF Progress
  <1> QED
    BY <1>2, <1>7, <1>8, <1>9, <1>10 DEF Inv, Kept, Matches

LEMMA NextInv == Inv /\ [Next]_vars => Inv'
  <1> SUFFICES ASSUME Inv, [Next]_vars PROVE Inv'
    OBVIOUS
  <1> USE DEF Kept
  <1>0. /\ worker \in [up : BOOLEAN, tree : Trees] /\ late \subseteq [lease : Nat, tree : Trees]
        /\ attempt \in [lease : Nat, phase : {"active", "snapshotted", "destroyed", "aborted"},
                        patch : Trees \cup {None}, interrupted : BOOLEAN,
                        graded : Trees \cup {None}]
        /\ done \in 0..Len(Stages) /\ Len(Stages) \in Nat
        /\ pc \in {"boundary", "prompt", "returned", "complete", "verify", "lost", "retained",
                   "failed", "over"}
    BY StageFacts DEF Inv, Typed
  <1>1. ASSUME StartStage PROVE Inv'
    <2>1. Progress'
      BY <1>0, <1>1 DEF Inv, Progress, StartStage
    <2> QED
      BY <1>0, <1>1, <2>1, NothingSealed DEF StartStage, outer
  <1>2. ASSUME TurnEnds \/ CallsBlocked \/ StageCompletes \/ Read PROVE Inv'
    <2>1. PICK ends \in BOOLEAN, only \in {stage.only, TRUE, FALSE}, fin \in BOOLEAN :
              Turn(ends, only, fin) /\ Quietly
      BY <1>2 DEF TurnEnds, CallsBlocked, StageCompletes, Read, ToolTurn
    <2> QED
      BY <1>0, <2>1, QuietTurn DEF Quietly
  <1>3. ASSUME NEW t \in Trees, EditFails(t) \/ EditUnanswered(t) PROVE Inv'
    <2>1. Turn(FALSE, FALSE, FALSE)
      BY <1>3 DEF EditFails, EditUnanswered, ToolTurn
    <2>2. /\ worker' = worker \/ worker' = [worker EXCEPT !.tree = t]
          /\ late' = late \/ late' = late \cup {[lease |-> attempt.lease, tree |-> t]}
          /\ UNCHANGED attempt
      BY <1>3 DEF EditFails, EditUnanswered
    <2>3. [lease |-> attempt.lease, tree |-> t] \in [lease : Nat, tree : Trees]
      BY <1>0
    <2>4. worker' \in [up : BOOLEAN, tree : Trees] /\ late' \subseteq [lease : Nat, tree : Trees]
      BY <1>0, <2>2, <2>3
    <2> QED
      BY <2>1, <2>2, <2>4, QuietTurn
  <1>4. ASSUME TurnRefused \/ ProviderFails PROVE Inv'
    <2>1. /\ pc = "prompt" /\ pc' = "returned"
          /\ UNCHANGED <<worker, attempt, late, done, Kept, recoveries>>
      BY <1>4 DEF TurnRefused, ProviderFails, session, outer
    <2>2. Progress'
      BY <2>1 DEF Inv, Progress
    <2> QED
      BY <1>0, <2>1, <2>2, NothingSealed
  <1>5. ASSUME ToolFindsWorkerGone PROVE Inv'
    <2>1. /\ pc = "prompt" /\ pc' = "returned"
          /\ UNCHANGED <<late, done, Kept, recoveries>>
          /\ attempt' = [attempt EXCEPT !.interrupted = TRUE]
      BY <1>5 DEF ToolFindsWorkerGone, session
    <2>2. worker' \in [up : BOOLEAN, tree : Trees]
      <3>1. (IF MayEdit THEN Trees ELSE {worker.tree}) \subseteq Trees
        BY <1>0
      <3> QED
        BY <1>0, <1>5, <3>1 DEF ToolFindsWorkerGone
    <2>3. Progress'
      BY <2>1 DEF Inv, Progress
    <2> QED
      BY <1>0, <2>1, <2>2, <2>3, NothingSealed
  <1>6. ASSUME PromptAgain \/ StageMissing \/ PromptInterrupted PROVE Inv'
    <2>1. /\ pc = "returned" /\ pc' \in {"prompt", "failed", "lost"}
          /\ UNCHANGED <<worker, attempt, late, done, Kept, recoveries>>
      BY <1>6 DEF PromptAgain, StageMissing, PromptInterrupted, Fail, session, outer
    <2>2. Progress'
      BY <2>1 DEF Inv, Progress
    <2> QED
      BY <1>0, <2>1, <2>2, NothingSealed
  <1>7. ASSUME ControllerFindsWorkerGone \/ ControllerRefuses \/ NotRecovered PROVE Inv'
    <2>1. /\ pc # "over" /\ pc' \in {"lost", "failed"}
          /\ UNCHANGED <<worker, late, done, Kept, recoveries>>
          /\ attempt' = attempt \/ attempt' = [attempt EXCEPT !.interrupted = TRUE]
      BY <1>7 DEF ControllerFindsWorkerGone, ControllerRefuses, NotRecovered, Asking, Fail, session
    <2>2. Progress'
      BY <2>1 DEF Progress
    <2> QED
      BY <1>0, <2>1, <2>2, NothingSealed
  <1>8. ASSUME Complete \/ NotEvaluated PROVE Inv'
    <2>1. /\ UNCHANGED <<worker, attempt, late, done, Kept, recoveries>>
          /\ \/ pc = "boundary" /\ done = Len(Stages) /\ pc' = "retained"
             \/ pc = "retained" /\ pc' = "failed"
      BY <1>8 DEF Complete, NotEvaluated, Fail, session, outer
    <2>2. Progress'
      BY <2>1 DEF Inv, Progress
    <2> QED
      BY <1>0, <2>1, <2>2, NothingSealed
  <1>9. ASSUME Abort PROVE Inv'
    <2>1. /\ pc = "failed" /\ pc' = "over" /\ UNCHANGED <<late, done, Kept, recoveries>>
          /\ worker' = [worker EXCEPT !.up = FALSE]
          /\ attempt' = [attempt EXCEPT !.lease = 0, !.phase = "aborted", !.patch = None]
      BY <1>9 DEF Abort, session, outer
    <2>2. Progress'
      BY <2>1 DEF Progress
    <2> QED
      BY <1>0, <2>1, <2>2, NothingSealed
  <1>10. ASSUME WorkerExits PROVE Inv'
    <2>1. /\ UNCHANGED <<attempt, late, done, Kept, recoveries, pc>>
          /\ worker' = [worker EXCEPT !.up = FALSE]
      BY <1>10 DEF WorkerExits, session
    <2>2. Progress'
      BY <2>1 DEF Inv, Progress
    <2> QED
      BY <1>0, <2>1, <2>2, NothingSealed
  <1>11. ASSUME NEW e \in late, LateEdit(e) PROVE Inv'
    <2>1. /\ UNCHANGED <<done, Kept, recoveries, pc>> /\ late' \subseteq late
          /\ e.tree \in Trees
      BY <1>0, <1>11 DEF LateEdit, session, outer
    <2>2. /\ worker' \in [up : BOOLEAN, tree : Trees]
          /\ \/ attempt' = attempt
             \/ attempt' = [attempt EXCEPT !.phase = "active", !.patch = None]
             \/ attempt' = [attempt EXCEPT !.interrupted = TRUE]
      BY <1>0, <1>11, <2>1 DEF LateEdit, Edited
    <2>3. Progress'
      BY <2>1 DEF Inv, Progress
    <2>4. /\ attempt' \in [lease : Nat, phase : {"active", "snapshotted", "destroyed", "aborted"},
                           patch : Trees \cup {None}, interrupted : BOOLEAN,
                           graded : Trees \cup {None}]
          /\ attempt'.patch \in {None, attempt.patch} /\ attempt'.graded = attempt.graded
          /\ attempt'.phase = "snapshotted" =>
                attempt.phase = "snapshotted" /\ attempt'.patch = attempt.patch
      BY <1>0, <2>2
    <2> QED
      BY <1>0, <2>1, <2>2, <2>3, <2>4, NothingSealed
  <1>12. ASSUME UNCHANGED vars PROVE Inv'
    <2>1. /\ UNCHANGED <<worker, attempt, late, done, Kept, recoveries, pc>>
      BY <1>12 DEF vars, session, outer
    <2>2. Progress'
      BY <2>1 DEF Inv, Progress
    <2> QED
      BY <1>0, <2>1, <2>2, NothingSealed
  <1> QED
    BY <1>1, <1>2, <1>3, <1>4, <1>5, <1>6, <1>7, <1>8, <1>9, <1>10, <1>11, <1>12,
       EditInv, StageSealedInv, SnapshotTakenInv, VerifiedInv, RecoverInv, EvaluateInv
       DEF Next, Steps

LEMMA InvHolds == Spec => []Inv
  BY InitInv, NextInv, PTL DEF Spec
-----------------------------------------------------------------------------
(* Theorems.                                                                *)
\* The model is told of verifications of sealed patches, and the summary has the patches and
\* verifications that the session has: also after a recovery from an older checkpoint.
THEOREM EvidenceHolds == Spec => []EvidenceIsOnPatch
  <1>1. Inv => EvidenceIsOnPatch
    <2> SUFFICES ASSUME Inv PROVE EvidenceIsOnPatch
      OBVIOUS
    <2>1. DOMAIN feedback = 1..Len(feedback)
      BY DEF Inv, Typed
    <2>2. recorded = [patches |-> sealed, hashes |-> feedback] /\ Matches(sealed, feedback)
      BY DEF Inv
    <2> QED
      BY <2>1, <2>2 DEF Matches, EvidenceIsOnPatch
  <1> QED
    BY <1>1, InvHolds, PTL

\* The Controller's current snapshot is the workflow's last one, whatever edits are late or fail.
THEOREM SnapshotHolds == Spec => []SnapshotIsSealed
  <1>1. Inv => SnapshotIsSealed
    BY DEF Inv, Current, SnapshotIsSealed
  <1> QED
    BY <1>1, InvHolds, PTL

\* What is evaluated is P1, which is V2, which the last verification was about.
THEOREM VerifiedIsGraded == Spec => []GradedAsVerified
  <1>1. Inv => GradedAsVerified
    BY DEF Inv, Evaluated, GradedAsVerified
  <1> QED
    BY <1>1, InvHolds, PTL

\* A session only ever resumes from a coherent checkpoint: its patches are those of its
\* stages, its verifications are of these patches in their order, one of them missing at
\* most, P1 is V2, and its code is that of its last patch.
THEOREM CheckpointsAreCoherent == Spec => [](Typed /\ checkpoints \in Seq(Checkpoints))
  <1>1. Inv => Typed /\ checkpoints \in Seq(Checkpoints)
    BY DEF Inv
  <1> QED
    BY <1>1, InvHolds, PTL
-----------------------------------------------------------------------------
(* What a recovery takes back.                                              *)
Prefix(s, t) == Len(s) <= Len(t) /\ \A i \in 1..Len(s) : s[i] = t[i]

\* A session goes on: stages complete one by one, patches and verifications are added.
GoesOn ==
    /\ done' \in {done, done + 1} /\ recoveries' = recoveries
    /\ Prefix(sealed, sealed') /\ Prefix(feedback, feedback')

\* Or it is resumed, once, where it had been before.
TakesBack ==
    /\ recoveries = 0 /\ recoveries' = 1
    /\ done' <= done
    /\ Prefix(sealed', sealed) /\ Prefix(feedback', feedback)

\* Until then every checkpoint lies behind the session.
Behind ==
    /\ recoveries \in {0, 1}
    /\ recoveries = 0 =>
          \A i \in DOMAIN checkpoints :
             /\ checkpoints[i].done <= done
             /\ Prefix(checkpoints[i].sealed, sealed)
             /\ Prefix(checkpoints[i].feedback, feedback)

\* The checkpoints of a step: the same, or one more, of where the session is.
Here == [done |-> done, sealed |-> sealed, feedback |-> feedback]

AddsHere ==
    \/ checkpoints' = checkpoints
    \/ \E c \in Checkpoints :
          /\ checkpoints' = Append(checkpoints, c)
          /\ [done |-> c.done, sealed |-> c.sealed, feedback |-> c.feedback] = Here'

LEMMA PrefixFacts ==
    ASSUME NEW S, NEW s \in Seq(S), NEW t \in Seq(S), NEW u \in Seq(S)
    PROVE  /\ Prefix(s, s)
           /\ Prefix(s, t) /\ Prefix(t, u) => Prefix(s, u)
           /\ \A e \in S : Prefix(s, Append(s, e))
  <1>1. Len(s) \in Nat /\ Len(t) \in Nat /\ Len(u) \in Nat
    OBVIOUS
  <1>2. Prefix(s, t) /\ Prefix(t, u) => Prefix(s, u)
    BY <1>1 DEF Prefix
  <1>3. \A e \in S : Prefix(s, Append(s, e))
    BY <1>1, LastOfAppend DEF Prefix
  <1> QED
    BY <1>1, <1>2, <1>3 DEF Prefix

\* The steps that complete no stage and seal nothing.
LEMMA StaysHere ==
    ASSUME Inv, UNCHANGED <<sealed, feedback, checkpoints, recoveries>>, done' \in {done, done + 1}
    PROVE  GoesOn /\ AddsHere
  BY PrefixFacts DEF GoesOn, AddsHere, Inv, Typed

LEMMA CheckpointHere ==
    ASSUME Inv, Inv', done' = done, NEW snapshot, NEW h,
           Checkpoint(snapshot, sealed', feedback', h)
    PROVE  AddsHere
  <1> DEFINE c == [done |-> done, sealed |-> sealed', feedback |-> feedback', hashes |-> h,
                   snapshot |-> snapshot]
  <1>1. checkpoints' = checkpoints \/ checkpoints' = Append(checkpoints, c)
    BY DEF Checkpoint
  <1>2. ASSUME checkpoints' = Append(checkpoints, c) PROVE c \in Checkpoints
    <2>1. /\ checkpoints \in Seq(Checkpoints) /\ Append(checkpoints, c) \in Seq(Checkpoints)
          /\ Len(checkpoints) \in Nat
      BY <1>2 DEF Inv
    <2> HIDE DEF c
    <2>2. Append(checkpoints, c)[Len(checkpoints) + 1] = c
          /\ Len(checkpoints) + 1 \in DOMAIN Append(checkpoints, c)
      BY <2>1
    <2> QED
      BY <2>1, <2>2, ElementOfSeq
  <1>3. [done |-> c.done, sealed |-> c.sealed, feedback |-> c.feedback] = Here'
    BY DEF Here
  <1> HIDE DEF c
  <1> QED
    BY <1>1, <1>2, <1>3 DEF AddsHere

LEMMA StageSealedGoesOn ==
    ASSUME Inv, Inv', StageSealed
    PROVE  GoesOn /\ AddsHere
  <1>1. /\ UNCHANGED <<done, sealed, feedback, recoveries>>
        /\ Checkpoint(latestSnapshot, sealed', feedback', recorded.hashes)
    BY DEF StageSealed, outer
  <1>2. AddsHere
    BY <1>1, CheckpointHere
  <1> QED
    BY <1>1, <1>2, PrefixFacts DEF GoesOn, Inv, Typed

LEMMA SnapshotTakenGoesOn ==
    ASSUME Inv, Inv', SnapshotTaken
    PROVE  GoesOn /\ AddsHere
  <1>1. /\ UNCHANGED <<done, feedback, recoveries>> /\ sealed' = Append(sealed, worker.tree)
        /\ \/ checkpoints' = checkpoints
           \/ Checkpoint(worker.tree, sealed', feedback', recorded.hashes)
    BY DEF SnapshotTaken, outer
  <1>2. AddsHere
    BY <1>1, CheckpointHere DEF AddsHere
  <1>3. /\ sealed \in Seq(Trees) /\ worker.tree \in Trees
        /\ feedback \in Seq(Results)
    BY DEF Inv, Typed
  <1>4. Prefix(sealed, sealed') /\ Prefix(feedback, feedback')
    BY <1>1, <1>3, PrefixFacts
  <1> QED
    BY <1>1, <1>2, <1>4 DEF GoesOn

LEMMA VerifiedGoesOn ==
    ASSUME Inv, Inv', Verified
    PROVE  GoesOn /\ AddsHere
  <1> DEFINE r == [on |-> attempt.patch, by |-> recoveries]
  <1>1. /\ UNCHANGED <<done, sealed, recoveries>> /\ feedback' = Append(feedback, r)
        /\ Checkpoint(latestSnapshot, sealed', feedback', recorded'.hashes)
    BY DEF Verified, outer
  <1>2. AddsHere
    BY <1>1, CheckpointHere
  <1>3. sealed \in Seq(Trees) /\ feedback \in Seq(Results) /\ feedback' \in Seq(Results)
    BY DEF Inv, Typed
  <1>4. r \in Results
    <2>1. attempt.patch \in Trees
      <3>1. LastPatch \in Trees
        BY LastOfType, WorkflowAssumption DEF LastPatch, Inv, Typed
      <3> QED
        BY <3>1 DEF Verified, Inv, Current
    <2> QED
      BY <2>1 DEF Results, Inv, Typed
  <1> HIDE DEF r
  <1>5. Prefix(sealed, sealed') /\ Prefix(feedback, feedback')
    BY <1>1, <1>3, <1>4, PrefixFacts
  <1> QED
    BY <1>1, <1>2, <1>5 DEF GoesOn

LEMMA RecoverTakesBack ==
    ASSUME Inv, Behind, Recover
    PROVE  TakesBack
  <1>1. PICK i \in DOMAIN checkpoints : Selected(checkpoints[i])
    BY DEF Recover
  <1>2. recoveries = 0 /\ recoveries' = recoveries + 1
    BY DEF Recover, MayRestore
  <1>3. /\ done' = checkpoints[i].done /\ sealed' = checkpoints[i].sealed
        /\ feedback' = checkpoints[i].feedback
    BY <1>1 DEF Selected
  <1> QED
    BY <1>2, <1>3 DEF TakesBack, Behind

LEMMA StepGoesOn ==
    ASSUME Inv, Inv', Behind, [Next]_vars
    PROVE  (GoesOn /\ AddsHere) \/ TakesBack
  <1>1. CASE StartStage \/ TurnRefused \/ ProviderFails \/ ToolFindsWorkerGone
    BY <1>1, StaysHere
       DEF StartStage, TurnRefused, ProviderFails, ToolFindsWorkerGone, session, outer
  <1>2. CASE \/ TurnEnds \/ CallsBlocked \/ StageCompletes \/ Read
             \/ \E t \in Trees : Edit(t) \/ EditFails(t) \/ EditUnanswered(t)
    <2>1. \E ends, fin \in BOOLEAN : \E only \in {stage.only, TRUE, FALSE} : Turn(ends, only, fin)
      <3>1. CASE TurnEnds \/ CallsBlocked \/ StageCompletes
        BY <3>1 DEF TurnEnds, CallsBlocked, StageCompletes
      <3>2. CASE Read \/ \E t \in Trees : Edit(t) \/ EditFails(t) \/ EditUnanswered(t)
        BY <3>2 DEF Read, Edit, EditFails, EditUnanswered, ToolTurn
      <3> QED
        BY <1>2, <3>1, <3>2
    <2> QED
      BY <2>1, StaysHere DEF Turn
  <1>3. CASE PromptAgain \/ StageMissing \/ PromptInterrupted
    BY <1>3, StaysHere DEF PromptAgain, StageMissing, PromptInterrupted, session, outer
  <1>4. CASE ControllerFindsWorkerGone \/ ControllerRefuses \/ NotRecovered
    BY <1>4, StaysHere DEF ControllerFindsWorkerGone, ControllerRefuses, NotRecovered, session
  <1>5. CASE Complete \/ Evaluate \/ NotEvaluated \/ Abort
    BY <1>5, StaysHere DEF Complete, Evaluate, NotEvaluated, Abort, session, outer
  <1>6. CASE WorkerExits \/ (\E e \in late : LateEdit(e)) \/ UNCHANGED vars
    BY <1>6, StaysHere DEF WorkerExits, LateEdit, vars, session, outer
  <1> QED
    BY <1>1, <1>2, <1>3, <1>4, <1>5, <1>6, StageSealedGoesOn, SnapshotTakenGoesOn, VerifiedGoesOn,
       RecoverTakesBack DEF Next, Steps

LEMMA BehindStep ==
    ASSUME Inv, Inv', Behind, [Next]_vars
    PROVE  Behind'
  <1>1. CASE TakesBack
    BY <1>1 DEF TakesBack, Behind
  <1>2. CASE GoesOn /\ AddsHere
    <2>1. recoveries' \in {0, 1} /\ recoveries' = recoveries
      BY <1>2 DEF GoesOn, Behind
    <2> SUFFICES ASSUME recoveries = 0, NEW i \in DOMAIN checkpoints'
                 PROVE  /\ checkpoints'[i].done <= done'
                        /\ Prefix(checkpoints'[i].sealed, sealed')
                        /\ Prefix(checkpoints'[i].feedback, feedback')
      BY <2>1 DEF Behind
    <2>2. /\ sealed \in Seq(Trees) /\ feedback \in Seq(Results) /\ done \in Nat
          /\ sealed' \in Seq(Trees) /\ feedback' \in Seq(Results) /\ done' \in Nat
          /\ checkpoints \in Seq(Checkpoints) /\ checkpoints' \in Seq(Checkpoints)
      BY StageFacts DEF Inv, Typed
    <2>3. /\ done <= done' /\ Prefix(sealed, sealed') /\ Prefix(feedback, feedback')
      BY <1>2, <2>2 DEF GoesOn
    <2>4. CASE i \in DOMAIN checkpoints /\ checkpoints'[i] = checkpoints[i]
      <3>1. PICK c \in Checkpoints : c = checkpoints[i]
        BY <2>2, <2>4, ElementOfSeq
      <3>2. c.done \in Nat /\ c.sealed \in Seq(Trees) /\ c.feedback \in Seq(Results)
        BY <3>1, StageFacts DEF Checkpoints
      <3>3. c.done <= done /\ Prefix(c.sealed, sealed) /\ Prefix(c.feedback, feedback)
        BY <2>4, <3>1 DEF Behind
      <3>4. c.done <= done'
        BY <2>2, <2>3, <3>2, <3>3
      <3>5. Prefix(c.sealed, sealed') /\ Prefix(c.feedback, feedback')
        BY <2>2, <2>3, <3>2, <3>3, PrefixFacts
      <3> QED
        BY <2>4, <3>1, <3>4, <3>5
    <2>5. CASE [done |-> checkpoints'[i].done, sealed |-> checkpoints'[i].sealed,
                feedback |-> checkpoints'[i].feedback] = Here'
      <3>1. /\ checkpoints'[i].done = done' /\ checkpoints'[i].sealed = sealed'
            /\ checkpoints'[i].feedback = feedback'
        BY <2>5 DEF Here
      <3> QED
        BY <2>2, <3>1, PrefixFacts
    <2>6. CASE checkpoints' = checkpoints
      BY <2>4, <2>6
    <2>7. CASE \E c \in Checkpoints :
                  /\ checkpoints' = Append(checkpoints, c)
                  /\ [done |-> c.done, sealed |-> c.sealed, feedback |-> c.feedback] = Here'
      <3>1. PICK c \in Checkpoints :
                  /\ checkpoints' = Append(checkpoints, c)
                  /\ [done |-> c.done, sealed |-> c.sealed, feedback |-> c.feedback] = Here'
        BY <2>7
      <3>2. Len(checkpoints) \in Nat
        BY <2>2
      <3>3. i \in 1..(Len(checkpoints) + 1)
        BY <2>2, <3>1, <3>2
      <3>4. CASE i = Len(checkpoints) + 1
        <4>1. checkpoints'[i] = c
          BY <2>2, <3>1, <3>2, <3>4
        <4> QED
          BY <2>5, <3>1, <4>1
      <3>5. CASE i # Len(checkpoints) + 1
        <4>1. i \in DOMAIN checkpoints /\ checkpoints'[i] = checkpoints[i]
          BY <2>2, <3>1, <3>2, <3>3, <3>5
        <4> QED
          BY <2>4, <4>1
      <3> QED
        BY <3>4, <3>5
    <2> QED
      BY <1>2, <2>6, <2>7 DEF AddsHere
  <1> QED
    BY <1>1, <1>2, StepGoesOn

\* Work is taken back only by the one recovery of an attempt, and only to where the same
\* session had been: the stages, patches and verifications it resumes with are a prefix of
\* those it had, never of another history, whichever checkpoint is still intact
\* (selectLatestCompatibleWorkflowCheckpoint, runM4DevWorkflow).
THEOREM WorkIsTakenBackOnce == Spec => [][GoesOn \/ TakesBack]_vars
  <1>1. Init => Behind
    BY DEF Init, Behind, Prefix
  <1>2. Inv /\ Inv' /\ Behind /\ [Next]_vars => Behind'
    BY BehindStep
  <1>3. Inv /\ Inv' /\ Behind /\ [Next]_vars => [GoesOn \/ TakesBack]_vars
    BY StepGoesOn
  <1> QED
    BY <1>1, <1>2, <1>3, InvHolds, PTL DEF Spec
=============================================================================
