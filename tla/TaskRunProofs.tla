---------------------------- MODULE TaskRunProofs ----------------------------
(***************************************************************************)
(* Proofs about TaskRun, for all regions, patches, budgets, numbers of     *)
(* repairs and of edits, and whatever is interrupted, killed, swept or     *)
(* fails.                                                                  *)
(***************************************************************************)
EXTENDS TaskRun, TLAPS

-----------------------------------------------------------------------------
(* Types *)

LEMMA PatchedType ==
  ASSUME NEW t \in Trees, NEW hunks
  PROVE  Patched(t, hunks) \in Trees
BY DEF Patched, Trees, Contents

\* What Finish and Throw make of the outcome, and Cleanup of the worktree.
LEMMA OutcomeType ==
  ASSUME NEW o \in Outcomes, NEW status \in Statuses, NEW caught \in BOOLEAN
  PROVE  /\ [o EXCEPT !.status = status] \in Outcomes
         /\ [o EXCEPT !.status = status, !.caught = caught] \in Outcomes
BY DEF Outcomes

LEMMA FinishType ==
  ASSUME outcome \in Outcomes, NEW status \in Statuses, Finish(status)
  PROVE  outcome' \in Outcomes /\ pc' \in Points
BY OutcomeType DEF Finish, Points

LEMMA TypeInit == Init => TypeOK
<1> SUFFICES ASSUME Init PROVE TypeOK
  OBVIOUS
<1>1. 0 \in Contents /\ 0 \in 0..MaxEdits /\ 0 \in 0..MaxAttempts
  BY TaskAssumption DEF Contents, MaxAttempts
<1>2. tree \in Trees /\ snap \in Trees /\ current \in Trees
  BY <1>1 DEF Init, Trees
<1>3. outcome \in Outcomes /\ wt \in Worktrees /\ result \in Results /\ log \in Logs
  BY <1>1 DEF Init, Outcomes, Worktrees, Results, Logs, Statuses
<1> QED
  BY <1>1, <1>2, <1>3 DEF Init, TypeOK, Points

LEMMA TypeNext == TypeOK /\ [Next]_vars => TypeOK'
<1> SUFFICES ASSUME TypeOK, [Next]_vars PROVE TypeOK'
  OBVIOUS
<1> USE DEF TypeOK, Go, user
<1>1. CASE Acquire \/ Prepare
  BY <1>1 DEF Acquire, Prepare, Points
<1>2. CASE TakeSnapshot
  BY <1>2 DEF TakeSnapshot, Points
<1>3. CASE Provision
  <2>1. wt' \in Worktrees /\ log' \in Logs
    BY <1>3 DEF Provision, Worktrees, Logs
  <2> QED
    BY <1>3, <2>1 DEF Provision, Points
<1>4. CASE InstallDeps
  <2>1. outcome' \in Outcomes /\ pc' \in Points
    BY <1>4, FinishType DEF InstallDeps, Points, Statuses
  <2>2. log' \in Logs
    BY <1>4 DEF InstallDeps, Logs
  <2> QED
    BY <1>4, <2>1, <2>2 DEF InstallDeps
<1>5. CASE StartAttempt
  <2>1. CASE Finish("interrupted")
    BY <1>5, <2>1, FinishType DEF StartAttempt, Statuses
  <2>2. CASE outcome.attempts < MaxAttempts
             /\ outcome' = [outcome EXCEPT !.attempts = @ + 1] /\ pc' = "agent"
    <3>1. outcome' \in Outcomes
      BY <2>2, TaskAssumption DEF Outcomes, MaxAttempts
    <3> QED
      BY <1>5, <2>2, <3>1 DEF StartAttempt, Points
  <2> QED
    BY <1>5, <2>1, <2>2 DEF StartAttempt
<1>6. CASE RunAgent
  <2>1. outcome' \in Outcomes
    BY <1>6, TaskAssumption DEF RunAgent, Outcomes
  <2>2. wt' \in Worktrees
    BY <1>6, TaskAssumption DEF RunAgent, Worktrees
  <2>3. flaw' \in Checks \cup {"none"}
    BY <1>6, TaskAssumption DEF RunAgent, Checks
  <2> QED
    BY <1>6, <2>1, <2>2, <2>3 DEF RunAgent, Points
<1>7. CASE JudgeAgent
  BY <1>7, FinishType DEF JudgeAgent, Points, Statuses
<1>8. CASE Screen
  BY <1>8, FinishType DEF Screen, Points, Statuses
<1>9. CASE RunChecks
  <2>1. outcome' \in Outcomes /\ pc' \in Points
    BY <1>9, FinishType DEF RunChecks, Points, Statuses
  <2>2. wt' \in Worktrees
    BY <1>9 DEF RunChecks, Worktrees
  <2> QED
    BY <1>9, <2>1, <2>2 DEF RunChecks
<1>10. CASE Commit \/ WriteRef
  <2>1. result' \in Results
    BY <1>10 DEF Commit, WriteRef, Results, Worktrees
  <2> QED
    BY <1>10, <2>1 DEF Commit, WriteRef, Points
<1>11. CASE WritePatch
  <2>1. result' \in Results /\ wt' \in Worktrees
    BY <1>11 DEF WritePatch, Results, Worktrees
  <2>2. outcome' \in Outcomes /\ pc' \in Points
    BY <1>11, FinishType DEF WritePatch, Statuses
  <2> QED
    BY <1>11, <2>1, <2>2 DEF WritePatch
<1>12. CASE WriteDecision \/ WriteEnd
  <2>1. log' \in Logs
    BY <1>12 DEF WriteDecision, WriteEnd, Logs
  <2> QED
    BY <1>12, <2>1 DEF WriteDecision, WriteEnd, Points
<1>13. CASE Throw
  <2>1. outcome' \in Outcomes
    BY <1>13, OutcomeType DEF Throw, Statuses
  <2> QED
    BY <1>13, <2>1 DEF Throw, Points
<1>14. CASE Swallow
  BY <1>14 DEF Swallow, Points
<1>15. CASE Cleanup \/ CleanupApplied
  <2>1. wt' \in Worktrees
    BY <1>15 DEF Cleanup, CleanupApplied, Destroyed, Worktrees
  <2> QED
    BY <1>15, <2>1 DEF Cleanup, CleanupApplied, Points
<1>16. CASE Report \/ Answer \/ CheckPatch
  BY <1>16 DEF Report, Answer, CheckPatch, Points
<1>17. CASE ApplyPatch
  BY <1>17, PatchedType DEF ApplyPatch, GitApply, Points
<1>18. CASE ApplyMerged
  BY <1>18, PatchedType DEF ApplyMerged, GitApply, Points
<1>19. CASE Merge
  BY <1>19 DEF Merge, Points
<1>20. CASE Edit
  <2>1. edits + 1 \in 0..MaxEdits
    BY <1>20, TaskAssumption DEF Edit
  <2>2. tree' \in Trees
    BY <1>20, <2>1 DEF Edit, Trees, Contents
  <2> QED
    BY <1>20, <2>1, <2>2 DEF Edit
<1>21. CASE Interrupt \/ Kill
  BY <1>21 DEF Interrupt, Kill, Points
<1>22. CASE Sweep
  <2>1. wt' \in Worktrees /\ result' \in Results
    BY <1>22 DEF Sweep, Worktrees, Results
  <2> QED
    BY <1>22, <2>1 DEF Sweep
<1>23. CASE UNCHANGED vars
  BY <1>23 DEF vars
<1> QED
  BY <1>1, <1>2, <1>3, <1>4, <1>5, <1>6, <1>7, <1>8, <1>9, <1>10, <1>11, <1>12,
     <1>13, <1>14, <1>15, <1>16, <1>17, <1>18, <1>19, <1>20, <1>21, <1>22, <1>23
  DEF Next, Engine, RunTask, Flow

\* Every variable of the task engine has its type.
THEOREM TaskTypeCorrect == Spec => []TypeOK
  BY TypeInit, TypeNext, PTL DEF Spec

-----------------------------------------------------------------------------
(* What is offered was checked *)

\* The points of runTask before its outcome is known, and those of the flow at
\* which a result is offered.
Working == {"start", "prepare", "snapshot", "provision", "install", "attempt", "agent",
            "judge", "screen", "gates", "commit", "ref", "patch"}
Offering == {"confirm", "check", "apply", "merge", "applyMerged", "applied"}

Sound ==
  /\ flaw = "none"
  /\ result.changed = wt.changed /\ result.changed # {}

\* What each check leaves to the next one, up to the acceptance.
CheckedInv ==
  /\ flaw # "empty"
  /\ pc \in {"screen", "gates", "commit", "ref", "patch"} => flaw # "agent"
  /\ pc \in {"gates", "commit", "ref", "patch"} =>
       intent = "change" /\ flaw \notin {"pins", "detector"} /\ wt.changed # {}
  /\ pc \in {"commit", "ref", "patch"} => flaw = "none"
  /\ pc \in {"ref", "patch"} => result.changed = wt.changed
  /\ pc \in Working => outcome.status = "error" /\ log.node # "accepted"
  /\ intent = "change" /\ (outcome.status = "succeeded" \/ log.node = "accepted") =>
       Sound /\ result.patch
  /\ pc \in Offering => outcome.status = "succeeded" /\ intent = "change"

LEMMA CheckedInit == Init => CheckedInv
BY DEF Init, CheckedInv, Working, Offering

LEMMA CheckedNext == TypeOK /\ CheckedInv /\ [Next]_vars => CheckedInv'
<1> SUFFICES ASSUME TypeOK, CheckedInv, [Next]_vars PROVE CheckedInv'
  OBVIOUS
<1> USE DEF CheckedInv, Sound, Working, Offering, Go, Finish, user
<1>0. /\ outcome \in Outcomes /\ wt \in Worktrees /\ flaw \in Checks \cup {"none"}
      /\ result \in Results /\ log \in Logs /\ intent \in {"change", "inquiry"}
      /\ pc \in Points
  BY TaskAssumption DEF TypeOK
<1>1. CASE Acquire \/ Prepare
  BY <1>1 DEF Acquire, Prepare
<1>2. CASE TakeSnapshot
  BY <1>2 DEF TakeSnapshot
<1>3. CASE Provision
  BY <1>3, <1>0 DEF Provision, Worktrees, Logs
<1>4. CASE InstallDeps
  BY <1>4, <1>0 DEF InstallDeps, Outcomes, Logs
<1>5. CASE StartAttempt
  BY <1>5, <1>0 DEF StartAttempt, Outcomes
<1>6. CASE RunAgent
  <2>1. outcome'.status = outcome.status
    BY <1>6, <1>0 DEF RunAgent, Outcomes
  <2>2. flaw' # "empty" /\ pc = "agent" /\ pc' = "judge" /\ UNCHANGED <<log, intent>>
    BY <1>6 DEF RunAgent
  <2> QED
    BY <2>1, <2>2
<1>7. CASE JudgeAgent
  BY <1>7, <1>0 DEF JudgeAgent, Outcomes
<1>8. CASE Screen
  BY <1>8, <1>0 DEF Screen, Outcomes
<1>9. CASE RunChecks
  <2>1. wt'.changed = wt.changed
    BY <1>9, <1>0 DEF RunChecks, Worktrees
  <2>2. pc' = "commit" => flaw = "none"
    BY <1>9, <1>0 DEF RunChecks, ChecksPass, Checks
  <2> QED
    BY <1>9, <1>0, <2>1, <2>2 DEF RunChecks, Outcomes
<1>10. CASE Commit \/ WriteRef
  BY <1>10, <1>0 DEF Commit, WriteRef, Results
<1>11. CASE WritePatch
  BY <1>11, <1>0 DEF WritePatch, Results, Worktrees, Outcomes
<1>12. CASE WriteDecision \/ WriteEnd
  BY <1>12, <1>0 DEF WriteDecision, WriteEnd, Logs
<1>13. CASE Throw
  BY <1>13, <1>0 DEF Throw, Outcomes
<1>14. CASE Swallow
  BY <1>14 DEF Swallow
<1>15. CASE Cleanup \/ CleanupApplied
  <2>1. wt'.changed = wt.changed
    BY <1>15, <1>0 DEF Cleanup, CleanupApplied, Destroyed, Worktrees
  <2> QED
    BY <1>15, <2>1 DEF Cleanup, CleanupApplied
<1>16. CASE Report \/ Answer \/ CheckPatch
  BY <1>16, <1>0 DEF Report, Answer, CheckPatch
<1>17. CASE ApplyPatch \/ ApplyMerged
  BY <1>17 DEF ApplyPatch, ApplyMerged, GitApply
<1>18. CASE Merge
  BY <1>18 DEF Merge
<1>19. CASE Edit \/ Interrupt \/ Kill
  BY <1>19 DEF Edit, Interrupt, Kill
<1>20. CASE Sweep
  <2>1. /\ wt'.changed = wt.changed
        /\ result'.changed = result.changed /\ result'.patch = result.patch
    BY <1>20, <1>0 DEF Sweep, Worktrees, Results
  <2> QED
    BY <1>20, <2>1 DEF Sweep
<1>21. CASE UNCHANGED vars
  BY <1>21 DEF vars
<1> QED
  BY <1>1, <1>2, <1>3, <1>4, <1>5, <1>6, <1>7, <1>8, <1>9, <1>10, <1>11, <1>12,
     <1>13, <1>14, <1>15, <1>16, <1>17, <1>18, <1>19, <1>20, <1>21
  DEF Next, Engine, RunTask, Flow

LEMMA CheckedAlways == Spec => [](TypeOK /\ CheckedInv)
<1>1. Init => TypeOK /\ CheckedInv
  BY TypeInit, CheckedInit
<1>2. (TypeOK /\ CheckedInv) /\ [Next]_vars => (TypeOK /\ CheckedInv)'
  BY TypeNext, CheckedNext
<1> QED
  BY <1>1, <1>2, PTL DEF Spec

\* Whatever fails, is swept or interrupted: a change that the log accepts, or
\* that the user is offered, passed every check on its last attempt.
THEOREM CheckedOffered == Spec => []OnlyCheckedOffered
<1>1. TypeOK /\ CheckedInv => OnlyCheckedOffered
  BY DEF CheckedInv, OnlyCheckedOffered, Sound, Offering
<1> QED
  BY <1>1, CheckedAlways, PTL

\* An accepted change has its patch on disk, so that no kill and no sweep loses it.
THEOREM AcceptedRecoverable == Spec => []AcceptedIsRecoverable
<1>1. CheckedInv => AcceptedIsRecoverable
  BY DEF CheckedInv, AcceptedIsRecoverable
<1> QED
  BY <1>1, CheckedAlways, PTL

-----------------------------------------------------------------------------
(* The user's files *)

LEMMA NearSelf == \A r \in Regions : r \in Near(r)
BY TaskAssumption DEF Near

LEMMA FitsSelf ==
  ASSUME NEW hunks \in SUBSET Regions, NEW base, NEW onto, Fits(hunks, base, onto)
  PROVE  \A r \in hunks : onto[r] = base[r]
BY NearSelf DEF Fits

LEMMA PatchedAt ==
  ASSUME NEW hunks, NEW t, NEW r \in Regions
  PROVE  Patched(t, hunks)[r] = IF r \in hunks THEN Agent ELSE t[r]
BY DEF Patched

\* A merge that is going to be applied was free of conflicts.
MergeInv ==
  pc = "applyMerged" => \A r \in result.changed : current[r] \in {snap[r], Agent}

LEMMA MergeNext == TypeOK /\ MergeInv /\ [Next]_vars => MergeInv'
<1> SUFFICES ASSUME TypeOK, MergeInv, [Next]_vars PROVE MergeInv'
  OBVIOUS
<1> USE DEF MergeInv, Go, Finish, user
<1>1. CASE RunTask
  BY <1>1 DEF RunTask, Acquire, Prepare, TakeSnapshot, Provision, InstallDeps,
     StartAttempt, RunAgent, JudgeAgent, Screen, RunChecks, Commit, WriteRef,
     WritePatch, WriteDecision, WriteEnd, Throw, Swallow, Cleanup
<1>2. CASE Merge
  BY <1>2 DEF Merge, Conflicts
<1>3. CASE Report \/ CheckPatch \/ ApplyPatch \/ ApplyMerged \/ CleanupApplied \/ Answer
  BY <1>3 DEF Report, CheckPatch, ApplyPatch, ApplyMerged, GitApply, CleanupApplied,
     Answer
<1>4. CASE Edit \/ Interrupt \/ Kill
  BY <1>4 DEF Edit, Interrupt, Kill
<1>5. CASE Sweep
  <2>1. result'.changed = result.changed
    BY <1>5 DEF Sweep, TypeOK, Results
  <2> QED
    BY <1>5, <2>1 DEF Sweep
<1>6. CASE UNCHANGED vars
  BY <1>6 DEF vars
<1> QED
  BY <1>1, <1>2, <1>3, <1>4, <1>5, <1>6 DEF Next, Engine, Flow

LEMMA MergeAlways == Spec => [](TypeOK /\ MergeInv)
<1>1. Init => TypeOK /\ MergeInv
  BY TypeInit DEF Init, MergeInv
<1>2. (TypeOK /\ MergeInv) /\ [Next]_vars => (TypeOK /\ MergeInv)'
  BY TypeNext, MergeNext
<1> QED
  BY <1>1, <1>2, PTL DEF Spec

\* A step that writes to the user's files is an edit, or one of the two
\* applications of hunks that fit.
LEMMA Writers ==
  ASSUME [Next]_vars, edits' = edits, edits \in 0..MaxEdits,
         tree' # tree \/ applied' # applied
  PROVE  ApplyPatch \/ ApplyMerged \/ Merge
<1>1. ~Edit
  BY TaskAssumption DEF Edit
<1>2. ~RunTask
  BY DEF RunTask, Acquire, Prepare, TakeSnapshot, Provision, InstallDeps,
     StartAttempt, RunAgent, JudgeAgent, Screen, RunChecks, Commit, WriteRef,
     WritePatch, WriteDecision, WriteEnd, Throw, Swallow, Cleanup, user
<1>3. ~(Report \/ CheckPatch \/ CleanupApplied \/ Answer \/ Interrupt \/ Kill \/ Sweep)
  BY DEF Report, CheckPatch, CleanupApplied, Answer, Interrupt, Kill, Sweep, user
<1>4. ~UNCHANGED vars
  BY DEF vars, user
<1> QED
  BY <1>1, <1>2, <1>3, <1>4 DEF Next, Engine, Flow

LEMMA Applications ==
  ASSUME TypeOK, MergeInv, [Next]_vars, edits' = edits
  PROVE  /\ \A r \in Regions : tree'[r] # tree[r] =>
              /\ r \in result.changed /\ tree'[r] = Agent
              /\ tree[r] = snap[r]
         /\ tree' # tree \/ applied' # applied =>
              /\ applied'
              /\ \A r \in result.changed :
                   tree'[r] = Agent \/ (pc = "applyMerged" /\ current[r] = Agent)
<1>0. edits \in 0..MaxEdits /\ result.changed \in SUBSET Regions
  BY DEF TypeOK, Results
<1>1. CASE tree' = tree /\ applied' = applied
  BY <1>1
<1>2. CASE ApplyPatch /\ Fits(result.changed, snap, tree)
  <2>1. tree' = Patched(tree, result.changed) /\ applied' = TRUE
    BY <1>2 DEF ApplyPatch, GitApply
  <2>2. \A r \in result.changed : tree[r] = snap[r]
    BY <1>2, <1>0, FitsSelf
  <2>3. \A r \in Regions :
          tree'[r] = IF r \in result.changed THEN Agent ELSE tree[r]
    BY <2>1, PatchedAt
  <2> QED
    BY <1>0, <2>1, <2>2, <2>3
<1>3. CASE ApplyMerged /\ Fits(Delta(current), current, tree)
  <2>1. tree' = Patched(tree, Delta(current)) /\ applied' = TRUE /\ pc = "applyMerged"
    BY <1>3 DEF ApplyMerged, GitApply
  <2>2. \A r \in Delta(current) : tree[r] = current[r]
    BY <1>3, <1>0, FitsSelf DEF Delta
  <2>3. \A r \in Delta(current) : r \in result.changed /\ current[r] = snap[r]
    BY <2>1 DEF Delta, MergeInv
  <2>4. \A r \in result.changed : r \in Delta(current) \/ current[r] = Agent
    BY DEF Delta
  <2>5. \A r \in Regions :
          tree'[r] = IF r \in Delta(current) THEN Agent ELSE tree[r]
    BY <2>1, PatchedAt
  <2> QED
    BY <1>0, <2>1, <2>2, <2>3, <2>4, <2>5
<1>4. CASE (ApplyPatch \/ ApplyMerged) /\ UNCHANGED <<tree, applied>>
  BY <1>4
<1>5. CASE Merge
  BY <1>5 DEF Merge, Delta, user
<1> QED
  BY <1>0, <1>1, <1>2, <1>3, <1>4, <1>5, Writers DEF ApplyPatch, ApplyMerged, GitApply

\* No step of the engine changes a region that the user touched after the
\* snapshot, and none writes anything but the accepted result.
THEOREM EditsSurvive == Spec => UserEditsSurvive
<1>1. TypeOK /\ MergeInv /\ [Next]_vars =>
        [edits' = edits =>
           \A r \in Regions : tree'[r] # tree[r] =>
             /\ r \in result.changed /\ tree'[r] = Agent
             /\ tree[r] = snap[r]]_vars
  <2> SUFFICES ASSUME TypeOK, MergeInv, [Next]_vars, edits' = edits
               PROVE  \A r \in Regions : tree'[r] # tree[r] =>
                        /\ r \in result.changed /\ tree'[r] = Agent
                        /\ tree[r] = snap[r]
    OBVIOUS
  <2> QED
    BY Applications
<1> QED
  BY <1>1, MergeAlways, PTL DEF Spec, UserEditsSurvive

\* The result reaches the user's files as a whole or not at all.
THEOREM WholeApplied == Spec => AppliedWhole
<1>1. TypeOK /\ MergeInv /\ [Next]_vars =>
        [edits' = edits /\ (tree' # tree \/ applied' # applied) =>
           /\ applied'
           /\ \A r \in result.changed :
                tree'[r] = Agent \/ (pc = "applyMerged" /\ current[r] = Agent)]_vars
  <2> SUFFICES ASSUME TypeOK, MergeInv, [Next]_vars, edits' = edits,
                      tree' # tree \/ applied' # applied
               PROVE  /\ applied'
                      /\ \A r \in result.changed :
                           tree'[r] = Agent \/ (pc = "applyMerged" /\ current[r] = Agent)
    OBVIOUS
  <2> QED
    BY Applications
<1> QED
  BY <1>1, MergeAlways, PTL DEF Spec, AppliedWhole

-----------------------------------------------------------------------------
(* The money *)

\* As long as another attempt may start, the budget is not used up.
SpendInv ==
  /\ pc \in {"start", "prepare", "snapshot", "provision", "install", "attempt", "agent"} =>
       outcome.cost < BudgetUsd
  /\ SpendBound

LEMMA SpendInit == Init => SpendInv
BY TaskAssumption DEF Init, SpendInv, SpendBound

LEMMA SpendNext == TypeOK /\ SpendInv /\ [Next]_vars => SpendInv'
<1> SUFFICES ASSUME TypeOK, SpendInv, [Next]_vars PROVE SpendInv'
  OBVIOUS
<1> USE DEF SpendInv, SpendBound, Go, Finish, user
<1>0. outcome \in Outcomes /\ outcome.cost \in Nat /\ BudgetUsd \in Nat
  BY TaskAssumption DEF TypeOK, Outcomes
<1>1. CASE RunAgent
  <2>1. PICK cost \in Costs : outcome' = [outcome EXCEPT !.cost = @ + cost]
    BY <1>1 DEF RunAgent
  <2>2. outcome'.cost = outcome.cost + cost /\ cost \in Nat
    BY <1>0, <2>1, TaskAssumption DEF Outcomes
  <2>3. outcome.cost < BudgetUsd /\ pc' = "judge"
    BY <1>1 DEF RunAgent
  <2>4. outcome'.cost < BudgetUsd + cost
    BY <1>0, <2>2, <2>3
  <2> QED
    BY <2>3, <2>4
<1>2. CASE RunChecks
  BY <1>0, <1>2 DEF RunChecks, Outcomes
<1>3. CASE Acquire \/ Prepare \/ TakeSnapshot \/ Provision \/ Swallow \/ Cleanup
           \/ Commit \/ WriteRef \/ WriteDecision \/ WriteEnd
  BY <1>3 DEF Acquire, Prepare, TakeSnapshot, Provision, Swallow, Cleanup,
     Commit, WriteRef, WriteDecision, WriteEnd
<1>4. CASE InstallDeps \/ StartAttempt
  BY <1>0, <1>4 DEF InstallDeps, StartAttempt, Outcomes
<1>5. CASE JudgeAgent \/ Screen \/ WritePatch \/ Throw
  BY <1>0, <1>5 DEF JudgeAgent, Screen, WritePatch, Throw, Outcomes
<1>6. CASE Flow \/ Answer
  BY <1>6 DEF Flow, Report, CheckPatch, ApplyPatch, ApplyMerged, GitApply, Merge,
     CleanupApplied, Answer
<1>7. CASE Edit \/ Interrupt \/ Kill \/ Sweep
  BY <1>7 DEF Edit, Interrupt, Kill, Sweep
<1>8. CASE UNCHANGED vars
  BY <1>8 DEF vars
<1> QED
  BY <1>1, <1>2, <1>3, <1>4, <1>5, <1>6, <1>7, <1>8 DEF Next, Engine, RunTask

\* A task overspends its budget by less than one attempt, however many repairs
\* are allowed.
THEOREM SpendBounded == Spec => []SpendBound
<1>1. Init => TypeOK /\ SpendInv
  BY TypeInit, SpendInit
<1>2. (TypeOK /\ SpendInv) /\ [Next]_vars => (TypeOK /\ SpendInv)'
  BY TypeNext, SpendNext
<1>3. SpendInv => SpendBound
  BY DEF SpendInv
<1> QED
  BY <1>1, <1>2, <1>3, PTL DEF Spec

-----------------------------------------------------------------------------
(* What is left behind *)

\* The lock is held, and the worktree owned, from their acquisition to the
\* finally block.
HeldInv ==
  /\ locked => pc \in {"prepare", "killed", "finish", "end", "cleanup"} \cup
                      (Working \ {"start"})
  /\ wt.branch => \/ wt.keep
                  \/ pc \in {"install", "attempt", "agent", "judge", "screen", "gates",
                             "commit", "ref", "patch", "finish", "end", "cleanup",
                             "killed"}
  /\ applied => pc \in {"applied", "killed"} \/ (pc = "done" /\ ~wt.branch)

LEMMA HeldInit == Init => HeldInv
BY DEF Init, HeldInv

LEMMA HeldNext == TypeOK /\ HeldInv /\ [Next]_vars => HeldInv'
<1> SUFFICES ASSUME TypeOK, HeldInv, [Next]_vars PROVE HeldInv'
  OBVIOUS
<1> USE DEF HeldInv, Working, Go, Finish, user
<1>0. wt \in Worktrees
  BY DEF TypeOK
<1>1. CASE Acquire \/ Prepare \/ TakeSnapshot \/ InstallDeps \/ StartAttempt
           \/ JudgeAgent \/ Screen \/ Commit \/ WriteRef \/ WriteDecision \/ WriteEnd
           \/ Throw \/ Swallow
  BY <1>1 DEF Acquire, Prepare, TakeSnapshot, InstallDeps, StartAttempt, JudgeAgent,
     Screen, Commit, WriteRef, WriteDecision, WriteEnd, Throw, Swallow
<1>2. CASE Provision \/ RunAgent \/ RunChecks \/ WritePatch
  BY <1>0, <1>2 DEF Provision, RunAgent, RunChecks, WritePatch, Worktrees
<1>3. CASE Cleanup
  <2>1. wt'.branch => wt'.keep
    BY <1>0, <1>3 DEF Cleanup, Destroyed, Worktrees
  <2> QED
    BY <1>3, <2>1 DEF Cleanup
<1>9. CASE CleanupApplied
  <2>1. ~wt'.branch
    BY <1>0, <1>9 DEF CleanupApplied, Destroyed, Worktrees
  <2> QED
    BY <1>9, <2>1 DEF CleanupApplied
<1>4. CASE Report \/ CheckPatch \/ Answer
  BY <1>4 DEF Report, CheckPatch, Answer
<1>5. CASE ApplyPatch \/ ApplyMerged \/ Merge
  BY <1>5 DEF ApplyPatch, ApplyMerged, GitApply, Merge
<1>6. CASE Edit \/ Interrupt \/ Kill
  BY <1>6 DEF Edit, Interrupt, Kill
<1>7. CASE Sweep
  <2>1. wt'.keep = wt.keep /\ (wt'.branch => wt.branch)
    BY <1>0, <1>7 DEF Sweep, Worktrees
  <2> QED
    BY <1>7, <2>1 DEF Sweep
<1>8. CASE UNCHANGED vars
  BY <1>8 DEF vars
<1> QED
  BY <1>1, <1>2, <1>3, <1>4, <1>5, <1>6, <1>7, <1>8, <1>9 DEF Next, Engine, RunTask, Flow

\* An engine that is through has released the lock, and left a branch only when
\* something is kept in it.
THEOREM CleanEnd == Spec => []EndsClean
<1>1. Init => TypeOK /\ HeldInv
  BY TypeInit, HeldInit
<1>2. (TypeOK /\ HeldInv) /\ [Next]_vars => (TypeOK /\ HeldInv)'
  BY TypeNext, HeldNext
<1>3. HeldInv => EndsClean
  BY DEF HeldInv, EndsClean, Working
<1> QED
  BY <1>1, <1>2, <1>3, PTL DEF Spec

-----------------------------------------------------------------------------
(* The log tells the outcome *)

\* The points at which runTask has finished: both appends are made, or given up.
After == {"cleanup", "report", "done"} \cup Offering

LogInv ==
  /\ pc \in Working =>
       outcome.status = "error" /\ ~outcome.caught /\ log.node # "accepted"
  /\ pc \in Working \ {"start", "prepare", "snapshot", "provision"} => log.node # "none"
  /\ outcome.caught => outcome.status = "error"
  /\ outcome.status = "succeeded" => log.node # "none"
  /\ outcome.status = "interrupted" => aborted
  /\ pc = "finish" /\ ~outcome.caught => log.node # "accepted"
  /\ pc \in {"end"} \cup After /\ outcome.status = "succeeded" => log.node = "accepted"
  /\ log.node = "accepted" => outcome.status \in {"succeeded", "error"}
  /\ pc \in After /\ outcome.status = "succeeded" => log.end # "none"
  /\ pc \in After /\ outcome.status = "interrupted" => log.end = "interrupted"

LEMMA LogInit == Init => LogInv
BY DEF Init, LogInv, Working, After, Offering

LEMMA LogNext == TypeOK /\ LogInv /\ [Next]_vars => LogInv'
<1> SUFFICES ASSUME TypeOK, LogInv, [Next]_vars PROVE LogInv'
  OBVIOUS
<1> USE DEF LogInv, Working, After, Offering, Go, Finish, user
<1>0. outcome \in Outcomes /\ log \in Logs
  BY DEF TypeOK
<1>1. CASE Acquire \/ Prepare \/ TakeSnapshot \/ Commit \/ WriteRef
  BY <1>1 DEF Acquire, Prepare, TakeSnapshot, Commit, WriteRef
<1>2. CASE Provision
  BY <1>0, <1>2 DEF Provision, Logs
<1>3. CASE InstallDeps
  BY <1>0, <1>3 DEF InstallDeps, Outcomes, Logs
<1>4. CASE StartAttempt \/ JudgeAgent
  BY <1>0, <1>4 DEF StartAttempt, JudgeAgent, Outcomes
<1>5. CASE RunAgent
  <2>1. outcome'.status = outcome.status /\ outcome'.caught = outcome.caught
    BY <1>0, <1>5 DEF RunAgent, Outcomes
  <2> QED
    BY <1>5, <2>1 DEF RunAgent
<1>6. CASE Screen \/ RunChecks \/ WritePatch
  BY <1>0, <1>6 DEF Screen, RunChecks, WritePatch, Outcomes
<1>7. CASE WriteDecision
  BY <1>0, <1>7 DEF WriteDecision, Logs, Outcomes, Statuses
<1>8. CASE WriteEnd
  BY <1>0, <1>8 DEF WriteEnd, Logs
<1>9. CASE Throw
  BY <1>0, <1>9 DEF Throw, Outcomes
<1>10. CASE Swallow \/ Cleanup \/ CleanupApplied
  BY <1>10 DEF Swallow, Cleanup, CleanupApplied
<1>11. CASE Report \/ CheckPatch \/ Answer
  BY <1>11 DEF Report, CheckPatch, Answer
<1>12. CASE ApplyPatch \/ ApplyMerged \/ Merge
  BY <1>12 DEF ApplyPatch, ApplyMerged, GitApply, Merge
<1>13. CASE Edit \/ Interrupt \/ Kill \/ Sweep
  BY <1>13 DEF Edit, Interrupt, Kill, Sweep
<1>14. CASE UNCHANGED vars
  BY <1>14 DEF vars
<1> QED
  BY <1>1, <1>2, <1>3, <1>4, <1>5, <1>6, <1>7, <1>8, <1>9, <1>10, <1>11, <1>12, <1>13,
     <1>14 DEF Next, Engine, RunTask, Flow

\* What runTask returns agrees with what it has logged, even when appends fail.
THEOREM OutcomeLogged == Spec => []LogTellsOutcome
<1>1. Init => TypeOK /\ LogInv
  BY TypeInit, LogInit
<1>2. (TypeOK /\ LogInv) /\ [Next]_vars => (TypeOK /\ LogInv)'
  BY TypeNext, LogNext
<1>3. TypeOK /\ LogInv => LogTellsOutcome
  BY DEF TypeOK, Points, LogInv, LogTellsOutcome, InRunTask, After, Offering
<1> QED
  BY <1>1, <1>2, <1>3, PTL DEF Spec
=============================================================================
