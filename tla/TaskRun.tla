------------------------------- MODULE TaskRun -------------------------------
(***************************************************************************)
(* The task engine: runTask of src/engine/task-loop.ts, the flow around it *)
(* (runTaskFlow of src/cli/task-ui.ts) and the application of its result   *)
(* to the user's files (applyTaskResult of src/apply/patch.ts).            *)
(*                                                                         *)
(* One engine process works on one task.  Meanwhile the user edits files,  *)
(* interrupts or kills the engine, and other paxcli processes of the same  *)
(* repository (`paxcli gc`, the end of an optimize run) sweep worktrees    *)
(* and references.  Every await of the engine falls between two steps.     *)
(*                                                                         *)
(* A tree is a function from Regions, the stretches of text that a hunk    *)
(* may touch, to contents: 0 is what the user started with, 1, 2, ... are  *)
(* the user's edits, and Agent is what the agent makes of a region.  A     *)
(* hunk carries the regions next to it as context.                         *)
(*                                                                         *)
(* Simplifications: the files of a snapshot are read in one step; a        *)
(* candidate has at most one flaw; checks leave the worktree as it is; the *)
(* ledger entry that follows an application is left out.                   *)
(***************************************************************************)
EXTENDS Integers

CONSTANTS
  Regions,        \* a set of integers; r and r + 1 are neighbours
  Patches,        \* the sets of regions an agent may change
  Intents,        \* subset of {"change", "inquiry"}
  InstallCmd,     \* TRUE when discovery found an install command
  MaxRepairs,     \* opts.maxRepairs
  BudgetUsd,      \* opts.budgetUsd
  Costs,          \* what an agent attempt may cost
  Flaws,          \* what may be wrong with a candidate
  Interactive,    \* TRUE when the user is asked before applying
  Interrupts,     \* TRUE when SIGINT may arrive
  Kills,          \* TRUE when the process may be killed
  Throws,         \* TRUE when git, the file system or an append may fail
  Sweeps,         \* TRUE when other paxcli processes sweep
  MaxEdits        \* bound on the user's edits

\* Each flaw is what one check finds, in this order; "empty" is no flaw of an
\* inquiry.
Checks == {"agent", "pins", "empty", "detector", "gate"}

ASSUME TaskAssumption ==
  /\ Regions \subseteq Int
  /\ Patches \subseteq (SUBSET Regions) \ {{}}
  /\ Intents \subseteq {"change", "inquiry"}
  /\ {MaxRepairs, MaxEdits} \subseteq Nat /\ BudgetUsd \in Nat \ {0}
  /\ Costs \subseteq Nat
  /\ Flaws \subseteq Checks
  /\ {InstallCmd, Interactive, Interrupts, Kills, Throws, Sweeps} \subseteq BOOLEAN

VARIABLES
  tree,     \* the user's working directory
  edits,    \* edits the user has made
  snap,     \* the tree of refs/paxcli/snapshots/<run>
  current,  \* the tree of the snapshot that applyTaskResult takes
  intent,   \* what kind of request this is
  pc,       \* where the engine is
  aborted,  \* its abort signal
  outcome,  \* status, attempts and cost; whether the catch clause was reached
  wt,       \* the worktree: its state, what the agent changed in it,
            \* keepWorktree, and whether its branch exists
  flaw,     \* what is wrong with the candidate in the worktree
  result,   \* the accepted commit: what it changes, its ref and agent.patch
  log,      \* what the event log says of the node and of the run's end
  locked,   \* engine.lock exists
  applied   \* ApplyResult.applied

user == <<tree, edits, intent>>
vars == <<user, snap, current, pc, aborted, outcome, wt, flaw, result, log,
          locked, applied>>

Agent == -1
Contents == {Agent} \cup 0..MaxEdits
Trees == [Regions -> Contents]
Statuses == {"succeeded", "failed", "rejected", "interrupted", "error"}
MaxAttempts == 1 + MaxRepairs

Points == {"start", "prepare", "snapshot", "provision", "install", "attempt", "agent",
           "judge", "screen", "gates", "commit", "ref", "patch", "finish", "end",
           "cleanup", "report", "confirm", "check", "apply", "merge", "applyMerged",
           "applied", "done", "killed"}
Outcomes == [status: Statuses, attempts: 0..MaxAttempts, cost: Nat, caught: BOOLEAN]
Worktrees == [state: {"none", "present", "gone"}, changed: SUBSET Regions,
              keep: BOOLEAN, branch: BOOLEAN]
Results == [changed: SUBSET Regions, ref: BOOLEAN, patch: BOOLEAN]
Logs == [node: {"none", "pending", "running", "accepted", "rejected", "failed"},
         end: {"none", "finished", "interrupted"}]

Near(r) == {s \in Regions : s \in (r - 1)..(r + 1)}

\* What a hunk's author saw is still there: its regions and their context.
Fits(hunks, base, onto) ==
  \A r \in hunks : \A s \in Near(r) : onto[s] = base[s]

Patched(t, hunks) == [r \in Regions |-> IF r \in hunks THEN Agent ELSE t[r]]

Init ==
  /\ tree = [r \in Regions |-> 0] /\ edits = 0 /\ intent \in Intents
  /\ snap = tree /\ current = tree
  /\ pc = "start" /\ aborted = FALSE
  /\ outcome = [status |-> "error", attempts |-> 0, cost |-> 0, caught |-> FALSE]
  /\ wt = [state |-> "none", changed |-> {}, keep |-> FALSE, branch |-> FALSE]
  /\ flaw = "none"
  /\ result = [changed |-> {}, ref |-> FALSE, patch |-> FALSE]
  /\ log = [node |-> "none", end |-> "none"]
  /\ locked = FALSE /\ applied = FALSE

Go(from, to) == pc = from /\ pc' = to

-----------------------------------------------------------------------------
(* runTask *)

\* finish(status, reason): its two appends are steps of their own.
Finish(status) ==
  /\ pc' = "finish"
  /\ outcome' = [outcome EXCEPT !.status = status]

\* Mutant of Prepare: what throws leaves the lock.
PrepareLocked ==
  /\ \/ Go("prepare", "snapshot") /\ UNCHANGED locked
     \/ Throws /\ Go("prepare", "done") /\ UNCHANGED locked
  /\ UNCHANGED <<user, snap, current, aborted, outcome, wt, flaw, result, log, applied>>

\* The store is created and its lock taken; then the marker is written and the
\* host looked for, and what throws here releases the lock itself.
Acquire ==
  /\ Go("start", "prepare") /\ locked' = TRUE
  /\ UNCHANGED <<user, snap, current, aborted, outcome, wt, flaw, result, log, applied>>

Prepare ==
  /\ \/ Go("prepare", "snapshot") /\ UNCHANGED locked
     \/ Throws /\ Go("prepare", "done") /\ locked' = FALSE
  /\ UNCHANGED <<user, snap, current, aborted, outcome, wt, flaw, result, log, applied>>

\* buildSnapshot, then run_started.
TakeSnapshot ==
  /\ Go("snapshot", "provision") /\ snap' = tree
  /\ UNCHANGED <<user, current, aborted, outcome, wt, flaw, result, log, locked, applied>>

\* git worktree add, then node_created.
Provision ==
  /\ Go("provision", "install")
  /\ wt' = [wt EXCEPT !.state = "present", !.branch = TRUE]
  /\ log' = [log EXCEPT !.node = "pending"]
  /\ UNCHANGED <<user, snap, current, aborted, outcome, flaw, result, locked, applied>>

Installs == InstallCmd /\ intent = "change"

\* Install, if there is something to install, then pins and the running node.
InstallDeps ==
  /\ pc = "install"
  /\ \/ Installs /\ aborted /\ Finish("interrupted") /\ UNCHANGED log
     \/ Installs /\ ~aborted /\ Finish("error") /\ UNCHANGED log
     \/ /\ ~(Installs /\ aborted)
        /\ pc' = "attempt" /\ log' = [log EXCEPT !.node = "running"]
        /\ UNCHANGED outcome
  /\ UNCHANGED <<user, snap, current, aborted, wt, flaw, result, locked, applied>>

\* Mutant of StartAttempt: repairs are not counted.
StartAttemptUncounted ==
  /\ pc = "attempt"
  /\ \/ aborted /\ Finish("interrupted")
     \/ ~aborted /\ pc' = "agent" /\ outcome' = [outcome EXCEPT !.attempts = 1]
  /\ UNCHANGED <<user, snap, current, aborted, wt, flaw, result, log, locked, applied>>

\* The head of the repair loop.
StartAttempt ==
  /\ pc = "attempt"
  /\ \/ aborted /\ Finish("interrupted")
     \/ /\ ~aborted /\ outcome.attempts < MaxAttempts
        /\ pc' = "agent" /\ outcome' = [outcome EXCEPT !.attempts = @ + 1]
  /\ UNCHANGED <<user, snap, current, aborted, wt, flaw, result, log, locked, applied>>

\* spawnAgent returns; its cost is counted and logged.  Its changes come on top
\* of those of earlier attempts and may undo them.
RunAgent ==
  /\ Go("agent", "judge")
  /\ \E cost \in Costs : outcome' = [outcome EXCEPT !.cost = @ + cost]
  /\ \/ /\ wt.state = "present"
        /\ flaw' \in (Flaws \ {"empty"}) \cup {"none"}
        /\ \E patch \in Patches : wt' = [wt EXCEPT !.changed = patch]
     \/ /\ wt.state = "present" /\ "empty" \in Flaws
        /\ flaw' = "none" /\ wt' = [wt EXCEPT !.changed = {}]
     \/ wt.state = "gone" /\ flaw' = "agent" /\ UNCHANGED wt
  /\ UNCHANGED <<user, snap, current, aborted, result, log, locked, applied>>

JudgeAgent ==
  /\ pc = "judge"
  /\ \/ aborted /\ Finish("interrupted")
     \/ ~aborted /\ flaw = "agent" /\ Finish("failed")
     \/ ~aborted /\ flaw # "agent" /\ pc' = "screen" /\ UNCHANGED outcome
  /\ UNCHANGED <<user, snap, current, aborted, wt, flaw, result, log, locked, applied>>

\* screenCandidate: pins, changed files, detectors.  A question is answered
\* without changing files.
Screen ==
  /\ pc = "screen" /\ wt.state = "present"
  /\ \/ flaw = "pins" /\ Finish("rejected")
     \/ /\ flaw # "pins" /\ wt.changed = {}
        /\ Finish(IF intent = "inquiry" THEN "succeeded" ELSE "failed")
     \/ /\ flaw # "pins" /\ wt.changed # {}
        /\ intent = "inquiry" \/ flaw = "detector"
        /\ Finish("rejected")
     \/ /\ flaw \notin {"pins", "detector"} /\ wt.changed # {} /\ intent = "change"
        /\ pc' = "gates" /\ UNCHANGED outcome
  /\ UNCHANGED <<user, snap, current, aborted, wt, flaw, result, log, locked, applied>>

ChecksPass == flaw # "gate" /\ wt.state = "present"

\* Mutant of RunChecks: the loop ends with its last attempt, checked or not.
RunChecksFallThrough ==
  /\ pc = "gates"
  /\ \/ /\ ChecksPass \/ outcome.attempts >= MaxAttempts
        /\ pc' = "commit" /\ UNCHANGED <<outcome, wt>>
     \/ /\ ~ChecksPass /\ outcome.cost >= BudgetUsd
        /\ wt' = [wt EXCEPT !.keep = TRUE] /\ Finish("failed")
     \/ /\ ~ChecksPass
        /\ outcome.attempts < MaxAttempts /\ outcome.cost < BudgetUsd
        /\ pc' = "attempt" /\ UNCHANGED <<outcome, wt>>
  /\ UNCHANGED <<user, snap, current, aborted, flaw, result, log, locked, applied>>

\* Mutant of RunChecks: a repair starts whatever has been spent.
RunChecksUnbudgeted ==
  /\ pc = "gates"
  /\ \/ ChecksPass /\ pc' = "commit" /\ UNCHANGED <<outcome, wt>>
     \/ /\ ~ChecksPass /\ outcome.attempts >= MaxAttempts
        /\ wt' = [wt EXCEPT !.keep = TRUE] /\ Finish("failed")
     \/ /\ ~ChecksPass /\ outcome.attempts < MaxAttempts
        /\ pc' = "attempt" /\ UNCHANGED <<outcome, wt>>
  /\ UNCHANGED <<user, snap, current, aborted, flaw, result, log, locked, applied>>

\* The discovered checks; the first that fails is repaired, unless the attempts
\* or the money are used up: then the worktree is kept for inspection.
RunChecks ==
  /\ pc = "gates"
  /\ \/ ChecksPass /\ pc' = "commit" /\ UNCHANGED <<outcome, wt>>
     \/ /\ ~ChecksPass
        /\ outcome.attempts >= MaxAttempts \/ outcome.cost >= BudgetUsd
        /\ wt' = [wt EXCEPT !.keep = TRUE] /\ Finish("failed")
     \/ /\ ~ChecksPass
        /\ outcome.attempts < MaxAttempts /\ outcome.cost < BudgetUsd
        /\ pc' = "attempt" /\ UNCHANGED <<outcome, wt>>
  /\ UNCHANGED <<user, snap, current, aborted, flaw, result, log, locked, applied>>

Commit ==
  /\ Go("commit", "ref") /\ wt.state = "present"
  /\ result' = [result EXCEPT !.changed = wt.changed]
  /\ UNCHANGED <<user, snap, current, aborted, outcome, wt, flaw, log, locked, applied>>

\* writeResultRef
WriteRef ==
  /\ Go("ref", "patch") /\ result' = [result EXCEPT !.ref = TRUE]
  /\ UNCHANGED <<user, snap, current, aborted, outcome, wt, flaw, log, locked, applied>>

\* Mutant of WritePatch: the success is logged before the patch is written.
WritePatchLast ==
  /\ pc = "patch"
  /\ wt' = [wt EXCEPT !.keep = TRUE] /\ Finish("succeeded")
  /\ UNCHANGED <<user, snap, current, aborted, flaw, result, log, locked, applied>>

\* The patch is written; from here on the worktree is the apply layer's.
WritePatch ==
  /\ pc = "patch"
  /\ result' = [result EXCEPT !.patch = TRUE] /\ wt' = [wt EXCEPT !.keep = TRUE]
  /\ Finish("succeeded")
  /\ UNCHANGED <<user, snap, current, aborted, flaw, log, locked, applied>>

\* Mutant of WriteDecision: the node gets the status of the task.
WriteDecisionRaw ==
  /\ Go("finish", "end")
  /\ log' = [log EXCEPT !.node = outcome.status]
  /\ UNCHANGED <<user, snap, current, aborted, outcome, wt, flaw, result, locked, applied>>

\* The appends of finish: the decision on the node, if there is a node, ...
WriteDecision ==
  /\ Go("finish", "end")
  /\ log' = [log EXCEPT !.node = CASE @ = "none" -> "none"
                                   [] outcome.status = "succeeded" -> "accepted"
                                   [] outcome.status = "rejected" -> "rejected"
                                   [] OTHER -> "failed"]
  /\ UNCHANGED <<user, snap, current, aborted, outcome, wt, flaw, result, locked, applied>>

\* ... and appendTerminalEvent: interrupted wins over finished.
WriteEnd ==
  /\ Go("end", "cleanup")
  /\ log' = [log EXCEPT !.end = IF aborted THEN "interrupted" ELSE "finished"]
  /\ UNCHANGED <<user, snap, current, aborted, outcome, wt, flaw, result, locked, applied>>

\* The catch clause: git, a file or an append fails, or the worktree is gone.
Throw ==
  /\ ~outcome.caught
  /\ \/ Throws /\ pc \in {"snapshot", "provision", "install", "agent", "judge",
                          "screen", "gates", "commit", "ref", "patch", "finish", "end"}
     \/ wt.state = "gone" /\ pc \in {"screen", "commit"}
  /\ pc' = "finish"
  /\ outcome' = [outcome EXCEPT !.status = "error", !.caught = TRUE]
  /\ UNCHANGED <<user, snap, current, aborted, wt, flaw, result, log, locked, applied>>

\* Mutant of Swallow: what fails in any finish is swallowed.
SwallowAll ==
  /\ Throws
  /\ pc \in {"finish", "end"} /\ pc' = "cleanup"
  /\ UNCHANGED <<user, snap, current, aborted, outcome, wt, flaw, result, log, locked, applied>>

\* What fails while the catch clause finishes is swallowed.
Swallow ==
  /\ Throws /\ outcome.caught
  /\ pc \in {"finish", "end"} /\ pc' = "cleanup"
  /\ UNCHANGED <<user, snap, current, aborted, outcome, wt, flaw, result, log, locked, applied>>

Destroyed == [wt EXCEPT !.state = "none", !.branch = FALSE]

\* The finally block.
Cleanup ==
  /\ Go("cleanup", "report")
  /\ wt' = IF wt.keep THEN wt ELSE Destroyed
  /\ locked' = FALSE
  /\ UNCHANGED <<user, snap, current, aborted, outcome, flaw, result, log, applied>>

-----------------------------------------------------------------------------
(* runTaskFlow and applyTaskResult *)

\* Only the result of a change is applied; an interactive user is asked.
Report ==
  /\ pc = "report"
  /\ pc' = IF outcome.status # "succeeded" \/ intent = "inquiry" THEN "done"
           ELSE IF Interactive THEN "confirm" ELSE "check"
  /\ UNCHANGED <<user, snap, current, aborted, outcome, wt, flaw, result, log,
                 locked, applied>>

Answer ==
  /\ Go("confirm", "check") \/ Go("confirm", "done")
  /\ UNCHANGED <<user, snap, current, aborted, outcome, wt, flaw, result, log,
                 locked, applied>>

\* git apply --check of the recorded patch.
CheckPatch ==
  /\ pc = "check"
  /\ pc' = IF Fits(result.changed, snap, tree) THEN "apply" ELSE "merge"
  /\ UNCHANGED <<user, snap, current, aborted, outcome, wt, flaw, result, log,
                 locked, applied>>

\* Mutant of GitApply, as with --reject: the hunks that fit are applied.
GitApplyRejecting(hunks, base) ==
  /\ tree' = Patched(tree, {r \in hunks : Fits({r}, base, tree)})
  /\ applied' = TRUE /\ pc' = "applied"

\* git apply: all of the hunks, or nothing and an error.
GitApply(hunks, base) ==
  \/ /\ Fits(hunks, base, tree)
     /\ tree' = Patched(tree, hunks) /\ applied' = TRUE /\ pc' = "applied"
  \/ ~Fits(hunks, base, tree) /\ pc' = "done" /\ UNCHANGED <<tree, applied>>

ApplyPatch ==
  /\ pc = "apply" /\ GitApply(result.changed, snap)
  /\ UNCHANGED <<edits, intent, snap, current, aborted, outcome, wt, flaw, result,
                 log, locked>>

Conflicts(ours) == {r \in result.changed : ours[r] \notin {snap[r], Agent}}
Delta(ours) == {r \in result.changed : ours[r] # Agent}

\* A fresh snapshot is merged with the result out of the tree; a git that
\* cannot, a conflict, or an error of git leave the tree alone.
Merge ==
  /\ pc = "merge" /\ current' = tree
  /\ \/ pc' = "done" /\ UNCHANGED applied
     \/ /\ Conflicts(tree) = {} /\ Delta(tree) = {}
        /\ pc' = "applied" /\ applied' = TRUE
     \/ /\ Conflicts(tree) = {} /\ Delta(tree) # {}
        /\ pc' = "applyMerged" /\ UNCHANGED applied
  /\ UNCHANGED <<user, snap, aborted, outcome, wt, flaw, result, log, locked>>

\* Mutant of ApplyMerged: the merged files are written over the user's.
ApplyMergedCheckout ==
  /\ pc = "applyMerged"
  /\ tree' = Patched(tree, Delta(current)) /\ applied' = TRUE /\ pc' = "applied"
  /\ UNCHANGED <<edits, intent, snap, current, aborted, outcome, wt, flaw, result,
                 log, locked>>

ApplyMerged ==
  /\ pc = "applyMerged" /\ GitApply(Delta(current), current)
  /\ UNCHANGED <<edits, intent, snap, current, aborted, outcome, wt, flaw, result,
                 log, locked>>

\* cleanupTaskWorktree
CleanupApplied ==
  /\ Go("applied", "done") /\ wt' = Destroyed
  /\ UNCHANGED <<user, snap, current, aborted, outcome, flaw, result, log, locked,
                 applied>>

-----------------------------------------------------------------------------
(* The user, and other processes *)

\* The user may come to write what the agent wrote.
Edit ==
  /\ edits < MaxEdits /\ edits' = edits + 1
  /\ \E r \in Regions, content \in {edits + 1, Agent} :
       /\ content = Agent => pc \notin {"start", "prepare", "snapshot"}
       /\ tree' = [tree EXCEPT ![r] = content]
  /\ UNCHANGED <<intent, snap, current, pc, aborted, outcome, wt, flaw, result, log,
                 locked, applied>>

InRunTask == pc \notin {"report", "confirm", "check", "apply", "merge",
                        "applyMerged", "applied", "done", "killed"}

\* SIGINT while runTask is at work.
Interrupt ==
  /\ Interrupts /\ InRunTask /\ ~aborted /\ aborted' = TRUE
  /\ UNCHANGED <<user, snap, current, pc, outcome, wt, flaw, result, log, locked,
                 applied>>

Kill ==
  /\ Kills /\ pc \notin {"done", "killed"} /\ pc' = "killed"
  /\ UNCHANGED <<user, snap, current, aborted, outcome, wt, flaw, result, log,
                 locked, applied>>

\* An optimize run ends, or `paxcli gc` runs, which deletes references too, and
\* branches when asked.
Sweep ==
  /\ Sweeps /\ wt.state = "present"
  /\ \/ wt' = [wt EXCEPT !.state = "gone"] /\ UNCHANGED result
     \/ /\ \E kept \in {wt.branch, FALSE} :
             wt' = [wt EXCEPT !.state = "gone", !.branch = kept]
        /\ result' = [result EXCEPT !.ref = FALSE]
  /\ UNCHANGED <<user, snap, current, pc, aborted, outcome, flaw, log, locked,
                 applied>>

RunTask ==
  \/ Acquire \/ Prepare \/ TakeSnapshot \/ Provision \/ InstallDeps
  \/ StartAttempt \/ RunAgent \/ JudgeAgent \/ Screen \/ RunChecks
  \/ Commit \/ WriteRef \/ WritePatch \/ WriteDecision \/ WriteEnd
  \/ Throw \/ Swallow \/ Cleanup

Flow ==
  Report \/ CheckPatch \/ ApplyPatch \/ Merge \/ ApplyMerged \/ CleanupApplied

Engine == RunTask \/ Flow

Next == Engine \/ Answer \/ Edit \/ Interrupt \/ Kill \/ Sweep

Spec == Init /\ [][Next]_vars

\* Agents, checks and installs have timeouts, and these awaits are taken to
\* settle (Experiment has the process that holds one open); git and the disk
\* answer.
FairSpec == Spec /\ WF_vars(Engine)

-----------------------------------------------------------------------------
(* Properties *)

\* Every variable has its type.
TypeOK ==
  /\ tree \in Trees /\ snap \in Trees /\ current \in Trees
  /\ edits \in 0..MaxEdits /\ intent \in Intents /\ pc \in Points
  /\ aborted \in BOOLEAN /\ locked \in BOOLEAN /\ applied \in BOOLEAN
  /\ outcome \in Outcomes /\ wt \in Worktrees /\ flaw \in Checks \cup {"none"}
  /\ result \in Results /\ log \in Logs

\* Over all attempts and failures, what the log calls accepted and what is
\* shown, confirmed or applied is the whole of a candidate that passed every
\* check, on its last attempt.
OnlyCheckedOffered ==
  /\ intent = "change"
  /\ log.node = "accepted" \/ pc \in {"confirm", "check", "apply", "merge", "applyMerged"}
  => /\ flaw = "none"
     /\ result.changed = wt.changed /\ result.changed # {}

\* An accepted change can be recovered from agent.patch from the moment that the
\* log says so, whenever the engine dies and whatever is swept: the references
\* and the worktree do not last.
AcceptedIsRecoverable ==
  intent = "change" /\ log.node = "accepted" => result.patch

\* The engine never overwrites an edit that the user made after the snapshot,
\* whenever it was made, and writes nothing but the accepted result.
UserEditsSurvive ==
  [][edits' = edits =>
       \A r \in Regions : tree'[r] # tree[r] =>
         /\ r \in result.changed /\ tree'[r] = Agent
         /\ tree[r] = snap[r]]_vars

\* The result is applied as a whole or not at all: when the engine writes, or
\* says that it has applied, then every change is in the user's tree, but for
\* those that the user had made already when the merge was computed.
AppliedWhole ==
  [][edits' = edits /\ (tree' # tree \/ applied' # applied) =>
       /\ applied'
       /\ \A r \in result.changed :
            tree'[r] = Agent \/ (pc = "applyMerged" /\ current[r] = Agent)]_vars

\* The budget is compared before every repair, so that the money spent exceeds
\* it by less than one attempt.
SpendBound ==
  outcome.cost > BudgetUsd =>
    \E cost \in Costs : outcome.cost < BudgetUsd + cost

\* Once runTask has returned, its log agrees with its outcome: a success is an
\* accepted node in a run that ended, an interruption is logged as one, and what
\* the log accepts was not rejected, even when appends fail.
LogTellsOutcome ==
  pc # "killed" /\ ~InRunTask =>
    /\ outcome.status = "succeeded" => log.node = "accepted" /\ log.end # "none"
    /\ outcome.status = "interrupted" => log.end = "interrupted"
    /\ log.node = "accepted" => outcome.status \in {"succeeded", "error"}

\* An engine that is through, in whatever way, has released its lock, and leaves
\* a branch only for a result that waits or for an attempt worth a look.
EndsClean ==
  pc = "done" =>
    /\ ~locked
    /\ wt.branch => wt.keep /\ ~applied

\* A SIGINT leaves the user's files alone: task-ui.ts announces "Stopping
\* gracefully - your repository is untouched."
InterruptedUntouched == [][aborted /\ edits' = edits => tree' = tree]_vars

\* Every flow ends or waits for the user's answer.
FlowEnds == <>(pc \in {"done", "killed", "confirm"})
=============================================================================
