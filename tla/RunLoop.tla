------------------------------- MODULE RunLoop -------------------------------
(***************************************************************************)
(* The optimize engine: runOptimize and runOneExperiment of                *)
(* src/engine/run-loop.ts, the reduction of its events (reduceEvents of    *)
(* src/tree/store.ts) and the git worktrees it makes and removes           *)
(* (src/worktree/local.ts).                                                *)
(*                                                                         *)
(* An engine process works on one run; it can be interrupted (SIGINT),     *)
(* killed, and started again by `paxcli resume`.  What the event log says  *)
(* of the run survives (summary, node), so do receipts, worktrees and      *)
(* branches; the rest is memory of the engine and dies with it.  The       *)
(* experiments of a round run concurrently: step[n] is the point that      *)
(* experiment n has reached, and every await of the code falls between two *)
(* steps.                                                                  *)
(*                                                                         *)
(* Simplifications: an append takes one step and succeeds, and engines do  *)
(* not overlap (EventLog and ResumeRun are about what is left out here);   *)
(* scores are small numbers, less is better; an agent call costs 0 or 1; a *)
(* candidate has at most one flaw; hypotheses, insights, the journal, the  *)
(* event winner_reproduced and the wording of reasons, which no decision   *)
(* reads, are left out.                                                    *)
(***************************************************************************)
EXTENDS Integers, FiniteSets

CONSTANTS
  MaxRounds, Parallel, MaxNodes, PlateauRounds,  \* config.search
  Calls,            \* agent calls of an experiment: 2 for split roles, else 1
  Explore,          \* TRUE for the epsilon-greedy strategy
  ReproduceWinner,  \* config.search.reproduceWinner
  Withheld,         \* TRUE when withheld checks are configured
  MaxCost,          \* config.budget.maxCostUsd
  Costs,            \* what an agent call may cost, 0 or 1
  Baseline,         \* score of the baseline; candidates score 1..Baseline
  Flaws,            \* what may be wrong with a candidate
  Throws,           \* TRUE when steps inside a try block may throw
  Escapes,          \* TRUE when provisioning and writing receipts may fail
  MaxCrashes,       \* bound on kills
  MaxLeaks          \* bound on reproductions cut short

\* Each flaw is what one check finds; the checks are made in this order.
Checks == {"agent", "pins", "empty", "detector", "bench",
           "constraint", "gate", "withheld", "noise"}

ASSUME LoopAssumption ==
  /\ {MaxRounds, Parallel, MaxNodes, PlateauRounds, Calls, MaxCost} \subseteq Nat \ {0}
  /\ {Baseline, MaxCrashes, MaxLeaks} \subseteq Nat
  /\ {Explore, ReproduceWinner, Withheld, Throws, Escapes} \subseteq BOOLEAN
  /\ Flaws \subseteq Checks /\ Costs \subseteq {0, 1}

VARIABLES
  summary,    \* what a replay of the log yields, but for the nodes
  node,       \* node[n]: experiment n as a replay yields it
  receipt,    \* receipt[n]: what receipts/<n>.json says
  worktrees,  \* checkouts under .paxcli/worktrees (see Fresh)
  branches,   \* branches paxcli/exp/<n>
  pc,         \* where the engine is; "down" when there is none
  engine,     \* what the engine remembers (see Forgotten)
  aborted,    \* its abort signal
  step,       \* step[n]: where experiment n is
  calls,      \* calls[n]: agent calls of n so far
  flaw,       \* flaw[n]: what is wrong with the candidate of n
  ids,        \* node ids handed out
  spent,      \* what the agent calls have cost
  crashes,    \* kills
  leaks       \* reproductions that made one worktree and failed at the other

files == <<receipt, worktrees, branches>>
experiments == <<step, calls, flaw, ids, spent>>
user == <<aborted, crashes, leaks>>
vars == <<summary, node, files, pc, engine, experiments, user>>

Nodes == 1..(MaxRounds * Parallel)
NoScore == 0
Grades == {"none", "measured", "validated", "equivalent", "reproduced"}
Decided == {"accepted", "rejected", "failed"}
Statuses == {"absent", "pending", "running", "evaluating"} \cup Decided

NoNode == [status |-> "absent", score |-> NoScore, grade |-> "none",
           parent |-> 0, round |-> 0]
NoReceipt == [decision |-> "none", grade |-> "none"]

\* The score of the best node when the round started, nodesTried,
\* roundsWithoutImprovement, totalCost, the nodes whose receipts are in memory,
\* and the node under reproduction.
Forgotten == [target |-> NoScore, tried |-> 0, stale |-> 0, total |-> 0,
              receipts |-> {}, winner |-> 0]

-----------------------------------------------------------------------------
BetterThan(score, other) == score < other

Accepted == {n \in Nodes : node[n].status = "accepted"}

\* pickBest: an accepted node that no other beats.
Best == {n \in Accepted :
           \A m \in Accepted : ~BetterThan(node[m].score, node[n].score)}

BestScore == IF Best = {} THEN NoScore ELSE node[CHOOSE n \in Best : TRUE].score

\* selectParent: the best node; when exploring also any accepted one or the
\* base commit (0).
Parents ==
  (IF Best = {} THEN {0} ELSE Best) \cup (IF Explore THEN Accepted \cup {0} ELSE {})

Init ==
  /\ summary = [started |-> FALSE, measured |-> FALSE, round |-> 0, cost |-> 0,
                finished |-> FALSE]
  /\ node = [n \in Nodes |-> NoNode]
  /\ receipt = [n \in Nodes |-> NoReceipt]
  /\ worktrees = {} /\ branches = {}
  /\ pc = "down" /\ engine = Forgotten /\ aborted = FALSE
  /\ step = [n \in Nodes |-> "none"]
  /\ calls = [n \in Nodes |-> 0]
  /\ flaw = [n \in Nodes |-> "none"]
  /\ ids = 0 /\ spent = 0 /\ crashes = 0 /\ leaks = 0

Go(from, to) == pc = from /\ pc' = to

\* The worktrees the engine makes for itself, one for the baseline and two for
\* the reproduction, under names that nobody has left behind.
Fresh == -2 * (crashes + leaks)
FreshWinner == Fresh - 1

Provision(n) == worktrees' = worktrees \cup {n} /\ branches' = branches \cup {n}
Destroy(n, keepBranch) ==
  /\ worktrees' = worktrees \ {n}
  /\ branches' = IF keepBranch THEN branches ELSE branches \ {n}

-----------------------------------------------------------------------------
(* Start and resume *)

\* `paxcli start`, or `paxcli resume` of a run that has not finished: the lock
\* is taken, the log replayed.
StartEngine ==
  /\ ~summary.finished
  /\ \A n \in Nodes : step[n] \in {"none", "over", "threw"}
  /\ Go("down", "boot")
  /\ engine' = Forgotten
  /\ aborted' = FALSE
  /\ step' = [n \in Nodes |-> "none"] /\ calls' = [n \in Nodes |-> 0]
  /\ UNCHANGED <<summary, node, files, flaw, ids, spent, crashes, leaks>>

\* run_started, of a new run only.
RecordStart ==
  /\ Go("boot", "baseline")
  /\ summary' = [summary EXCEPT !.started = TRUE]
  /\ UNCHANGED <<node, files, engine, experiments, user>>

ProvisionBaseline ==
  /\ ~summary.measured
  /\ Go("baseline", "measure")
  /\ Provision(Fresh)
  /\ UNCHANGED <<summary, node, receipt, engine, experiments, user>>

\* Stable at the first or the second measure: recorded.  Otherwise the engine
\* gives up.  The worktree goes in either case.
MeasureBaseline ==
  /\ \/ Go("measure", "baseline") /\ summary' = [summary EXCEPT !.measured = TRUE]
     \/ Go("measure", "cleanup") /\ UNCHANGED summary
  /\ Destroy(Fresh, FALSE)
  /\ UNCHANGED <<node, receipt, engine, experiments, user>>

\* Mutants of Recount: only decided nodes count against the limit; the money
\* spent before the resume is forgotten; it is counted one too few.
RecountDecided ==
  /\ summary.measured
  /\ Go("baseline", "loop")
  /\ engine' = [engine EXCEPT
       !.total = summary.cost,
       !.tried = Cardinality({n \in Nodes : node[n].status \in Decided})]
  /\ UNCHANGED <<summary, node, files, experiments, user>>

RecountNoCost ==
  /\ summary.measured
  /\ Go("baseline", "loop")
  /\ engine' = [engine EXCEPT
       !.tried = Cardinality({n \in Nodes : node[n].status \notin {"absent", "pending"}})]
  /\ UNCHANGED <<summary, node, files, experiments, user>>

RecountOffByOne ==
  /\ summary.measured
  /\ Go("baseline", "loop")
  /\ engine' = [engine EXCEPT !.total = summary.cost - 1]
  /\ UNCHANGED <<summary, node, files, experiments, user>>

\* The counters of the search, from the replayed log.
Recount ==
  /\ summary.measured
  /\ Go("baseline", "loop")
  /\ engine' = [engine EXCEPT
       !.total = summary.cost,
       !.tried = Cardinality({n \in Nodes : node[n].status \notin {"absent", "pending"}})]
  /\ UNCHANGED <<summary, node, files, experiments, user>>

-----------------------------------------------------------------------------
(* Rounds *)

StartRound ==
  /\ summary.round < MaxRounds
  /\ ~aborted
  /\ engine.tried < MaxNodes
  /\ engine.total < MaxCost
  /\ Go("loop", "launch")
  /\ summary' = [summary EXCEPT !.round = @ + 1]
  /\ UNCHANGED <<node, files, engine, experiments, user>>

\* One of the limits is reached: the wall clock may be at any time.
EndLoop ==
  /\ Go("loop", "winner")
  /\ UNCHANGED <<summary, node, files, engine, experiments, user>>

\* The experiments of a round start from the same replay.
Launch ==
  /\ Go("launch", "wait")
  /\ LET left == MaxNodes - engine.tried
         many == IF Parallel <= left THEN Parallel ELSE left
         new == (ids + 1)..(ids + many)
         Created(n, parent) ==
           [NoNode EXCEPT !.parent = parent, !.round = summary.round]
     IN /\ \E parent \in [new -> Parents] :
             node' = [n \in Nodes |-> IF n \in new THEN Created(n, parent[n]) ELSE node[n]]
        /\ step' = [n \in Nodes |-> IF n \in new THEN "provision" ELSE step[n]]
        /\ ids' = ids + many
        /\ engine' = [engine EXCEPT !.tried = @ + many, !.target = BestScore]
  /\ UNCHANGED <<summary, files, calls, flaw, spent, user>>

\* All experiments are over: has the best score improved?
SettleRound ==
  /\ \A n \in Nodes : step[n] \in {"none", "over"}
  /\ LET improved == /\ Best # {}
                     /\ engine.target = NoScore \/ BetterThan(BestScore, engine.target)
         stale == IF improved THEN 0 ELSE engine.stale + 1
     IN /\ engine' = [engine EXCEPT !.stale = stale]
        /\ Go("wait", IF stale >= PlateauRounds THEN "winner" ELSE "loop")
  /\ step' = [n \in Nodes |-> "none"] /\ calls' = [n \in Nodes |-> 0]
  /\ UNCHANGED <<summary, node, files, flaw, ids, spent, user>>

\* Mutant of FailRound: the round fails only when every experiment has.
FailRoundAll ==
  /\ \A n \in Nodes : step[n] \in {"none", "threw"}
  /\ \E n \in Nodes : step[n] = "threw"
  /\ Go("wait", "cleanup")
  /\ UNCHANGED <<summary, node, files, engine, experiments, user>>

\* Promise.all rejects with the first experiment that does, and does not wait
\* for the others.
FailRound ==
  /\ \E n \in Nodes : step[n] = "threw"
  /\ Go("wait", "cleanup")
  /\ UNCHANGED <<summary, node, files, engine, experiments, user>>

-----------------------------------------------------------------------------
(* The winner and the end of the run *)

\* reproduceWinner: a fresh worktree for the baseline, then one for the winner.
\* An error on the way is reported and the run goes on.
ProvisionFresh ==
  /\ ReproduceWinner /\ ~aborted
  /\ \E n \in Best : engine' = [engine EXCEPT !.winner = n]
  /\ \/ Go("winner", "second") /\ Provision(Fresh)
     \/ Throws /\ Go("winner", "terminal") /\ UNCHANGED <<worktrees, branches>>
  /\ UNCHANGED <<summary, node, receipt, experiments, user>>

\* Both are made before the try block that removes them: when the second fails,
\* the first stays.
ProvisionFreshWinner ==
  /\ \/ Go("second", "reproduce") /\ Provision(FreshWinner) /\ UNCHANGED leaks
     \/ /\ Throws /\ leaks < MaxLeaks
        /\ Go("second", "terminal")
        /\ leaks' = leaks + 1
        /\ UNCHANGED <<worktrees, branches>>
  /\ UNCHANGED <<summary, node, receipt, engine, experiments, aborted, crashes>>

SkipReproduction ==
  /\ Best = {} \/ ~ReproduceWinner \/ aborted
  /\ Go("winner", "terminal")
  /\ UNCHANGED <<summary, node, files, engine, experiments, user>>

\* Both have been measured, or that failed: the finally block removes the
\* worktrees one after the other.
RemoveFresh ==
  /\ Go("reproduce", "remove")
  /\ Destroy(Fresh, FALSE)
  /\ UNCHANGED <<summary, node, receipt, engine, experiments, user>>

RemoveFreshWinner ==
  /\ Go("remove", "record")
  /\ Destroy(FreshWinner, FALSE)
  /\ UNCHANGED <<summary, node, receipt, engine, experiments, user>>

\* The comparison is recorded and, if it held, the grade is raised; when
\* measuring threw, there is none.
RecordReproduction ==
  /\ \/ Go("record", "grade") \/ Go("record", "refresh")
     \/ Throws /\ Go("record", "terminal")
  /\ UNCHANGED <<summary, node, files, engine, experiments, user>>

GradeWinner ==
  /\ Go("grade", "refresh")
  /\ node' = [node EXCEPT ![engine.winner].grade = "reproduced"]
  /\ UNCHANGED <<summary, files, engine, experiments, user>>

\* The winner's receipt is written again if this engine has it in memory.
RefreshReceipt ==
  /\ Go("refresh", "terminal")
  /\ \/ /\ engine.winner \in engine.receipts
        /\ receipt' = [receipt EXCEPT ![engine.winner].grade = node[engine.winner].grade]
     \/ (engine.winner \notin engine.receipts \/ Throws) /\ UNCHANGED receipt
  /\ UNCHANGED <<summary, node, worktrees, branches, engine, experiments, user>>

\* appendTerminalEvent: run_interrupted leaves the run to be resumed.
EndRun ==
  /\ Go("terminal", "cleanup")
  /\ summary' = [summary EXCEPT !.finished = ~aborted]
  /\ UNCHANGED <<node, files, engine, experiments, user>>

\* Mutant of Cleanup: the sweep is left to `paxcli gc`.
CleanupNoSweep ==
  /\ Go("cleanup", "down")
  /\ UNCHANGED <<summary, node, files, engine, experiments, user>>

\* The finally block: every worktree is swept, the lock released.
Cleanup ==
  /\ Go("cleanup", "down")
  /\ worktrees' = {}
  /\ UNCHANGED <<summary, node, receipt, branches, engine, experiments, user>>

-----------------------------------------------------------------------------
(* One experiment *)

At(n, from, to) == step[n] = from /\ step' = [step EXCEPT ![n] = to]

\* backend.provision; with a failure the experiment is over before it is
\* recorded.
ProvisionNode(n) ==
  /\ \/ At(n, "provision", "create") /\ Provision(n)
     \/ Escapes /\ At(n, "provision", "threw") /\ UNCHANGED <<worktrees, branches>>
  /\ UNCHANGED <<summary, node, receipt, pc, engine, calls, flaw, ids, spent, user>>

\* node_created, then node_updated with status running.
SetStatus(n, status) == node' = [node EXCEPT ![n].status = status]

CreateNode(n) ==
  /\ At(n, "create", "run")
  /\ SetStatus(n, "pending")
  /\ UNCHANGED <<summary, files, pc, engine, calls, flaw, ids, spent, user>>

RunNode(n) ==
  /\ At(n, "run", "call")
  /\ SetStatus(n, "running")
  /\ UNCHANGED <<summary, files, pc, engine, calls, flaw, ids, spent, user>>

\* After a call: the executor follows the researcher.
AfterCall(n) == IF calls'[n] < Calls THEN "call" ELSE "agent"

\* spawnAgent returns.  A cost goes into the engine's total at once, into the
\* log with the next append.  The last call leaves the candidate.
CallAgent(n) ==
  /\ calls' = [calls EXCEPT ![n] = @ + 1]
  /\ \E cost \in Costs :
       /\ At(n, "call", IF cost > 0 THEN "charge" ELSE AfterCall(n))
       /\ spent' = spent + cost
       /\ engine' = [engine EXCEPT !.total = @ + cost]
  /\ IF calls'[n] = Calls
       THEN \E f \in Flaws \cup {"none"} : flaw' = [flaw EXCEPT ![n] = f]
       ELSE UNCHANGED flaw
  /\ UNCHANGED <<summary, node, files, pc, ids, user>>

\* cost_recorded.
RecordCost(n) ==
  /\ At(n, "charge", IF calls[n] < Calls THEN "call" ELSE "agent")
  /\ summary' = [summary EXCEPT !.cost = @ + 1]
  /\ UNCHANGED <<node, files, pc, engine, calls, flaw, ids, spent, user>>

\* An agent that did not complete fails the experiment; else it is evaluated.
CheckAgent(n) ==
  /\ \/ flaw[n] = "agent" /\ At(n, "agent", "receipt") /\ SetStatus(n, "failed")
     \/ flaw[n] # "agent" /\ At(n, "agent", "screen") /\ SetStatus(n, "evaluating")
  /\ UNCHANGED <<summary, files, pc, engine, calls, flaw, ids, spent, user>>

Reject(n, from) == At(n, from, "receipt") /\ SetStatus(n, "rejected")

\* Mutant of Screen: the pins are verified after the benchmark, with the gates.
ScreenLate(n) ==
  /\ \/ flaw[n] \in {"empty", "detector"} /\ Reject(n, "screen")
     \/ /\ flaw[n] \notin {"empty", "detector"}
        /\ At(n, "screen", "measure") /\ UNCHANGED node
  /\ UNCHANGED <<summary, files, pc, engine, calls, flaw, ids, spent, user>>

\* screenCandidate: pins, changed files, detectors.
Screen(n) ==
  /\ \/ flaw[n] \in {"pins", "empty", "detector"} /\ Reject(n, "screen")
     \/ /\ flaw[n] \notin {"pins", "empty", "detector"}
        /\ At(n, "screen", "measure") /\ UNCHANGED node
  /\ UNCHANGED <<summary, files, pc, engine, calls, flaw, ids, spent, user>>

\* The benchmark fails, or its score is recorded.
Measure(n) ==
  /\ \/ flaw[n] = "bench" /\ Reject(n, "measure")
     \/ /\ flaw[n] # "bench"
        /\ At(n, "measure", "gates")
        /\ \E score \in 1..Baseline : node' = [node EXCEPT ![n].score = score]
  /\ UNCHANGED <<summary, files, pc, engine, calls, flaw, ids, spent, user>>

\* Constraints, gates, withheld checks.
RunGates(n) ==
  /\ \/ flaw[n] \in {"constraint", "gate", "withheld"} /\ Reject(n, "gates")
     \/ /\ flaw[n] \notin {"constraint", "gate", "withheld"}
        /\ At(n, "gates", "threshold") /\ UNCHANGED node
  /\ UNCHANGED <<summary, files, pc, engine, calls, flaw, ids, spent, user>>

\* Mutant of Improves: candidates are only compared to the baseline.
ImprovesOnBaseline(n) == flaw[n] # "noise" /\ BetterThan(node[n].score, Baseline)

\* The improvement over the baseline clears the noise, and the score beats the
\* best one of the round's start.
Improves(n) ==
  /\ flaw[n] # "noise" /\ BetterThan(node[n].score, Baseline)
  /\ engine.target = NoScore \/ BetterThan(node[n].score, engine.target)

Decide(n) ==
  /\ \/ ~Improves(n) /\ Reject(n, "threshold")
     \/ Improves(n) /\ At(n, "threshold", "accept") /\ UNCHANGED node
  /\ UNCHANGED <<summary, files, pc, engine, calls, flaw, ids, spent, user>>

\* The work is committed and the branch is to be kept; the grade depends on
\* how stable the samples were.
Accept(n) ==
  /\ At(n, "accept", "receipt")
  /\ \E stable \in BOOLEAN :
       node' = [node EXCEPT
         ![n].status = "accepted",
         ![n].grade = IF ~stable THEN "measured"
                      ELSE IF Withheld THEN "equivalent" ELSE "validated"]
  /\ UNCHANGED <<summary, files, pc, engine, calls, flaw, ids, spent, user>>

\* Mutant of Throw: the receipt is written inside the try block.
ThrowAfterDecision(n) ==
  /\ Throws
  /\ \E from \in {"call", "screen", "gates", "accept", "destroy"} : At(n, from, "receipt")
  /\ SetStatus(n, "failed")
  /\ UNCHANGED <<summary, files, pc, engine, calls, flaw, ids, spent, user>>

\* The catch clause: the host, git or a command throws.
Throw(n) ==
  /\ Throws
  /\ \E from \in {"call", "screen", "gates", "accept"} : At(n, from, "receipt")
  /\ SetStatus(n, "failed")
  /\ UNCHANGED <<summary, files, pc, engine, calls, flaw, ids, spent, user>>

\* Mutant of Decision: what was not accepted was rejected.
DecisionTwoValued(status) == IF status = "accepted" THEN status ELSE "rejected"

\* The finally block: the receipt tells the node as the experiment knows it ...
Decision(status) == IF status \in {"accepted", "failed"} THEN status ELSE "rejected"

WriteReceipt(n) ==
  /\ \/ /\ At(n, "receipt", "destroy")
        /\ receipt' = [receipt EXCEPT ![n] =
             [decision |-> Decision(node[n].status), grade |-> node[n].grade]]
        /\ engine' = [engine EXCEPT !.receipts = @ \cup {n}]
     \/ Escapes /\ At(n, "receipt", "threw") /\ UNCHANGED <<receipt, engine>>
  /\ UNCHANGED <<summary, node, worktrees, branches, pc, calls, flaw, ids, spent, user>>

\* Mutants of DestroyWorktree: the branch always goes; it always stays.
DestroyWithBranch(n) ==
  /\ At(n, "destroy", "over")
  /\ Destroy(n, FALSE)
  /\ UNCHANGED <<summary, node, receipt, pc, engine, calls, flaw, ids, spent, user>>

DestroyKeepingBranch(n) ==
  /\ At(n, "destroy", "over")
  /\ Destroy(n, TRUE)
  /\ UNCHANGED <<summary, node, receipt, pc, engine, calls, flaw, ids, spent, user>>

\* ... and the worktree goes, with its branch unless the node was accepted.
DestroyWorktree(n) ==
  /\ At(n, "destroy", "over")
  /\ Destroy(n, node[n].status = "accepted")
  /\ UNCHANGED <<summary, node, receipt, pc, engine, calls, flaw, ids, spent, user>>

-----------------------------------------------------------------------------
(* The environment *)

\* SIGINT, once.
Interrupt ==
  /\ pc # "down" /\ ~aborted
  /\ aborted' = TRUE
  /\ UNCHANGED <<summary, node, files, pc, engine, experiments, crashes, leaks>>

\* The process is killed; worktrees and branches stay.
Crash ==
  /\ pc # "down" /\ crashes < MaxCrashes
  /\ crashes' = crashes + 1
  /\ pc' = "down" /\ engine' = Forgotten /\ aborted' = FALSE
  /\ step' = [n \in Nodes |-> "none"] /\ calls' = [n \in Nodes |-> 0]
  /\ UNCHANGED <<summary, node, files, flaw, ids, spent, leaks>>

EngineStep ==
  \/ RecordStart \/ ProvisionBaseline \/ MeasureBaseline \/ Recount
  \/ StartRound \/ EndLoop \/ Launch \/ SettleRound \/ FailRound
  \/ ProvisionFresh \/ ProvisionFreshWinner \/ SkipReproduction
  \/ RemoveFresh \/ RemoveFreshWinner \/ RecordReproduction
  \/ GradeWinner \/ RefreshReceipt \/ EndRun \/ Cleanup

ExperimentStep(n) ==
  \/ ProvisionNode(n) \/ CreateNode(n) \/ RunNode(n)
  \/ CallAgent(n) \/ RecordCost(n) \/ CheckAgent(n)
  \/ Screen(n) \/ Measure(n) \/ RunGates(n) \/ Decide(n)
  \/ Accept(n) \/ Throw(n) \/ WriteReceipt(n) \/ DestroyWorktree(n)

Next ==
  \/ StartEngine \/ EngineStep
  \/ \E n \in Nodes : ExperimentStep(n)
  \/ Interrupt \/ Crash

Spec == Init /\ [][Next]_vars

\* Every command the engine waits for is under a timeout, and these awaits are
\* taken to settle (Experiment has the process that holds one open), so that an
\* engine that lives goes on; nobody need start or resume one.
FairSpec ==
  Spec /\ WF_vars(EngineStep) /\ \A n \in Nodes : WF_vars(ExperimentStep(n))

-----------------------------------------------------------------------------
(* Properties *)

TypeOK ==
  /\ summary \in [started : BOOLEAN, measured : BOOLEAN, round : 0..MaxRounds, cost : Nat,
                  finished : BOOLEAN]
  /\ node \in [Nodes -> [status : Statuses, score : 0..Baseline, grade : Grades,
                         parent : Nodes \cup {0}, round : 0..MaxRounds]]
  /\ receipt \in [Nodes -> [decision : Decided \cup {"none"}, grade : Grades]]
  /\ worktrees \subseteq Int /\ branches \subseteq Int
  /\ pc \in {"down", "boot", "baseline", "measure", "loop", "launch", "wait", "winner",
             "second", "reproduce", "remove", "record", "grade", "refresh", "terminal",
             "cleanup"}
  /\ engine \in [target : 0..Baseline, tried : Nat, stale : Nat,
                 total : Nat, receipts : SUBSET Nodes, winner : Nodes \cup {0}]
  /\ aborted \in BOOLEAN
  /\ step \in [Nodes -> {"none", "provision", "create", "run", "call", "charge",
                         "agent", "screen", "measure", "gates", "threshold",
                         "accept", "receipt", "destroy", "over", "threw"}]
  /\ calls \in [Nodes -> 0..Calls]
  /\ flaw \in [Nodes -> Flaws \cup {"none"}]
  /\ {ids, spent, crashes, leaks} \subseteq Nat

\* Whatever interleaves, an accepted node is one no check objects to and
\* better than the baseline, it alone has a grade, and a candidate that was
\* screened out has never been scored ("before any score exists", verify.ts).
OnlySoundAccepted ==
  \A n \in Nodes :
    /\ n \in Accepted => flaw[n] = "none" /\ BetterThan(node[n].score, Baseline)
    /\ node[n].grade # "none" <=> n \in Accepted
    /\ flaw[n] \in {"agent", "pins", "empty", "detector"} => node[n].score = NoScore

\* Each round that accepts anything beats every earlier round, over crashes
\* and resumes too: the best score is never lost or compared to a stale one.
LaterRoundsBetter ==
  \A m, n \in Accepted :
    node[m].round < node[n].round => BetterThan(node[n].score, node[m].score)

\* A decision is final: no later event of any experiment, nor of an engine that
\* resumes the run, changes the verdict or the score of a decided node.
DecisionsFinal ==
  [][\A n \in Nodes : node[n].status \in Decided =>
       /\ node'[n].status = node[n].status
       /\ node'[n].score = node[n].score]_vars

\* `paxcli apply` finds the branch of an accepted node, and so does an
\* experiment that extends one, whenever the engine was killed.
AcceptedBranchesKept ==
  /\ Accepted \subseteq branches
  /\ \A n \in Nodes : node[n].parent \in Accepted \cup {0}

\* config.search.maxNodes bounds the experiments that get to run, over all the
\* engines that work on the run.
NodeLimit ==
  Cardinality({n \in Nodes : node[n].status \notin {"absent", "pending"}}) <= MaxNodes

\* What can be spent over the budget is the calls of one round; each kill can
\* hide one more call of each experiment from the engine that resumes.
SpendBound == spent < MaxCost + Parallel * Calls + Parallel * crashes

\* Worktrees in use at once: those of a round, or the two of a reproduction.
Width == IF Parallel < 2 THEN 2 ELSE Parallel

\* The engine that finishes a run leaves no worktree, not those of killed
\* engines either, unless it is killed itself before its sweep.  What stays is
\* a branch for each worktree in use at a kill, one for each reproduction that
\* could make only the first of its two worktrees, and a node that is never
\* decided for each experiment a kill cut.
FinishIsClean ==
  summary.finished =>
    /\ pc = "down" /\ worktrees # {} =>
         Cardinality(worktrees) <= Width * (crashes - 1) + leaks
    /\ Cardinality(branches \ Accepted) <= Width * crashes + leaks
    /\ Cardinality({n \in Nodes : node[n].status \in {"pending", "running", "evaluating"}})
         <= Parallel * crashes

\* A receipt agrees with the log, except that a reproduction may have raised
\* the grade since.
ReceiptsTellLog ==
  \A n \in Nodes : receipt[n] # NoReceipt =>
    /\ receipt[n].decision = node[n].status
    /\ receipt[n].grade \in {node[n].grade} \/ node[n].grade = "reproduced"

\* Every engine comes to its end and releases the lock, whatever fails on the
\* way.
EngineEnds == pc # "down" ~> pc = "down"

\* store.ts: "Single-writer: the engine process holds a lock": experiments work
\* and append while their engine holds it.
AppendsUnderLock ==
  pc = "down" => \A n \in Nodes : step[n] \in {"none", "over", "threw"}

=============================================================================
