------------------------------ MODULE Experiment ------------------------------
(***************************************************************************)
(* One experiment of src/engine/run-loop.ts with all it is judged by: the  *)
(* baseline, the agent's call, screening, benchmark, gates, withheld       *)
(* checks, threshold and grade.  RunLoop has the experiments of a run side *)
(* by side and takes the outcome of each check as given; here the checks   *)
(* are what they are, and the experiment is alone.                         *)
(*                                                                         *)
(* Simplifications: first round, so that there is no best score but the    *)
(* baseline; one agent call; no constraint on secondary metrics; the       *)
(* variables of a phase that is over go back to their initial values; the  *)
(* harness' life cycle is left out of the baseline, which it shares; what  *)
(* keeps a command's pipes open for a while only makes it a longer one.    *)
(***************************************************************************)
EXTENDS AgentStream, Screening, BenchHarness, BenchStats

VARIABLES
  phase,       \* where runOptimize and runOneExperiment are
  direction,   \* of the metric
  baseline,    \* its samples
  grade        \* of an accepted experiment

vars == <<agentVars, screenVars, harnessVars, phase, direction, baseline, grade>>

\* In whatever order: statistics sort them.
Measurements ==
  {s \in [1..Samples -> Values] : \A k \in 1..(Samples - 1) : s[k] <= s[k + 1]}

Init ==
  /\ AgentInit /\ ScreenInit /\ HarnessInit
  /\ phase = "baseline" /\ direction \in {"minimize", "maximize"}
  /\ baseline = <<>> /\ grade = "none"

\* Mutant of MeasureBaseline: what the retry measured is taken as it is.
MeasureBaselineOnce ==
  /\ phase = "baseline"
  /\ \E first, retry \in Measurements :
       LET measured == IF Stable(first) THEN first ELSE retry IN
       phase' = "agent" /\ baseline' = measured
  /\ UNCHANGED <<agentVars, screenVars, harnessVars, direction, grade>>

\* Measured again once when it is not stable, which then ends the run.
MeasureBaseline ==
  /\ phase = "baseline"
  /\ \E first, retry \in Measurements :
       LET measured == IF Stable(first) THEN first ELSE retry IN
       IF Stable(measured) THEN phase' = "agent" /\ baseline' = measured
       ELSE phase' = "aborted" /\ UNCHANGED baseline
  /\ UNCHANGED <<agentVars, screenVars, harnessVars, direction, grade>>

CallAgent ==
  /\ phase = "agent"
  /\ AgentStep
  /\ UNCHANGED <<screenVars, harnessVars, phase, direction, baseline, grade>>

\* SIGINT aborts the agent's call and nothing else of an experiment.
Interrupt ==
  /\ phase = "agent" /\ outcome = NoOutcome
  /\ Abort
  /\ UNCHANGED <<screenVars, harnessVars, phase, direction, baseline, grade>>

\* The call is over: what it used is forgotten.
AgentDone ==
  /\ phase = "agent" /\ outcome # NoOutcome
  /\ phase' = IF outcome.reason = "completed" THEN "screen" ELSE "failed"
  /\ host' = "none" /\ child' = "none" /\ lines' = <<>> /\ written' = 0 /\ read' = 0
  /\ carry' = <<>> /\ adapter' = Unheard
  /\ signal' = FALSE /\ timedOut' = FALSE /\ outcome' = NoOutcome
  /\ UNCHANGED <<screenVars, harnessVars, direction, baseline, grade>>

ScreenCandidate ==
  /\ phase = "screen"
  /\ Screen
  /\ phase' = IF verdict' = "clean" THEN "measure" ELSE "rejected"
  /\ UNCHANGED <<agentVars, harnessVars, direction, baseline, grade>>

Measure ==
  /\ phase = "measure"
  /\ MeasureStep \/ Environment
  /\ UNCHANGED <<agentVars, screenVars, phase, direction, baseline, grade>>

\* A measurement that failed rejects the experiment.
MeasureDone ==
  /\ phase = "measure" /\ stage = "ended"
  /\ phase' = IF samples = <<>> THEN "rejected" ELSE "gates"
  /\ stage' = "idle" /\ leader' = "none" /\ app' = "none"
  /\ server' = NoServer /\ taken' = FALSE
  /\ UNCHANGED <<agentVars, screenVars, samples, direction, baseline, grade>>

Check ==
  /\ phase = "gates"
  /\ IF ~GatesDone THEN RunGate /\ UNCHANGED phase
     ELSE IF GateFailed THEN phase' = "rejected" /\ UNCHANGED screenVars
     ELSE IF withheld = "none" THEN RunWithheld /\ UNCHANGED phase
     ELSE phase' = (IF withheld = "failed" THEN "rejected" ELSE "judge") /\ UNCHANGED screenVars
  /\ UNCHANGED <<agentVars, harnessVars, direction, baseline, grade>>

\* The threshold, and better than the target; then the grade.
Judge ==
  /\ phase = "judge"
  /\ IF Meaningful(baseline, samples, direction) /\ Gain(baseline, samples, direction) > 0
       THEN /\ phase' = "accepted"
            /\ grade' = IF ~Stable(samples) THEN "measured"
                        ELSE IF withheld = "passed" THEN "equivalent" ELSE "validated"
       ELSE phase' = "rejected" /\ UNCHANGED grade
  /\ UNCHANGED <<agentVars, screenVars, harnessVars, direction, baseline>>

\* A command whose end the engine awaits: set-up and samples of a measurement,
\* the agent, a gate, the withheld checks.
CommandAwaited ==
  \/ phase = "baseline"
  \/ phase = "agent" /\ child \notin {"none", "running"} /\ outcome = NoOutcome
  \/ phase = "measure" /\ stage \in {"idle", "warm", "sample"}
  \/ phase = "gates" /\ (~GatesDone \/ (~GateFailed /\ withheld = "none"))

\* Each runs in a shell with pipes, and the shell is all that its end or its
\* timeout ends: a process it leaves behind that never closes the pipes keeps
\* execa from ever settling, and the engine is held there.
Hold ==
  /\ CommandAwaited
  /\ phase' = "held"
  /\ UNCHANGED <<agentVars, screenVars, harnessVars, direction, baseline, grade>>

\* The engine's own steps.
Step ==
  \/ MeasureBaseline \/ CallAgent \/ AgentDone \/ ScreenCandidate
  \/ phase = "measure" /\ MeasureStep
       /\ UNCHANGED <<agentVars, screenVars, phase, direction, baseline, grade>>
  \/ MeasureDone \/ Check \/ Judge

Next ==
  \/ MeasureBaseline \/ CallAgent \/ Interrupt \/ AgentDone \/ ScreenCandidate
  \/ Measure \/ MeasureDone \/ Check \/ Judge \/ Hold

Spec == Init /\ [][Next]_vars

\* An engine that is not held goes on: what it awaits is a timeout, a shell
\* under one, or the two seconds of stopProcess.
FairSpec == Spec /\ WF_vars(Step)

-----------------------------------------------------------------------------
(* Properties *)

\* An accepted experiment has all its evidence: every protected file is as it
\* was pinned (or was staged under another name, which pins do not see), every
\* rejected pattern is one the agent had committed itself, what was flagged is
\* on the receipt, every gate passed, no withheld case failed, the grade
\* claims no more than that, and the baseline it beats was a stable one.
AcceptedIsSound ==
  phase = "accepted" =>
    /\ \A f \in DOMAIN Pins :
         head[f] = Pins[f] /\ (tree[f] = Pins[f] \/ tree[f] = Absent)
    /\ tree["src"] = "skip" => head["src"] = "skip"
    /\ (tree["lock"] # Base["lock"] => "dependency-change" \in risks)
    /\ (tree["src"] = "swallow" => "suppressed-errors" \in risks)
    /\ Len(gates) = Gates /\ \A k \in 1..Gates : gates[k]
    /\ withheld # "failed" /\ (grade = "equivalent" => withheld = "passed")
    /\ Stable(baseline) /\ (grade # "measured" => Stable(samples))

\* A win that is undone does not pass the regression check unseen: had its
\* samples become the stored baseline, the old ones would fail `ci verify` at
\* a tolerance up to the accepted minimum.  (For a metric that is maximised
\* the loss is a smaller percentage than the gain was; not so there.)
WinsGuarded ==
  phase = "accepted" /\ direction = "minimize" =>
    Regressed(samples, baseline, direction, MinImprovementPct)

\* Counting ranks gives the median of a resample as sorting the picks does.
ResampledMedian ==
  phase = "judge" =>
    \A picks \in [1..Samples -> 1..Samples] :
      ResampleMedian2(samples, picks) = Median2([k \in 1..Samples |-> samples[picks[k]]])

\* Whatever the agent, the application and the checks do, an experiment comes
\* to a decision, unless a process that one of its commands has left behind
\* holds the pipes of that command for ever.  (The application's pipes are no
\* such case: stopProcess gives them up.)
EvaluationEnds == <>(phase \in {"accepted", "rejected", "failed", "aborted", "held"})

=============================================================================
