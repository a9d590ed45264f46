---------------------------- MODULE RunLoopProofs ----------------------------
(***************************************************************************)
(* Theorems about RunLoop.                                                 *)
(***************************************************************************)
EXTENDS RunLoop, FiniteSetTheorems, WellFoundedInduction, TLAPS

\* Where the engine is while no experiment runs.
Alone == {"boot", "baseline", "measure", "loop", "launch", "winner",
          "second", "reproduce", "remove", "record", "grade", "refresh", "terminal"}

PcInv ==
  /\ pc \in Alone => \A n \in Nodes : step[n] = "none"
  /\ pc \in {"second", "reproduce", "remove", "record", "grade", "refresh"} =>
       engine.winner \in Accepted
  /\ pc = "launch" => engine.tried < MaxNodes

\* What is wrong is found before the candidate is scored.
Early == {"agent", "pins", "empty", "detector"}

\* What the phase of an experiment says of its node.
PhaseOK(n) ==
  /\ n > ids => /\ step[n] = "none" /\ node[n].status = "absent"
                /\ flaw[n] = "none" /\ receipt[n] = NoReceipt
  /\ step[n] \in {"provision", "create"} => node[n].status = "absent"
  /\ step[n] = "run" => node[n].status = "pending"
  /\ step[n] \in {"call", "charge", "agent"} => node[n].status = "running"
  /\ step[n] \in {"screen", "measure", "gates", "threshold", "accept"} =>
       node[n].status = "evaluating"
  /\ step[n] \in {"receipt", "destroy", "over"} => node[n].status \in Decided
  /\ step[n] = "threw" => node[n].status \in Decided \cup {"absent"}
  /\ step[n] \in {"none", "provision", "create", "run"} => calls[n] = 0
  /\ step[n] = "call" => calls[n] < Calls

PhaseInv == \A n \in Nodes : PhaseOK(n)

\* What each check leaves to the next.
EvidenceOK(n) ==
  /\ node[n].status \in {"absent", "pending", "running"} => node[n].score = NoScore
  /\ step[n] \in {"provision", "create", "run", "call"} => flaw[n] = "none"
  /\ step[n] = "charge" /\ calls[n] < Calls => flaw[n] = "none"
  /\ flaw[n] \in Early => node[n].score = NoScore
  /\ step[n] \in {"screen", "measure"} => node[n].score = NoScore
  /\ step[n] = "screen" => flaw[n] # "agent"
  /\ step[n] = "measure" => flaw[n] \notin Early
  /\ step[n] = "gates" => flaw[n] \notin Early \cup {"bench"}
  /\ step[n] = "threshold" => flaw[n] \in {"none", "noise"}
  /\ step[n] \in {"gates", "threshold", "accept"} => node[n].score # NoScore
  /\ step[n] = "accept" \/ node[n].status = "accepted" =>
       /\ flaw[n] = "none" /\ node[n].score # NoScore
       /\ BetterThan(node[n].score, Baseline)
  /\ node[n].grade # "none" <=> node[n].status = "accepted"

EvidenceInv == \A n \in Nodes : EvidenceOK(n)

-----------------------------------------------------------------------------
LEMMA NodesFacts == Nodes \subseteq Nat \ {0} /\ IsFiniteSet(Nodes)
<1>1. MaxRounds * Parallel \in Int
  BY LoopAssumption
<1>2. QED
  BY <1>1, FS_Interval DEF Nodes

-----------------------------------------------------------------------------
(* Types *)

\* The sets TypeOK is made of.
Summaries == [started : BOOLEAN, measured : BOOLEAN, round : 0..MaxRounds, cost : Nat,
              finished : BOOLEAN]
Experiments == [status : Statuses, score : 0..Baseline, grade : Grades,
                parent : Nodes \cup {0}, round : 0..MaxRounds]
Receipts == [decision : Decided \cup {"none"}, grade : Grades]
Engines == [target : 0..Baseline, tried : Nat, stale : Nat,
            total : Nat, receipts : SUBSET Nodes, winner : Nodes \cup {0}]
Points == Alone \cup {"down", "wait", "cleanup"}
Steps == {"none", "provision", "create", "run", "call", "charge",
          "agent", "screen", "measure", "gates", "threshold",
          "accept", "receipt", "destroy", "over", "threw"}

Typed ==
  /\ summary \in Summaries
  /\ node \in [Nodes -> Experiments]
  /\ receipt \in [Nodes -> Receipts]
  /\ worktrees \subseteq Int /\ branches \subseteq Int
  /\ pc \in Points
  /\ engine \in Engines
  /\ aborted \in BOOLEAN
  /\ step \in [Nodes -> Steps]
  /\ calls \in [Nodes -> 0..Calls]
  /\ flaw \in [Nodes -> Flaws \cup {"none"}]
  /\ ids \in Nat /\ spent \in Nat /\ crashes \in Nat /\ leaks \in Nat

LEMMA TypeParts == (TypeOK <=> Typed) /\ (TypeOK' <=> Typed')
<1>1. Points = {"down", "boot", "baseline", "measure", "loop", "launch", "wait", "winner",
                "second", "reproduce", "remove", "record", "grade", "refresh", "terminal",
                "cleanup"}
  BY DEF Points, Alone
<1>2. /\ {ids, spent, crashes, leaks} \subseteq Nat <=>
           ids \in Nat /\ spent \in Nat /\ crashes \in Nat /\ leaks \in Nat
      /\ {ids', spent', crashes', leaks'} \subseteq Nat <=>
           ids' \in Nat /\ spent' \in Nat /\ crashes' \in Nat /\ leaks' \in Nat
  OBVIOUS
<1>3. TypeOK <=> Typed
  BY <1>1, <1>2, Zenon DEF TypeOK, Typed, Summaries, Experiments, Receipts, Engines, Steps
<1>4. TypeOK' <=> Typed'
  BY <1>1, <1>2, Zenon DEF TypeOK, Typed, Summaries, Experiments, Receipts, Engines, Steps
<1> QED
  BY <1>3, <1>4

\* The constants, one by one.
LEMMA Constants ==
  /\ MaxRounds \in Nat \ {0} /\ Parallel \in Nat \ {0} /\ MaxNodes \in Nat \ {0}
  /\ PlateauRounds \in Nat \ {0} /\ Calls \in Nat \ {0} /\ MaxCost \in Nat \ {0}
  /\ Baseline \in Nat /\ MaxCrashes \in Nat
  /\ Flaws \subseteq Checks /\ Costs \subseteq {0, 1}
BY LoopAssumption DEF LoopAssumption

LEMMA Blank ==
  /\ NoNode \in Experiments /\ NoReceipt \in Receipts /\ Forgotten \in Engines
BY Constants DEF NoNode, NoReceipt, Forgotten, NoScore, Experiments, Receipts, Engines,
                 Statuses, Decided, Grades

LEMMA TypeInit == Init => TypeOK
<1> SUFFICES ASSUME Init PROVE TypeOK
  OBVIOUS
<1>1. summary \in Summaries
  BY Constants DEF Init, Summaries
<1>2. calls \in [Nodes -> 0..Calls] /\ step \in [Nodes -> Steps] /\ pc \in Points
  BY Constants DEF Init, Steps, Points
<1>3. node \in [Nodes -> Experiments] /\ receipt \in [Nodes -> Receipts] /\ engine \in Engines
  BY Blank DEF Init
<1> QED
  BY <1>1, <1>2, <1>3, TypeParts DEF Typed, Init

LEMMA AcceptedFacts == 
  ASSUME TypeOK
  PROVE  /\ Accepted \subseteq Nodes /\ Best \subseteq Accepted
         /\ BestScore \in 0..Baseline
         /\ Best # {} => \E n \in Best : BestScore = node[n].score
<1> USE DEF Accepted, Best
<1>1. CASE Best = {}
  BY <1>1, LoopAssumption DEF BestScore, NoScore
<1>2. CASE Best # {}
  <2>1. PICK n \in Best : n = CHOOSE m \in Best : TRUE
    BY <1>2
  <2>2. BestScore = node[n].score
    BY <1>2, <2>1 DEF BestScore
  <2>3. QED
    BY <1>2, <2>2 DEF TypeOK
<1>3. QED
  BY <1>1, <1>2

\* Only what is assigned changes in a record.
LEMMA ExperimentTypes ==
  ASSUME NEW e \in Experiments
  PROVE  /\ \A s \in Statuses : [e EXCEPT !.status = s] \in Experiments
         /\ \A x \in 0..Baseline : [e EXCEPT !.score = x] \in Experiments
         /\ \A g \in Grades : [e EXCEPT !.grade = g] \in Experiments
         /\ \A s \in Statuses, g \in Grades :
              [e EXCEPT !.status = s, !.grade = g] \in Experiments
         /\ \A p \in Nodes \cup {0}, r \in 0..MaxRounds :
              [e EXCEPT !.parent = p, !.round = r] \in Experiments
BY DEF Experiments

LEMMA SetStatusType ==
  ASSUME TypeOK, NEW n \in Nodes, NEW s \in Statuses, SetStatus(n, s)
  PROVE  node' \in [Nodes -> Experiments]
BY TypeParts, ExperimentTypes DEF Typed, SetStatus

LEMMA StepType ==
  ASSUME TypeOK, NEW n \in Nodes, NEW from, NEW to \in Steps, At(n, from, to)
  PROVE  step' \in [Nodes -> Steps] /\ step[n] = from /\ step' = [step EXCEPT ![n] = to]
BY TypeParts DEF Typed, At

LEMMA ExperimentType ==
  ASSUME TypeOK, PhaseInv, NEW n \in Nodes, ExperimentStep(n)
  PROVE  TypeOK'
<1> USE TypeParts, NodesFacts DEF Typed, files, user
<1> USE DEF Decided, Statuses, Grades
<1>1. CASE ProvisionNode(n)
  BY <1>1, StepType DEF ProvisionNode, Provision, Steps
<1>2. CASE CreateNode(n)
  BY <1>2, StepType, SetStatusType DEF CreateNode, Steps
<1>3. CASE RunNode(n)
  BY <1>3, StepType, SetStatusType DEF RunNode, Steps
<1>4. CASE CallAgent(n)
  <2>1. PICK cost \in Costs :
          /\ At(n, "call", IF cost > 0 THEN "charge" ELSE AfterCall(n))
          /\ spent' = spent + cost
          /\ engine' = [engine EXCEPT !.total = @ + cost]
    BY <1>4 DEF CallAgent
  <2>2. cost \in Nat
    BY Constants
  <2>3. engine' \in Engines
    BY <2>1, <2>2 DEF Engines
  <2>4. step' \in [Nodes -> Steps] /\ step[n] = "call"
    BY <2>1, StepType DEF AfterCall, Steps
  <2>5. calls' \in [Nodes -> 0..Calls]
    BY <1>4, <2>4, Constants DEF CallAgent, PhaseInv, PhaseOK
  <2>6. flaw' \in [Nodes -> Flaws \cup {"none"}]
    BY <1>4 DEF CallAgent
  <2> QED
    BY <1>4, <2>1, <2>2, <2>3, <2>4, <2>5, <2>6 DEF CallAgent
<1>5. CASE RecordCost(n)
  <2>1. summary' \in Summaries
    BY <1>5 DEF RecordCost, Summaries
  <2> QED
    BY <1>5, <2>1, StepType DEF RecordCost, Steps
<1>6. CASE CheckAgent(n)
  BY <1>6, StepType, SetStatusType DEF CheckAgent, Steps
<1>7. CASE Screen(n)
  BY <1>7, StepType, SetStatusType DEF Screen, Reject, Steps
<1>8. CASE Measure(n)
  <2>1. CASE flaw[n] = "bench"
    BY <1>8, <2>1, StepType, SetStatusType DEF Measure, Reject, Steps
  <2>2. CASE flaw[n] # "bench"
    <3>1. PICK score \in 1..Baseline : node' = [node EXCEPT ![n].score = score]
      BY <1>8, <2>2 DEF Measure
    <3>2. score \in 0..Baseline
      BY Constants
    <3>3. node' \in [Nodes -> Experiments]
      BY <3>1, <3>2, ExperimentTypes
    <3> QED
      BY <1>8, <2>2, <3>3, StepType DEF Measure, Steps
  <2> QED
    BY <2>1, <2>2
<1>9. CASE RunGates(n)
  BY <1>9, StepType, SetStatusType DEF RunGates, Reject, Steps
<1>10. CASE Decide(n)
  BY <1>10, StepType, SetStatusType DEF Decide, Reject, Steps
<1>11. CASE Accept(n)
  <2>1. PICK g \in Grades : node' = [node EXCEPT ![n].status = "accepted", ![n].grade = g]
    BY <1>11 DEF Accept
  <2>2. [node[n] EXCEPT !.status = "accepted", !.grade = g] \in Experiments
    BY ExperimentTypes
  <2>3. node' = [node EXCEPT ![n] = [node[n] EXCEPT !.status = "accepted", !.grade = g]]
    BY <2>1
  <2>4. node' \in [Nodes -> Experiments]
    BY <2>2, <2>3
  <2> QED
    BY <1>11, <2>4, StepType DEF Accept, Steps
<1>12. CASE Throw(n)
  BY <1>12, StepType, SetStatusType DEF Throw, Steps
<1>13. CASE WriteReceipt(n)
  <2>1. CASE At(n, "receipt", "destroy")
             /\ receipt' = [receipt EXCEPT ![n] =
                  [decision |-> Decision(node[n].status), grade |-> node[n].grade]]
             /\ engine' = [engine EXCEPT !.receipts = @ \cup {n}]
    <3>1. [decision |-> Decision(node[n].status), grade |-> node[n].grade] \in Receipts
      BY DEF Receipts, Decision, Experiments
    <3>2. receipt' \in [Nodes -> Receipts]
      BY <2>1, <3>1
    <3>3. engine' \in Engines
      BY <2>1 DEF Engines
    <3> QED
      BY <1>13, <2>1, <3>2, <3>3, StepType DEF WriteReceipt, Steps
  <2>2. CASE At(n, "receipt", "threw") /\ UNCHANGED <<receipt, engine>>
    BY <1>13, <2>2, StepType DEF WriteReceipt, Steps
  <2> QED
    BY <1>13, <2>1, <2>2 DEF WriteReceipt
<1>14. CASE DestroyWorktree(n)
  BY <1>14, StepType DEF DestroyWorktree, Destroy, Steps
<1> QED
  BY <1>1, <1>2, <1>3, <1>4, <1>5, <1>6, <1>7, <1>8, <1>9, <1>10, <1>11, <1>12, <1>13, <1>14
     DEF ExperimentStep

LEMMA ReplayTypes ==
  ASSUME NEW s \in Summaries
  PROVE  /\ [s EXCEPT !.started = TRUE] \in Summaries
         /\ [s EXCEPT !.measured = TRUE] \in Summaries
         /\ s.round < MaxRounds => [s EXCEPT !.round = @ + 1] \in Summaries
         /\ \A finished \in BOOLEAN : [s EXCEPT !.finished = finished] \in Summaries
<1>1. /\ [s EXCEPT !.started = TRUE] \in Summaries
      /\ [s EXCEPT !.measured = TRUE] \in Summaries
  BY DEF Summaries
<1>2. ASSUME s.round < MaxRounds PROVE [s EXCEPT !.round = @ + 1] \in Summaries
  <2>1. s.round \in 0..MaxRounds
    BY DEF Summaries
  <2>2. s.round + 1 \in 0..MaxRounds
    BY <1>2, <2>1, Constants
  <2> QED
    BY <2>2 DEF Summaries
<1>3. ASSUME NEW finished \in BOOLEAN PROVE [s EXCEPT !.finished = finished] \in Summaries
  BY DEF Summaries
<1> QED
  BY <1>1, <1>2, <1>3

LEMMA EngineType ==
  ASSUME TypeOK, PcInv, EngineStep
  PROVE  TypeOK'
<1> USE TypeParts DEF Typed, files, user, experiments, Go, Points, Alone
<1>0. Fresh \in Int /\ FreshWinner \in Int
  BY DEF Fresh, FreshWinner
<1>1. CASE RecordStart
  BY <1>1, ReplayTypes DEF RecordStart
<1>2. CASE ProvisionBaseline
  BY <1>2, <1>0 DEF ProvisionBaseline, Provision
<1>3. CASE MeasureBaseline
  BY <1>3, <1>0, ReplayTypes DEF MeasureBaseline, Destroy
<1>4. CASE Recount
  <2>1. Cardinality({n \in Nodes : node[n].status \notin {"absent", "pending"}}) \in Nat
    BY NodesFacts, FS_Subset, FS_CardinalityType
  <2>2. engine' \in Engines
    BY <1>4, <2>1 DEF Recount, Engines, Summaries
  <2> QED
    BY <1>4, <2>2 DEF Recount
<1>5. CASE StartRound
  BY <1>5, ReplayTypes DEF StartRound
<1>6. CASE EndLoop
  BY <1>6 DEF EndLoop
<1>7. CASE Launch
  <2> DEFINE left == MaxNodes - engine.tried
             many == IF Parallel <= left THEN Parallel ELSE left
             new == (ids + 1)..(ids + many)
  <2>1. many \in Nat
    <3>1. engine.tried \in Nat
      BY DEF Engines
    <3>2. engine.tried < MaxNodes
      BY <1>7 DEF Launch, PcInv
    <3> QED
      BY <3>1, <3>2, Constants
  <2>2. PICK parent \in [new -> Parents] :
          node' = [n \in Nodes |-> IF n \in new
                     THEN [NoNode EXCEPT !.parent = parent[n], !.round = summary.round]
                     ELSE node[n]]
    BY <1>7 DEF Launch
  <2>3. /\ step' = [n \in Nodes |-> IF n \in new THEN "provision" ELSE step[n]]
        /\ ids' = ids + many
        /\ engine' = [engine EXCEPT !.tried = @ + many, !.target = BestScore]
    BY <1>7 DEF Launch
  <2> HIDE DEF left, many, new
  <2>4. Parents \subseteq Nodes \cup {0}
    BY AcceptedFacts DEF Parents
  <2>5. node' \in [Nodes -> Experiments]
    BY <2>2, <2>4, Blank, ExperimentTypes DEF Summaries
  <2>6. engine' \in Engines
    <3>1. engine.tried \in Nat /\ BestScore \in 0..Baseline
      BY AcceptedFacts DEF Engines
    <3>2. engine.tried + many \in Nat
      BY <2>1, <3>1
    <3>3. engine' = [engine EXCEPT !.tried = engine.tried + many, !.target = BestScore]
      BY <2>3
    <3> QED
      BY <3>1, <3>2, <3>3 DEF Engines
  <2>7. step' \in [Nodes -> Steps] /\ ids' \in Nat
    BY <2>1, <2>3 DEF Steps
  <2> QED
    BY <1>7, <2>5, <2>6, <2>7 DEF Launch
<1>8. CASE SettleRound
  <2>1. engine' \in Engines /\ pc' \in Points
    BY <1>8 DEF SettleRound, Engines
  <2>2. step' \in [Nodes -> Steps] /\ calls' \in [Nodes -> 0..Calls]
    BY <1>8, Constants DEF SettleRound, Steps
  <2> QED
    BY <1>8, <2>1, <2>2 DEF SettleRound
<1>9. CASE FailRound
  BY <1>9 DEF FailRound
<1>10. CASE ProvisionFresh
  <2>1. engine' \in Engines
    BY <1>10, AcceptedFacts DEF ProvisionFresh, Engines
  <2> QED
    BY <1>10, <1>0, <2>1 DEF ProvisionFresh, Provision
<1>11. CASE ProvisionFreshWinner \/ SkipReproduction
  BY <1>11, <1>0 DEF ProvisionFreshWinner, SkipReproduction, Provision
<1>12. CASE RemoveFresh \/ RemoveFreshWinner \/ RecordReproduction
  BY <1>12, <1>0 DEF RemoveFresh, RemoveFreshWinner, RecordReproduction, Destroy
<1>13. CASE GradeWinner
  <2>1. node' \in [Nodes -> Experiments]
    BY <1>13, ExperimentTypes DEF GradeWinner, Grades, Engines
  <2> QED
    BY <1>13, <2>1 DEF GradeWinner
<1>14. CASE RefreshReceipt
  <2>1. CASE /\ engine.winner \in engine.receipts
             /\ receipt' = [receipt EXCEPT ![engine.winner].grade = node[engine.winner].grade]
    <3>1. engine.winner \in Nodes
      BY <2>1 DEF Engines
    <3>2. \A r \in Receipts, g \in Grades : [r EXCEPT !.grade = g] \in Receipts
      BY DEF Receipts
    <3>3. node[engine.winner].grade \in Grades
      BY <3>1 DEF Experiments
    <3>4. receipt' \in [Nodes -> Receipts]
      BY <2>1, <3>1, <3>2, <3>3
    <3> QED
      BY <1>14, <3>4 DEF RefreshReceipt
  <2>2. CASE UNCHANGED receipt
    BY <1>14, <2>2 DEF RefreshReceipt
  <2> QED
    BY <1>14, <2>1, <2>2 DEF RefreshReceipt
<1>15. CASE EndRun
  BY <1>15, ReplayTypes DEF EndRun
<1>16. CASE Cleanup
  BY <1>16 DEF Cleanup
<1> QED
  BY <1>1, <1>2, <1>3, <1>4, <1>5, <1>6, <1>7, <1>8, <1>9, <1>10, <1>11, <1>12, <1>13, <1>14,
     <1>15, <1>16 DEF EngineStep

LEMMA TypeNext == TypeOK /\ PcInv /\ PhaseInv /\ [Next]_vars => TypeOK'
<1> SUFFICES ASSUME TypeOK, PcInv, PhaseInv, [Next]_vars PROVE TypeOK'
  OBVIOUS
<1>1. CASE StartEngine
  <2>1. step' \in [Nodes -> Steps] /\ calls' \in [Nodes -> 0..Calls]
    BY <1>1, Constants DEF StartEngine, Steps
  <2> QED
    BY <1>1, <2>1, TypeParts, Blank DEF Typed, StartEngine, Go, files, Points, Alone
<1>2. CASE Interrupt
  BY <1>2, TypeParts DEF Typed, Interrupt, files, experiments
<1>3. CASE Crash
  <2>1. step' \in [Nodes -> Steps] /\ calls' \in [Nodes -> 0..Calls]
    BY <1>3, Constants DEF Crash, Steps
  <2> QED
    <3>1. crashes' \in Nat
      BY <1>3, TypeParts DEF Typed, Crash
    <3>2. pc' \in Points /\ engine' \in Engines /\ aborted' \in BOOLEAN
      BY <1>3, Blank DEF Crash, Points
    <3>3. UNCHANGED <<summary, node, files, flaw, ids, spent, leaks>>
      BY <1>3 DEF Crash
    <3> QED
      BY <2>1, <3>1, <3>2, <3>3, TypeParts DEF Typed, files
<1>4. CASE UNCHANGED vars
  BY <1>4, TypeParts DEF Typed, vars, files, experiments, user
<1> QED
  BY <1>1, <1>2, <1>3, <1>4, EngineType, ExperimentType DEF Next

-----------------------------------------------------------------------------
(* What a step leaves alone *)

\* A step of one experiment leaves the others alone.
LEMMA Elsewhere ==
  ASSUME TypeOK, NEW n \in Nodes, NEW m \in Nodes, m # n, ExperimentStep(n)
  PROVE  /\ node'[m] = node[m] /\ step'[m] = step[m] /\ calls'[m] = calls[m]
         /\ flaw'[m] = flaw[m] /\ receipt'[m] = receipt[m]
         /\ m \in branches' <=> m \in branches
         /\ m \in worktrees' <=> m \in worktrees
         /\ m \in engine'.receipts <=> m \in engine.receipts
<1> USE TypeParts DEF Typed, files, user, At, Engines
<1>1. CASE ProvisionNode(n)
  BY <1>1 DEF ProvisionNode, Provision
<1>2. CASE CreateNode(n)
  BY <1>2 DEF CreateNode, SetStatus
<1>3. CASE RunNode(n)
  BY <1>3 DEF RunNode, SetStatus
<1>4. CASE CallAgent(n)
  BY <1>4 DEF CallAgent
<1>5. CASE RecordCost(n)
  BY <1>5 DEF RecordCost
<1>6. CASE CheckAgent(n)
  BY <1>6 DEF CheckAgent, SetStatus
<1>7. CASE Screen(n)
  BY <1>7 DEF Screen, Reject, SetStatus
<1>8. CASE Measure(n)
  BY <1>8 DEF Measure, Reject, SetStatus
<1>9. CASE RunGates(n)
  BY <1>9 DEF RunGates, Reject, SetStatus
<1>10. CASE Decide(n)
  BY <1>10 DEF Decide, Reject, SetStatus
<1>11. CASE Accept(n)
  BY <1>11 DEF Accept
<1>12. CASE Throw(n)
  BY <1>12 DEF Throw, SetStatus
<1>13. CASE WriteReceipt(n)
  BY <1>13 DEF WriteReceipt
<1>14. CASE DestroyWorktree(n)
  BY <1>14 DEF DestroyWorktree, Destroy
<1> QED
  BY <1>1, <1>2, <1>3, <1>4, <1>5, <1>6, <1>7, <1>8, <1>9, <1>10, <1>11, <1>12, <1>13, <1>14
     DEF ExperimentStep

\* It does not touch what the engine decides by itself.
LEMMA EngineAlone ==
  ASSUME TypeOK, NEW n \in Nodes, ExperimentStep(n)
  PROVE  /\ UNCHANGED <<ids, pc, aborted, crashes, leaks>>
         /\ engine'.target = engine.target /\ engine'.tried = engine.tried
         /\ engine'.winner = engine.winner
         /\ summary'.round = summary.round /\ summary'.finished = summary.finished
<1> USE TypeParts DEF Typed, files, user, Engines, Summaries
<1>1. CASE ProvisionNode(n)
  BY <1>1 DEF ProvisionNode
<1>2. CASE CreateNode(n)
  BY <1>2 DEF CreateNode
<1>3. CASE RunNode(n)
  BY <1>3 DEF RunNode
<1>4. CASE CallAgent(n)
  BY <1>4 DEF CallAgent
<1>5. CASE RecordCost(n)
  BY <1>5 DEF RecordCost
<1>6. CASE CheckAgent(n)
  BY <1>6 DEF CheckAgent
<1>7. CASE Screen(n)
  BY <1>7 DEF Screen
<1>8. CASE Measure(n)
  BY <1>8 DEF Measure
<1>9. CASE RunGates(n)
  BY <1>9 DEF RunGates
<1>10. CASE Decide(n)
  BY <1>10 DEF Decide
<1>11. CASE Accept(n)
  BY <1>11 DEF Accept
<1>12. CASE Throw(n)
  BY <1>12 DEF Throw
<1>13. CASE WriteReceipt(n)
  BY <1>13 DEF WriteReceipt
<1>14. CASE DestroyWorktree(n)
  BY <1>14 DEF DestroyWorktree
<1> QED
  BY <1>1, <1>2, <1>3, <1>4, <1>5, <1>6, <1>7, <1>8, <1>9, <1>10, <1>11, <1>12, <1>13, <1>14
     DEF ExperimentStep

\* SetStatus changes nothing else of the node.
LEMMA StatusOnly ==
  ASSUME TypeOK, NEW n \in Nodes, NEW s, SetStatus(n, s)
  PROVE  /\ node'[n].status = s /\ node'[n].score = node[n].score
         /\ node'[n].grade = node[n].grade /\ node'[n].parent = node[n].parent
         /\ node'[n].round = node[n].round
BY TypeParts DEF Typed, Experiments, SetStatus

LEMMA Moved ==
  ASSUME TypeOK, NEW n \in Nodes, NEW from, NEW to, At(n, from, to)
  PROVE  step[n] = from /\ step'[n] = to
BY TypeParts DEF Typed, At

LEMMA AcceptOnly ==
  ASSUME TypeOK, NEW n \in Nodes, Accept(n)
  PROVE  /\ node'[n].status = "accepted" /\ node'[n].grade # "none"
         /\ node'[n].score = node[n].score
         /\ node'[n].parent = node[n].parent /\ node'[n].round = node[n].round
<1>1. PICK g \in {"measured", "equivalent", "validated"} :
        node' = [node EXCEPT ![n].status = "accepted", ![n].grade = g]
  BY DEF Accept
<1>2. node' = [node EXCEPT ![n] = [node[n] EXCEPT !.status = "accepted", !.grade = g]]
  BY <1>1
<1> QED
  BY <1>2, TypeParts DEF Typed, Experiments

LEMMA ScoreOnly ==
  ASSUME TypeOK, NEW n \in Nodes, NEW score \in 1..Baseline,
         node' = [node EXCEPT ![n].score = score]
  PROVE  /\ node'[n].score = score /\ node'[n].score # NoScore
         /\ node'[n].status = node[n].status /\ node'[n].grade = node[n].grade
         /\ node'[n].parent = node[n].parent /\ node'[n].round = node[n].round
BY Constants, TypeParts DEF Typed, Experiments, NoScore

\* A call, charged or not; the last one leaves a candidate.
LEMMA CallOnly ==
  ASSUME TypeOK, NEW n \in Nodes, CallAgent(n), calls[n] < Calls
  PROVE  /\ step[n] = "call" /\ calls'[n] = calls[n] + 1 /\ calls'[n] <= Calls
         /\ \E cost \in {0, 1} :
              /\ spent' = spent + cost /\ engine' = [engine EXCEPT !.total = @ + cost]
              /\ step' = [step EXCEPT ![n] =
                   IF cost = 1 THEN "charge" ELSE IF calls'[n] < Calls THEN "call" ELSE "agent"]
         /\ calls'[n] < Calls => flaw'[n] = flaw[n]
         /\ UNCHANGED <<summary, node, receipt, worktrees, branches>>
<1>1. PICK cost \in Costs :
        /\ At(n, "call", IF cost > 0 THEN "charge" ELSE AfterCall(n))
        /\ spent' = spent + cost
        /\ engine' = [engine EXCEPT !.total = @ + cost]
  BY DEF CallAgent
<1>2. cost \in {0, 1}
  BY Constants
<1>3. step[n] = "call" /\ step' = [step EXCEPT ![n] = IF cost > 0 THEN "charge" ELSE AfterCall(n)]
  BY <1>1 DEF At
<1>4. calls'[n] = calls[n] + 1 /\ calls'[n] <= Calls
  BY Constants, TypeParts DEF Typed, CallAgent
<1>5. calls'[n] < Calls => flaw'[n] = flaw[n]
  BY <1>4, Constants, TypeParts DEF Typed, CallAgent
<1>6. step' = [step EXCEPT ![n] =
        IF cost = 1 THEN "charge" ELSE IF calls'[n] < Calls THEN "call" ELSE "agent"]
  <2>1. cost > 0 <=> cost = 1
    BY <1>2
  <2> QED
    BY <1>3, <2>1 DEF AfterCall
<1>7. UNCHANGED <<summary, node, receipt, worktrees, branches>>
  BY DEF CallAgent, files
<1> QED
  BY <1>1, <1>2, <1>3, <1>4, <1>5, <1>6, <1>7

-----------------------------------------------------------------------------
(* Phases *)

\* An experiment that takes a step has been launched.
LEMMA Launched ==
  ASSUME TypeOK, NEW n \in Nodes, PhaseOK(n), ExperimentStep(n)
  PROVE  step[n] # "none" /\ n <= ids
<1> USE TypeParts, NodesFacts DEF Typed, PhaseOK, At
<1>1. CASE ProvisionNode(n)
  BY <1>1 DEF ProvisionNode, Provision
<1>2. CASE CreateNode(n)
  BY <1>2 DEF CreateNode
<1>3. CASE RunNode(n)
  BY <1>3 DEF RunNode
<1>4. CASE CallAgent(n)
  BY <1>4 DEF CallAgent, AfterCall
<1>5. CASE RecordCost(n)
  BY <1>5 DEF RecordCost
<1>6. CASE CheckAgent(n)
  BY <1>6 DEF CheckAgent
<1>7. CASE Screen(n)
  BY <1>7 DEF Screen, Reject
<1>8. CASE Measure(n)
  BY <1>8 DEF Measure, Reject
<1>9. CASE RunGates(n)
  BY <1>9 DEF RunGates, Reject
<1>10. CASE Decide(n)
  BY <1>10 DEF Decide, Reject
<1>11. CASE Accept(n)
  BY <1>11 DEF Accept
<1>12. CASE Throw(n)
  BY <1>12 DEF Throw
<1>13. CASE WriteReceipt(n)
  BY <1>13 DEF WriteReceipt
<1>14. CASE DestroyWorktree(n)
  BY <1>14 DEF DestroyWorktree, Destroy
<1> QED
  BY <1>1, <1>2, <1>3, <1>4, <1>5, <1>6, <1>7, <1>8, <1>9, <1>10, <1>11, <1>12, <1>13, <1>14
     DEF ExperimentStep

\* It stays one of the round until the round is settled.
LEMMA StaysBusy ==
  ASSUME TypeOK, NEW n \in Nodes, ExperimentStep(n)
  PROVE  step'[n] # "none"
<1> USE Moved
<1>1. CASE ProvisionNode(n)
  BY <1>1 DEF ProvisionNode, Provision
<1>2. CASE CreateNode(n)
  BY <1>2 DEF CreateNode
<1>3. CASE RunNode(n)
  BY <1>3 DEF RunNode
<1>4. CASE CallAgent(n)
  <2>1. PICK cost \in Costs : At(n, "call", IF cost > 0 THEN "charge" ELSE AfterCall(n))
    BY <1>4 DEF CallAgent
  <2> QED
    BY <2>1, Moved DEF AfterCall
<1>5. CASE RecordCost(n)
  BY <1>5 DEF RecordCost
<1>6. CASE CheckAgent(n)
  BY <1>6 DEF CheckAgent
<1>7. CASE Screen(n)
  BY <1>7 DEF Screen, Reject
<1>8. CASE Measure(n)
  BY <1>8 DEF Measure, Reject
<1>9. CASE RunGates(n)
  BY <1>9 DEF RunGates, Reject
<1>10. CASE Decide(n)
  BY <1>10 DEF Decide, Reject
<1>11. CASE Accept(n)
  BY <1>11 DEF Accept
<1>12. CASE Throw(n)
  BY <1>12 DEF Throw
<1>13. CASE WriteReceipt(n)
  BY <1>13 DEF WriteReceipt
<1>14. CASE DestroyWorktree(n)
  BY <1>14 DEF DestroyWorktree, Destroy
<1> QED
  BY <1>1, <1>2, <1>3, <1>4, <1>5, <1>6, <1>7, <1>8, <1>9, <1>10, <1>11, <1>12, <1>13, <1>14
     DEF ExperimentStep

LEMMA PhaseMoves ==
  ASSUME TypeOK, NEW n \in Nodes, PhaseOK(n), ExperimentStep(n)
  PROVE  PhaseOK(n)'
<1> USE TypeParts, NodesFacts, StatusOnly, Moved DEF Typed, files, user, PhaseOK, Decided
<1>1. CASE ProvisionNode(n)
  BY <1>1 DEF ProvisionNode, Provision
<1>2. CASE CreateNode(n)
  BY <1>2 DEF CreateNode
<1>3. CASE RunNode(n)
  BY <1>3, Constants DEF RunNode
<1>4. CASE CallAgent(n)
  <2>1. calls[n] < Calls
    BY <1>4 DEF CallAgent
  <2>2. step'[n] \in {"call", "charge", "agent"} /\ (step'[n] = "call" => calls'[n] < Calls)
    BY <1>4, <2>1, CallOnly
  <2>3. n <= ids /\ node'[n].status = "running" /\ ids' = ids
    BY <1>4, Launched DEF CallAgent, ExperimentStep
  <2> QED
    BY <2>2, <2>3
<1>5. CASE RecordCost(n)
  BY <1>5 DEF RecordCost
<1>6. CASE CheckAgent(n)
  BY <1>6 DEF CheckAgent
<1>7. CASE Screen(n)
  BY <1>7 DEF Screen, Reject
<1>8. CASE Measure(n)
  <2>1. CASE flaw[n] = "bench"
    BY <1>8, <2>1 DEF Measure, Reject
  <2>2. CASE flaw[n] # "bench"
    <3>1. PICK score \in 1..Baseline : node' = [node EXCEPT ![n].score = score]
      BY <1>8, <2>2 DEF Measure
    <3>2. node'[n].status = node[n].status /\ node'[n].score # NoScore /\ node'[n].grade = node[n].grade
      BY <3>1, ScoreOnly
    <3> QED
      BY <1>8, <2>2, <3>2 DEF Measure
  <2> QED
    BY <2>1, <2>2
<1>9. CASE RunGates(n)
  BY <1>9, Constants DEF RunGates, Reject, Checks
<1>10. CASE Decide(n)
  BY <1>10 DEF Decide, Reject, Improves
<1>11. CASE Accept(n)
  <2>1. step[n] = "accept" /\ step'[n] = "receipt" /\ ids' = ids /\ flaw' = flaw /\ receipt' = receipt
    BY <1>11 DEF Accept
  <2>2. node'[n].status = "accepted" /\ node'[n].score = node[n].score /\ node'[n].grade # "none"
    BY <1>11, AcceptOnly
  <2> QED
    BY <2>1, <2>2
<1>12. CASE Throw(n)
  BY <1>12 DEF Throw
<1>13. CASE WriteReceipt(n)
  BY <1>13 DEF WriteReceipt
<1>14. CASE DestroyWorktree(n)
  BY <1>14 DEF DestroyWorktree, Destroy
<1> QED
  BY <1>1, <1>2, <1>3, <1>4, <1>5, <1>6, <1>7, <1>8, <1>9, <1>10, <1>11, <1>12, <1>13, <1>14
     DEF ExperimentStep

-----------------------------------------------------------------------------
(* Evidence *)

LEMMA EvidenceMoves ==
  ASSUME TypeOK, TypeOK', NEW n \in Nodes, PhaseOK(n), EvidenceOK(n), ExperimentStep(n)
  PROVE  EvidenceOK(n)'
<1> USE TypeParts, NodesFacts, StatusOnly, Moved DEF Typed, files, user, PhaseOK, EvidenceOK, Decided, Early, NoScore
<1>1. CASE ProvisionNode(n)
  BY <1>1 DEF ProvisionNode, Provision
<1>2. CASE CreateNode(n)
  BY <1>2 DEF CreateNode
<1>3. CASE RunNode(n)
  BY <1>3, Constants DEF RunNode
<1>4. CASE CallAgent(n)
  BY <1>4 DEF CallAgent, AfterCall
<1>5. CASE RecordCost(n)
  BY <1>5 DEF RecordCost
<1>6. CASE CheckAgent(n)
  BY <1>6 DEF CheckAgent
<1>7. CASE Screen(n)
  BY <1>7 DEF Screen, Reject
<1>8. CASE Measure(n)
  <2>1. CASE flaw[n] = "bench"
    BY <1>8, <2>1 DEF Measure, Reject
  <2>2. CASE flaw[n] # "bench"
    <3>1. PICK score \in 1..Baseline : node' = [node EXCEPT ![n].score = score]
      BY <1>8, <2>2 DEF Measure
    <3>2. node'[n].status = node[n].status /\ node'[n].score # NoScore /\ node'[n].grade = node[n].grade
      BY <3>1, ScoreOnly
    <3> QED
      BY <1>8, <2>2, <3>2 DEF Measure
  <2> QED
    BY <2>1, <2>2
<1>9. CASE RunGates(n)
  <2>1. CASE flaw[n] \in {"constraint", "gate", "withheld"}
    BY <1>9, <2>1 DEF RunGates, Reject
  <2>2. CASE flaw[n] \notin {"constraint", "gate", "withheld"}
    <3>1. flaw[n] \in Checks \cup {"none"} /\ step[n] = "gates"
      BY <1>9, Constants DEF RunGates, Reject
    <3>2. flaw[n] \in {"none", "noise"}
      BY <2>2, <3>1 DEF Checks
    <3>3. step'[n] = "threshold" /\ UNCHANGED <<node, flaw, calls>>
      BY <1>9, <2>2 DEF RunGates
    <3> QED
      BY <3>1, <3>2, <3>3
  <2> QED
    BY <2>1, <2>2
<1>10. CASE Decide(n)
  BY <1>10 DEF Decide, Reject, Improves
<1>11. CASE Accept(n)
  <2>1. step[n] = "accept" /\ step'[n] = "receipt" /\ ids' = ids /\ flaw' = flaw /\ receipt' = receipt
    BY <1>11 DEF Accept
  <2>2. node'[n].status = "accepted" /\ node'[n].score = node[n].score /\ node'[n].grade # "none"
    BY <1>11, AcceptOnly
  <2> QED
    BY <2>1, <2>2
<1>12. CASE Throw(n)
  BY <1>12 DEF Throw
<1>13. CASE WriteReceipt(n)
  BY <1>13 DEF WriteReceipt
<1>14. CASE DestroyWorktree(n)
  BY <1>14 DEF DestroyWorktree, Destroy
<1> QED
  BY <1>1, <1>2, <1>3, <1>4, <1>5, <1>6, <1>7, <1>8, <1>9, <1>10, <1>11, <1>12, <1>13, <1>14
     DEF ExperimentStep

-----------------------------------------------------------------------------
(* The steps of the engine *)

\* The steps that leave the experiments and what is recorded of them alone.
Bookkeeping ==
  \/ RecordStart \/ ProvisionBaseline \/ MeasureBaseline \/ Recount
  \/ StartRound \/ EndLoop \/ FailRound
  \/ ProvisionFresh \/ ProvisionFreshWinner \/ SkipReproduction
  \/ RemoveFresh \/ RemoveFreshWinner \/ RecordReproduction
  \/ EndRun \/ Cleanup \/ Interrupt \/ UNCHANGED vars

\* The steps after which no experiment is under way.
Reset == StartEngine \/ SettleRound \/ Crash

LEMMA NextCases ==
  ASSUME [Next]_vars
  PROVE  \/ Bookkeeping \/ Reset \/ Launch \/ GradeWinner \/ RefreshReceipt
         \/ \E n \in Nodes : ExperimentStep(n)
BY DEF Next, EngineStep, Bookkeeping, Reset

LEMMA Booked ==
  ASSUME TypeOK, Bookkeeping
  PROVE  /\ UNCHANGED <<node, receipt, step, calls, flaw, ids>>
         /\ engine'.receipts = engine.receipts /\ engine'.target = engine.target
<1>1. engine' = engine \/ Recount \/ ProvisionFresh
  BY DEF Bookkeeping, RecordStart, ProvisionBaseline, MeasureBaseline, StartRound, EndLoop,
         FailRound, ProvisionFreshWinner, SkipReproduction, RemoveFresh, RemoveFreshWinner,
         RecordReproduction, EndRun, Cleanup, Interrupt, vars, user
<1>2. engine'.receipts = engine.receipts /\ engine'.target = engine.target
  BY <1>1, TypeParts DEF Typed, Engines, Recount, ProvisionFresh
<1>3. UNCHANGED <<node, receipt, step, calls, flaw, ids>>
  BY DEF Bookkeeping, RecordStart, ProvisionBaseline, MeasureBaseline, Recount, StartRound,
         EndLoop, FailRound, ProvisionFresh, ProvisionFreshWinner, SkipReproduction, RemoveFresh,
         RemoveFreshWinner, RecordReproduction, EndRun, Cleanup, Interrupt, vars, user, files,
         experiments
<1> QED
  BY <1>2, <1>3

LEMMA ResetOnly ==
  ASSUME TypeOK, Reset
  PROVE  /\ UNCHANGED <<summary, node, receipt, worktrees, branches, flaw, ids, spent>>
         /\ step' = [n \in Nodes |-> "none"] /\ calls' = [n \in Nodes |-> 0]
         /\ engine'.receipts \subseteq engine.receipts
<1>1. engine'.receipts \subseteq engine.receipts
  BY TypeParts DEF Typed, Engines, Reset, StartEngine, SettleRound, Crash, Forgotten
<1> QED
  BY <1>1 DEF Reset, StartEngine, SettleRound, Crash, files

\* What Launch makes of an experiment: a new one, or none.
LEMMA LaunchOnly ==
  ASSUME TypeOK, PcInv, Launch, NEW n \in Nodes
  PROVE  \/ /\ n > ids /\ n <= ids' /\ step'[n] = "provision"
            /\ node'[n].status = "absent" /\ node'[n].score = NoScore
            /\ node'[n].grade = "none" /\ node'[n].parent \in Accepted \cup {0}
            /\ node'[n].round = summary.round
         \/ node'[n] = node[n] /\ step'[n] = step[n]
<1> DEFINE left == MaxNodes - engine.tried
           many == IF Parallel <= left THEN Parallel ELSE left
           new == (ids + 1)..(ids + many)
<1>1. PICK parent \in [new -> Parents] :
        node' = [m \in Nodes |-> IF m \in new
                   THEN [NoNode EXCEPT !.parent = parent[m], !.round = summary.round]
                   ELSE node[m]]
  BY DEF Launch
<1>2. step' = [m \in Nodes |-> IF m \in new THEN "provision" ELSE step[m]] /\ ids' = ids + many
  BY DEF Launch
<1>3. many \in Int /\ ids \in Nat /\ n \in Nat
  BY Constants, NodesFacts, TypeParts DEF Typed, Engines
<1>4. n \in new => n > ids /\ n <= ids + many
  BY <1>3
<1> HIDE DEF left, many, new
<1>5. Parents \subseteq Accepted \cup {0}
  BY AcceptedFacts DEF Parents
<1> QED
  BY <1>1, <1>2, <1>4, <1>5 DEF NoNode, NoScore

LEMMA LaunchIds ==
  ASSUME TypeOK, PcInv, Launch
  PROVE  /\ ids' \in Nat /\ ids' >= ids /\ UNCHANGED <<calls, flaw, receipt, branches, worktrees, summary>>
         /\ engine'.receipts = engine.receipts /\ engine'.target = BestScore
         /\ \A n \in Nodes : step[n] = "none"
<1>1. engine.tried \in Nat /\ engine.tried < MaxNodes
  BY TypeParts DEF Typed, Engines, PcInv, Launch, Go
<1>2. \A n \in Nodes : step[n] = "none"
  BY DEF Launch, PcInv, Go, Alone
<1> DEFINE left == MaxNodes - engine.tried
           many == IF Parallel <= left THEN Parallel ELSE left
<1>3. many \in Nat /\ ids \in Nat
  BY <1>1, Constants, TypeParts DEF Typed
<1>4. /\ ids' = ids + many /\ engine' = [engine EXCEPT !.tried = @ + many, !.target = BestScore]
      /\ UNCHANGED <<calls, flaw, receipt, branches, worktrees, summary>>
  BY DEF Launch, files
<1> HIDE DEF left, many
<1> QED
  BY <1>2, <1>3, <1>4, TypeParts DEF Typed, Engines

LEMMA GradeOnly ==
  ASSUME TypeOK, PcInv, GradeWinner
  PROVE  /\ \A n \in Nodes : /\ node'[n].status = node[n].status /\ node'[n].score = node[n].score
                             /\ node'[n].parent = node[n].parent /\ node'[n].round = node[n].round
                             /\ \/ node'[n].grade = node[n].grade
                                \/ node'[n].grade = "reproduced" /\ node[n].status = "accepted"
         /\ UNCHANGED <<summary, receipt, worktrees, branches, engine, step, calls, flaw, ids, spent, crashes>>
<1>1. engine.winner \in Nodes /\ node[engine.winner].status = "accepted"
  BY DEF GradeWinner, Go, PcInv, Accepted
<1> QED
  BY <1>1, TypeParts DEF Typed, Experiments, GradeWinner, files, experiments, user

LEMMA RefreshOnly ==
  ASSUME TypeOK, PcInv, RefreshReceipt
  PROVE  /\ \A n \in Nodes :
              \/ receipt'[n] = receipt[n]
              \/ /\ n \in engine.receipts /\ node[n].status = "accepted"
                 /\ receipt'[n].decision = receipt[n].decision
                 /\ receipt'[n].grade = node[n].grade
         /\ UNCHANGED <<summary, node, worktrees, branches, engine, step, calls, flaw, ids, spent, crashes>>
<1>1. engine.winner \in Nodes /\ node[engine.winner].status = "accepted"
  BY DEF RefreshReceipt, Go, PcInv, Accepted
<1> QED
  BY <1>1, TypeParts DEF Typed, Receipts, RefreshReceipt, experiments, user

-----------------------------------------------------------------------------
(* Phases and evidence are kept *)

LEMMA PhaseNext ==
  ASSUME TypeOK, PcInv, PhaseInv, [Next]_vars
  PROVE  PhaseInv'
<1> SUFFICES ASSUME NEW n \in Nodes PROVE PhaseOK(n)'
  BY DEF PhaseInv
<1>0. PhaseOK(n) /\ n \in Nat /\ ids \in Nat
  BY NodesFacts, TypeParts DEF Typed, PhaseInv
<1>1. CASE Bookkeeping
  BY <1>0, <1>1, Booked DEF PhaseOK
<1>2. CASE Reset
  BY <1>0, <1>2, ResetOnly DEF PhaseOK
<1>3. CASE Launch
  <2>1. UNCHANGED <<calls, flaw, receipt>> /\ ids' \in Nat /\ ids' >= ids /\ step[n] = "none"
    BY <1>3, LaunchIds
  <2> QED
    BY <1>0, <1>3, <2>1, LaunchOnly DEF PhaseOK
<1>4. CASE GradeWinner
  BY <1>0, <1>4, GradeOnly DEF PhaseOK
<1>5. CASE RefreshReceipt
  BY <1>0, <1>5, RefreshOnly DEF PhaseOK
<1>6. ASSUME NEW m \in Nodes, ExperimentStep(m) PROVE PhaseOK(n)'
  <2>1. CASE n = m
    BY <1>0, <1>6, <2>1, PhaseMoves
  <2>2. CASE n # m
    BY <1>0, <1>6, <2>2, Elsewhere, EngineAlone DEF PhaseOK
  <2> QED
    BY <2>1, <2>2
<1> QED
  BY <1>1, <1>2, <1>3, <1>4, <1>5, <1>6, NextCases

LEMMA EvidenceNext ==
  ASSUME TypeOK, TypeOK', PcInv, PhaseInv, EvidenceInv, [Next]_vars
  PROVE  EvidenceInv'
<1> SUFFICES ASSUME NEW n \in Nodes PROVE EvidenceOK(n)'
  BY DEF EvidenceInv
<1>0. EvidenceOK(n) /\ PhaseOK(n)
  BY DEF EvidenceInv, PhaseInv
<1>1. CASE Bookkeeping
  BY <1>0, <1>1, Booked DEF EvidenceOK
<1>2. CASE Reset
  BY <1>0, <1>2, ResetOnly DEF EvidenceOK
<1>3. CASE Launch
  <2>1. flaw' = flaw /\ step[n] = "none"
    BY <1>3, LaunchIds
  <2> QED
    BY <1>0, <1>3, <2>1, LaunchOnly DEF EvidenceOK, PhaseOK
<1>4. CASE GradeWinner
  BY <1>0, <1>4, GradeOnly DEF EvidenceOK
<1>5. CASE RefreshReceipt
  BY <1>0, <1>5 DEF RefreshReceipt, EvidenceOK, experiments
<1>6. ASSUME NEW m \in Nodes, ExperimentStep(m) PROVE EvidenceOK(n)'
  <2>1. CASE n = m
    BY <1>0, <1>6, <2>1, EvidenceMoves
  <2>2. CASE n # m
    BY <1>0, <1>6, <2>2, Elsewhere DEF EvidenceOK
  <2> QED
    BY <2>1, <2>2
<1> QED
  BY <1>1, <1>2, <1>3, <1>4, <1>5, <1>6, NextCases

-----------------------------------------------------------------------------
(* Where the engine is *)

LEMMA Final ==
  ASSUME TypeOK, PcInv, PhaseInv, [Next]_vars, NEW n \in Nodes, node[n].status \in Decided
  PROVE  /\ node'[n].status = node[n].status /\ node'[n].score = node[n].score
         /\ node'[n].round = node[n].round
<1>0. PhaseOK(n) /\ n \in Nat
  BY NodesFacts DEF PhaseInv
<1>1. CASE Bookkeeping \/ Reset
  BY <1>1, Booked, ResetOnly
<1>2. CASE Launch
  BY <1>0, <1>2, LaunchOnly, TypeParts DEF Typed, PhaseOK, Decided
<1>3. CASE GradeWinner \/ RefreshReceipt
  BY <1>3, GradeOnly, RefreshOnly
<1>4. ASSUME NEW m \in Nodes, m # n, ExperimentStep(m)
      PROVE  node'[n] = node[n]
  BY <1>4, Elsewhere
<1>5. ASSUME ExperimentStep(n)
      PROVE  node'[n] = node[n]
  <2>1. step[n] \in {"receipt", "destroy", "over", "threw", "none"}
    BY <1>0, TypeParts DEF Typed, Steps, PhaseOK, Decided
  <2>2. WriteReceipt(n) \/ DestroyWorktree(n)
    BY <1>5, <2>1, Moved
       DEF ExperimentStep, ProvisionNode, CreateNode, RunNode, CallAgent, RecordCost, CheckAgent,
           Screen, Measure, RunGates, Decide, Accept, Throw, Reject, At
  <2> QED
    BY <2>2 DEF WriteReceipt, DestroyWorktree
<1> QED
  BY <1>1, <1>2, <1>3, <1>4, <1>5, NextCases

LEMMA AcceptedGrows ==
  ASSUME TypeOK, PcInv, PhaseInv, [Next]_vars
  PROVE  Accepted \subseteq Accepted'
BY Final DEF Accepted, Decided

LEMMA PcNext ==
  ASSUME TypeOK, PcInv, PhaseInv, [Next]_vars
  PROVE  PcInv'
<1> USE DEF PcInv, Alone
<1>1. ASSUME NEW n \in Nodes, ExperimentStep(n) PROVE PcInv'
  <2>1. step[n] # "none" /\ pc' = pc
    BY <1>1, Launched, EngineAlone DEF PhaseInv
  <2> QED
    BY <2>1
<1>2. CASE StartEngine
  BY <1>2 DEF StartEngine, Go
<1>3. CASE Crash
  BY <1>3 DEF Crash
<1>4. CASE UNCHANGED vars
  BY <1>4, AcceptedGrows DEF vars, experiments
<1>5. CASE Interrupt
  BY <1>5, AcceptedGrows DEF Interrupt, experiments
<1> USE DEF Go, experiments
<1>6. CASE RecordStart \/ ProvisionBaseline \/ MeasureBaseline \/ Recount \/ EndLoop
           \/ FailRound \/ SkipReproduction \/ EndRun \/ Cleanup
  BY <1>6 DEF RecordStart, ProvisionBaseline, MeasureBaseline, Recount, EndLoop, FailRound,
              SkipReproduction, EndRun, Cleanup
<1>7. CASE StartRound
  BY <1>7 DEF StartRound
<1>8. CASE Launch
  BY <1>8 DEF Launch
<1>9. CASE SettleRound
  BY <1>9 DEF SettleRound
<1>10. CASE ProvisionFresh
  <2>1. engine'.winner \in Accepted'
    BY <1>10, AcceptedGrows, AcceptedFacts, TypeParts DEF Typed, Engines, ProvisionFresh
  <2> QED
    BY <1>10, <2>1 DEF ProvisionFresh
<1>11. CASE ProvisionFreshWinner \/ RemoveFresh \/ RemoveFreshWinner \/ RecordReproduction
  BY <1>11, AcceptedGrows
     DEF ProvisionFreshWinner, RemoveFresh, RemoveFreshWinner, RecordReproduction
<1>12. CASE GradeWinner
  BY <1>12, AcceptedGrows DEF GradeWinner
<1>13. CASE RefreshReceipt
  BY <1>13, AcceptedGrows DEF RefreshReceipt
<1> QED
  BY <1>1, <1>2, <1>3, <1>4, <1>5, <1>6, <1>7, <1>8, <1>9, <1>10, <1>11, <1>12, <1>13
     DEF Next, EngineStep

-----------------------------------------------------------------------------
(* Receipts *)

\* A receipt in the memory of the engine is on disk, and tells the log.
ReceiptOK(n) ==
  /\ receipt[n] # NoReceipt =>
       /\ receipt[n].decision = node[n].status
       /\ receipt[n].grade = node[n].grade \/ node[n].grade = "reproduced"
  /\ n \in engine.receipts => receipt[n] # NoReceipt

ReceiptInv == \A n \in Nodes : ReceiptOK(n)

\* Only a decided node has a receipt.
LEMMA ReceiptDecided ==
  ASSUME TypeOK, NEW n \in Nodes, ReceiptOK(n), receipt[n] # NoReceipt
  PROVE  node[n].status \in Decided
BY TypeParts DEF Typed, Experiments, Receipts, ReceiptOK, Decided, Statuses

\* Before its receipt is written, a step of an experiment does not touch it, nor
\* the engine's memory of receipts; after its decision, not the node.
LEMMA ReceiptMoves ==
  ASSUME TypeOK, NEW n \in Nodes, PhaseOK(n), ReceiptOK(n), ExperimentStep(n)
  PROVE  ReceiptOK(n)'
<1>1. CASE WriteReceipt(n)
  <2>1. CASE UNCHANGED <<receipt, engine>>
    BY <1>1, <2>1 DEF WriteReceipt, ReceiptOK
  <2>2. CASE receipt' = [receipt EXCEPT ![n] =
               [decision |-> Decision(node[n].status), grade |-> node[n].grade]]
    <3>1. receipt'[n] = [decision |-> Decision(node[n].status), grade |-> node[n].grade]
      BY <2>2, TypeParts DEF Typed
    <3>2. step[n] = "receipt"
      BY <1>1 DEF WriteReceipt, At
    <3>3. node[n].status \in Decided /\ node' = node
      BY <1>1, <3>2 DEF WriteReceipt, PhaseOK
    <3>4. Decision(node[n].status) = node[n].status
      BY <3>3 DEF Decision, Decided
    <3>5. receipt'[n] # NoReceipt
      BY <3>1, <3>3, <3>4 DEF NoReceipt, Decided
    <3> QED
      BY <3>1, <3>3, <3>4, <3>5 DEF ReceiptOK
  <2> QED
    BY <1>1, <2>1, <2>2 DEF WriteReceipt
<1>2. CASE DestroyWorktree(n)
  BY <1>2 DEF DestroyWorktree, ReceiptOK
<1>3. CASE ~WriteReceipt(n) /\ ~DestroyWorktree(n)
  <2>1. receipt' = receipt /\ engine'.receipts = engine.receipts
    BY <1>3, TypeParts
       DEF Typed, Engines, files, ExperimentStep, ProvisionNode, CreateNode, RunNode, CallAgent, RecordCost, CheckAgent,
           Screen, Measure, RunGates, Decide, Accept, Throw
  <2>2. step[n] \in {"provision", "create", "run", "call", "charge", "agent",
                    "screen", "measure", "gates", "threshold", "accept"}
    BY <1>3 DEF ExperimentStep, At, Reject, ProvisionNode, CreateNode, RunNode, CallAgent, RecordCost, CheckAgent,
           Screen, Measure, RunGates, Decide, Accept, Throw
  <2>3. node[n].status \notin Decided
    BY <2>2 DEF PhaseOK, Decided
  <2> QED
    BY <2>1, <2>3, ReceiptDecided DEF ReceiptOK
<1> QED
  BY <1>1, <1>2, <1>3

LEMMA ReceiptNext ==
  ASSUME TypeOK, PcInv, PhaseInv, ReceiptInv, [Next]_vars
  PROVE  ReceiptInv'
<1> SUFFICES ASSUME NEW n \in Nodes PROVE ReceiptOK(n)'
  BY DEF ReceiptInv
<1>0. ReceiptOK(n) /\ PhaseOK(n)
  BY DEF ReceiptInv, PhaseInv
<1>1. CASE Bookkeeping
  BY <1>0, <1>1, Booked DEF ReceiptOK
<1>2. CASE Reset
  BY <1>0, <1>2, ResetOnly DEF ReceiptOK
<1>3. CASE Launch
  <2>1. UNCHANGED <<receipt>> /\ engine'.receipts = engine.receipts
    BY <1>3, LaunchIds
  <2>2. node'[n] = node[n] \/ receipt[n] = NoReceipt
    BY <1>0, <1>3, LaunchOnly DEF PhaseOK
  <2> QED
    BY <1>0, <2>1, <2>2 DEF ReceiptOK
<1>4. CASE GradeWinner
  BY <1>0, <1>4, GradeOnly DEF ReceiptOK
<1>5. CASE RefreshReceipt
  <2>1. CASE receipt'[n] = receipt[n]
    BY <1>0, <1>5, <2>1, RefreshOnly DEF ReceiptOK
  <2>2. CASE receipt'[n].decision = receipt[n].decision /\ receipt'[n].grade = node[n].grade
             /\ n \in engine.receipts
    <3>1. receipt'[n].decision = node[n].status
      BY <1>0, <2>2 DEF ReceiptOK
    <3>2. node[n].status # "none"
      BY TypeParts DEF Typed, Experiments, Statuses, Decided
    <3>3. receipt'[n] # NoReceipt
      BY <3>1, <3>2 DEF NoReceipt
    <3> QED
      BY <1>5, <2>2, <3>1, <3>3, RefreshOnly DEF ReceiptOK
  <2> QED
    BY <1>5, <2>1, <2>2, RefreshOnly
<1>6. ASSUME NEW m \in Nodes, ExperimentStep(m) PROVE ReceiptOK(n)'
  <2>1. CASE n = m
    BY <1>0, <1>6, <2>1, ReceiptMoves
  <2>2. CASE n # m
    BY <1>0, <1>6, <2>2, Elsewhere DEF ReceiptOK
  <2> QED
    BY <2>1, <2>2
<1> QED
  BY <1>1, <1>2, <1>3, <1>4, <1>5, <1>6, NextCases

-----------------------------------------------------------------------------
(* Branches *)

\* An experiment under way has its branch, and so has an accepted one.
BranchOK(n) ==
  /\ step[n] \notin {"none", "provision", "over", "threw"} => n \in branches
  /\ node[n].status = "accepted" => n \in branches
  /\ node[n].parent \in Accepted \cup {0}

BranchInv == \A n \in Nodes : BranchOK(n)

\* What the engine provisions and destroys for itself is no experiment's.
LEMMA OwnElsewhere ==
  ASSUME TypeOK, NEW n \in Nodes
  PROVE  Fresh # n /\ FreshWinner # n
BY NodesFacts, TypeParts DEF Typed, Fresh, FreshWinner

LEMMA BookedBranches ==
  ASSUME TypeOK, Bookkeeping, NEW n \in Nodes
  PROVE  n \in branches' <=> n \in branches
<1>1. CASE ProvisionBaseline \/ ProvisionFresh \/ ProvisionFreshWinner
  BY <1>1, OwnElsewhere
     DEF ProvisionBaseline, ProvisionFresh, ProvisionFreshWinner, Provision
<1>2. CASE MeasureBaseline \/ RemoveFresh \/ RemoveFreshWinner
  BY <1>2, OwnElsewhere DEF MeasureBaseline, RemoveFresh, RemoveFreshWinner, Destroy
<1>3. CASE /\ ~ProvisionBaseline /\ ~ProvisionFresh /\ ~ProvisionFreshWinner
           /\ ~MeasureBaseline /\ ~RemoveFresh /\ ~RemoveFreshWinner
  BY <1>3 DEF Bookkeeping, RecordStart, Recount, StartRound, EndLoop, FailRound,
              SkipReproduction, RecordReproduction, EndRun, Cleanup, Interrupt, vars, files
<1> QED
  BY <1>1, <1>2, <1>3

\* What an experiment does to its branch and to where its node hangs.
LEMMA BranchMoves ==
  ASSUME TypeOK, NEW n \in Nodes, PhaseOK(n), BranchOK(n), ExperimentStep(n)
  PROVE  /\ step'[n] \notin {"none", "provision", "over", "threw"} => n \in branches'
         /\ node'[n].status = "accepted" => n \in branches'
         /\ node'[n].parent = node[n].parent /\ node'[n].round = node[n].round
<1> USE TypeParts, StatusOnly, Moved DEF Typed, files, user, PhaseOK, BranchOK, Decided
<1>1. CASE ProvisionNode(n)
  BY <1>1 DEF ProvisionNode, Provision
<1>2. CASE CreateNode(n)
  BY <1>2 DEF CreateNode
<1>3. CASE RunNode(n)
  BY <1>3 DEF RunNode
<1>4. CASE CallAgent(n)
  BY <1>4 DEF CallAgent, At
<1>5. CASE RecordCost(n)
  BY <1>5 DEF RecordCost
<1>6. CASE CheckAgent(n)
  BY <1>6 DEF CheckAgent
<1>7. CASE Screen(n)
  BY <1>7 DEF Screen, Reject
<1>8. CASE Measure(n)
  <2>1. step[n] = "measure" /\ branches' = branches
    BY <1>8 DEF Measure, Reject
  <2>2. CASE flaw[n] = "bench"
    BY <1>8, <2>1, <2>2 DEF Measure, Reject
  <2>3. CASE flaw[n] # "bench"
    <3>1. PICK score \in 1..Baseline : node' = [node EXCEPT ![n].score = score]
      BY <1>8, <2>3 DEF Measure
    <3> QED
      BY <2>1, <3>1, ScoreOnly
  <2> QED
    BY <2>2, <2>3
<1>9. CASE RunGates(n)
  BY <1>9 DEF RunGates, Reject
<1>10. CASE Decide(n)
  BY <1>10 DEF Decide, Reject
<1>11. CASE Accept(n)
  <2>1. step[n] = "accept" /\ branches' = branches
    BY <1>11 DEF Accept
  <2> QED
    BY <1>11, <2>1, AcceptOnly
<1>12. CASE Throw(n)
  BY <1>12 DEF Throw
<1>13. CASE WriteReceipt(n)
  BY <1>13 DEF WriteReceipt
<1>14. CASE DestroyWorktree(n)
  BY <1>14 DEF DestroyWorktree, Destroy
<1> QED
  BY <1>1, <1>2, <1>3, <1>4, <1>5, <1>6, <1>7, <1>8, <1>9, <1>10, <1>11, <1>12, <1>13, <1>14
     DEF ExperimentStep

LEMMA BranchNext ==
  ASSUME TypeOK, PcInv, PhaseInv, BranchInv, [Next]_vars
  PROVE  BranchInv'
<1> SUFFICES ASSUME NEW n \in Nodes PROVE BranchOK(n)'
  BY DEF BranchInv
<1>0. BranchOK(n) /\ PhaseOK(n) /\ Accepted \subseteq Accepted'
  BY AcceptedGrows DEF BranchInv, PhaseInv
<1>1. CASE Bookkeeping
  BY <1>0, <1>1, Booked, BookedBranches DEF BranchOK
<1>2. CASE Reset
  BY <1>0, <1>2, ResetOnly DEF BranchOK
<1>3. CASE Launch
  <2>1. branches' = branches /\ step[n] = "none"
    BY <1>3, LaunchIds
  <2> QED
    BY <1>0, <1>3, <2>1, LaunchOnly DEF BranchOK
<1>4. CASE GradeWinner
  BY <1>0, <1>4, GradeOnly DEF BranchOK
<1>5. CASE RefreshReceipt
  BY <1>0, <1>5, RefreshOnly DEF BranchOK
<1>6. ASSUME NEW m \in Nodes, ExperimentStep(m) PROVE BranchOK(n)'
  <2>1. CASE n = m
    BY <1>0, <1>6, <2>1, BranchMoves DEF BranchOK
  <2>2. CASE n # m
    BY <1>0, <1>6, <2>2, Elsewhere DEF BranchOK
  <2> QED
    BY <2>1, <2>2
<1> QED
  BY <1>1, <1>2, <1>3, <1>4, <1>5, <1>6, NextCases

-----------------------------------------------------------------------------
(* Rounds *)

\* Nothing accepted beats the best score: a set of scores has a least one.
LEMMA BestScoreLeast ==
  ASSUME TypeOK, EvidenceInv, NEW m \in Accepted
  PROVE  BestScore # NoScore /\ BestScore <= node[m].score
<1> DEFINE scores == {node[n].score : n \in Accepted}
<1>1. \A n \in Accepted : n \in Nodes /\ node[n].score \in Nat /\ node[n].score # NoScore
  BY Constants, TypeParts DEF Typed, Experiments, Accepted, EvidenceInv, EvidenceOK
<1>2. scores \subseteq Nat /\ scores # {}
  BY <1>1
<1>3. PICK least \in scores : \A x \in scores : ~(<<x, least>> \in OpToRel(<, Nat))
  BY <1>2, NatLessThanWellFounded, WFMin
<1>4. \A x \in scores : ~(x < least)
  BY <1>2, <1>3 DEF OpToRel
<1>5. PICK n \in Accepted : node[n].score = least
  BY <1>3
<1>6. n \in Best
  BY <1>4, <1>5 DEF Best, BetterThan
<1>7. PICK b \in Best : BestScore = node[b].score
  BY <1>6, AcceptedFacts
<1>8. b \in Accepted /\ ~BetterThan(node[m].score, node[b].score)
  BY <1>7 DEF Best
<1> QED
  BY <1>1, <1>7, <1>8 DEF BetterThan

\* A node of the round under way is of that round; what is about to be accepted
\* beats the target.
RoundOK(n) ==
  /\ node[n].round <= summary.round
  /\ pc = "launch" => node[n].round < summary.round
  /\ step[n] # "none" => node[n].round = summary.round
  /\ step[n] = "accept" => engine.target = NoScore \/ BetterThan(node[n].score, engine.target)

\* The target of a round is as good as whatever earlier rounds accepted.
TargetInv ==
  \A n \in Nodes, m \in Accepted :
    step[n] # "none" /\ node[m].round < summary.round =>
      engine.target # NoScore /\ engine.target <= node[m].score

RoundInv == (\A n \in Nodes : RoundOK(n)) /\ TargetInv /\ LaterRoundsBetter

LEMMA ToAccept ==
  ASSUME TypeOK, NEW n \in Nodes, ExperimentStep(n), step'[n] = "accept"
  PROVE  Improves(n) /\ node' = node
<1> USE Moved
<1>1. CASE ProvisionNode(n)
  BY <1>1 DEF ProvisionNode, Provision
<1>2. CASE CreateNode(n)
  BY <1>2 DEF CreateNode
<1>3. CASE RunNode(n)
  BY <1>3 DEF RunNode
<1>4. CASE CallAgent(n)
  <2>1. PICK cost \in Costs : At(n, "call", IF cost > 0 THEN "charge" ELSE AfterCall(n))
    BY <1>4 DEF CallAgent
  <2> QED
    BY <2>1, Moved DEF AfterCall
<1>5. CASE RecordCost(n)
  BY <1>5 DEF RecordCost
<1>6. CASE CheckAgent(n)
  BY <1>6 DEF CheckAgent
<1>7. CASE Screen(n)
  BY <1>7 DEF Screen, Reject
<1>8. CASE Measure(n)
  BY <1>8 DEF Measure, Reject
<1>9. CASE RunGates(n)
  BY <1>9 DEF RunGates, Reject
<1>10. CASE Decide(n)
  BY <1>10 DEF Decide, Reject
<1>11. CASE Accept(n)
  BY <1>11 DEF Accept
<1>12. CASE Throw(n)
  BY <1>12 DEF Throw
<1>13. CASE WriteReceipt(n)
  BY <1>13 DEF WriteReceipt
<1>14. CASE DestroyWorktree(n)
  BY <1>14 DEF DestroyWorktree, Destroy
<1> QED
  BY <1>1, <1>2, <1>3, <1>4, <1>5, <1>6, <1>7, <1>8, <1>9, <1>10, <1>11, <1>12, <1>13, <1>14
     DEF ExperimentStep

LEMMA RoundOfEngine ==
  ASSUME TypeOK, PcInv, Bookkeeping
  PROVE  \/ summary'.round = summary.round /\ (pc' = "launch" => pc = "launch")
         \/ summary'.round = summary.round + 1 /\ \A n \in Nodes : step[n] = "none"
<1>1. CASE StartRound
  BY <1>1, TypeParts DEF Typed, Summaries, StartRound, PcInv, Go, Alone
<1>2. CASE ~StartRound
  BY <1>2, TypeParts
     DEF Typed, Summaries, Bookkeeping, RecordStart, ProvisionBaseline, MeasureBaseline, Recount,
         EndLoop, FailRound, ProvisionFresh, ProvisionFreshWinner, SkipReproduction, RemoveFresh,
         RemoveFreshWinner, RecordReproduction, EndRun, Cleanup, Interrupt, vars, Go
<1> QED
  BY <1>1, <1>2

LEMMA RoundOKNext ==
  ASSUME TypeOK, TypeOK', PcInv, PhaseInv, BranchInv, NEW n \in Nodes, RoundOK(n), [Next]_vars
  PROVE  RoundOK(n)'
<1>0. /\ PhaseOK(n) /\ BranchOK(n)
      /\ node[n].round \in Nat /\ summary.round \in Nat
  BY TypeParts DEF Typed, Experiments, Summaries, PhaseInv, BranchInv
<1>1. CASE Bookkeeping
  <2>1. UNCHANGED <<node, step>> /\ engine'.target = engine.target
    BY <1>1, Booked
  <2>2. CASE summary'.round = summary.round /\ (pc' = "launch" => pc = "launch")
    BY <2>1, <2>2 DEF RoundOK
  <2>3. CASE summary'.round = summary.round + 1 /\ step[n] = "none"
    BY <1>0, <2>1, <2>3 DEF RoundOK
  <2> QED
    BY <1>1, <2>2, <2>3, RoundOfEngine
<1>2. CASE Reset
  <2>1. pc' # "launch"
    BY <1>2 DEF Reset, StartEngine, SettleRound, Crash, Go
  <2> QED
    BY <1>2, <2>1, ResetOnly DEF RoundOK
<1>3. CASE Launch
  <2>1. pc' # "launch" /\ summary' = summary /\ step[n] = "none"
    BY <1>3, LaunchIds DEF Launch, Go
  <2> QED
    BY <1>0, <1>3, <2>1, LaunchOnly DEF RoundOK
<1>4. CASE GradeWinner
  <2>1. pc' # "launch"
    BY <1>4 DEF GradeWinner, Go
  <2> QED
    BY <1>4, <2>1, GradeOnly DEF RoundOK
<1>5. CASE RefreshReceipt
  <2>1. pc' # "launch"
    BY <1>5 DEF RefreshReceipt, Go
  <2> QED
    BY <1>5, <2>1, RefreshOnly DEF RoundOK
<1>6. ASSUME NEW m \in Nodes, ExperimentStep(m), m # n PROVE RoundOK(n)'
  BY <1>6, Elsewhere, EngineAlone DEF RoundOK
<1>7. CASE ExperimentStep(n)
  <2>1. step[n] # "none" /\ node'[n].round = node[n].round
    BY <1>0, <1>7, Launched, BranchMoves
  <2>2. step'[n] = "accept" => Improves(n) /\ node' = node
    BY <1>7, ToAccept
  <2> QED
    BY <1>7, <2>1, <2>2, EngineAlone DEF RoundOK, Improves
<1> QED
  BY <1>1, <1>2, <1>3, <1>4, <1>5, <1>6, <1>7, NextCases

LEMMA NewlyAccepted ==
  ASSUME TypeOK, PcInv, PhaseInv, BranchInv, [Next]_vars,
         NEW n \in Nodes, n \notin Accepted, n \in Accepted'
  PROVE  /\ step[n] = "accept" /\ ExperimentStep(n)
         /\ node'[n].score = node[n].score /\ node'[n].round = node[n].round
<1>1. ~Bookkeeping /\ ~Reset /\ ~GradeWinner /\ ~RefreshReceipt
  BY Booked, ResetOnly, GradeOnly, RefreshOnly DEF Accepted
<1>2. ~Launch
  BY LaunchOnly DEF Accepted
<1>3. PICK m \in Nodes : ExperimentStep(m)
  BY <1>1, <1>2, NextCases
<1>4. m = n
  BY <1>3, Elsewhere DEF Accepted
<1>5. node'[n].status = "accepted" /\ node[n].status # "accepted"
  BY DEF Accepted
<1>6. Accept(n)
  <2>1. ASSUME NEW s, s # "accepted" PROVE ~SetStatus(n, s)
    BY <1>5, <2>1, StatusOnly
  <2>2. node' # node
    BY <1>5
  <2>3. ~CreateNode(n) /\ ~RunNode(n) /\ ~CheckAgent(n) /\ ~Throw(n)
    BY <2>1 DEF CreateNode, RunNode, CheckAgent, Throw
  <2>4. ~Screen(n) /\ ~RunGates(n) /\ ~Decide(n)
    BY <2>1, <2>2 DEF Screen, RunGates, Decide, Reject
  <2>5. ~Measure(n)
    BY <1>5, <2>1, ScoreOnly DEF Measure, Reject
  <2>6. ~ProvisionNode(n) /\ ~CallAgent(n) /\ ~RecordCost(n) /\ ~WriteReceipt(n) /\ ~DestroyWorktree(n)
    BY <2>2 DEF ProvisionNode, CallAgent, RecordCost, WriteReceipt, DestroyWorktree
  <2> QED
    BY <1>3, <1>4, <2>3, <2>4, <2>5, <2>6 DEF ExperimentStep
<1>7. step[n] = "accept"
  BY <1>6 DEF Accept, At
<1> QED
  BY <1>3, <1>4, <1>6, <1>7, AcceptOnly

LEMMA RoundNext ==
  ASSUME TypeOK, TypeOK', PcInv, PhaseInv, EvidenceInv, BranchInv, RoundInv, [Next]_vars
  PROVE  RoundInv'
<1>0. /\ Accepted \subseteq Nodes /\ Accepted' \subseteq Nodes
      /\ summary.round \in Nat /\ engine.target \in Nat
      /\ \A n \in Nodes : node[n].round \in Nat /\ node[n].score \in Nat
  BY Constants, TypeParts DEF Typed, Experiments, Summaries, Engines, Accepted
<1>1. \A n \in Accepted : node'[n].score = node[n].score /\ node'[n].round = node[n].round
  BY Final DEF Accepted, Decided
<1>2. ASSUME NEW n \in Accepted', n \notin Accepted
      PROVE  /\ step[n] = "accept" /\ node[n].round = summary.round
             /\ engine.target = NoScore \/ BetterThan(node[n].score, engine.target)
             /\ node'[n].score = node[n].score /\ node'[n].round = summary.round
             /\ summary'.round = summary.round /\ ExperimentStep(n)
  <2>1. n \in Nodes /\ ExperimentStep(n) /\ step[n] = "accept"
        /\ node'[n].score = node[n].score /\ node'[n].round = node[n].round
    BY <1>0, <1>2, NewlyAccepted
  <2>2. RoundOK(n)
    BY <2>1 DEF RoundInv
  <2> QED
    BY <2>1, <2>2, EngineAlone DEF RoundOK
<1>3. LaterRoundsBetter'
  <2> SUFFICES ASSUME NEW m \in Accepted', NEW n \in Accepted', node'[m].round < node'[n].round
               PROVE  BetterThan(node'[n].score, node'[m].score)
    BY DEF LaterRoundsBetter, BetterThan
  <2>1. CASE m \in Accepted /\ n \in Accepted
    BY <1>1, <2>1 DEF RoundInv, LaterRoundsBetter, BetterThan
  <2>2. CASE m \notin Accepted
    <3>1. node'[n].round <= node'[m].round
      <4>1. node'[m].round = summary.round
        BY <1>2, <2>2
      <4>2. CASE n \in Accepted
        <5>1. RoundOK(n) /\ node'[n].round = node[n].round
          BY <1>0, <1>1, <4>2 DEF RoundInv
        <5> QED
          BY <4>1, <5>1 DEF RoundOK
      <4>3. CASE n \notin Accepted
        BY <1>0, <1>2, <4>1, <4>3
      <4> QED
        BY <4>2, <4>3
    <3>2. node'[n].round \in Nat /\ node'[m].round \in Nat
      BY <1>0, TypeParts DEF Typed, Experiments
    <3> QED
      BY <3>1, <3>2
  <2>3. CASE m \in Accepted /\ n \notin Accepted
    <3>1. step[n] # "none" /\ node[m].round < summary.round /\ n \in Nodes
      BY <1>0, <1>1, <1>2, <2>3
    <3>2. engine.target # NoScore /\ engine.target <= node[m].score
      BY <2>3, <3>1 DEF RoundInv, TargetInv
    <3>3. node[n].score < engine.target /\ node[n].score \in Nat /\ node[m].score \in Nat
      BY <1>0, <1>2, <2>3, <3>1, <3>2 DEF BetterThan
    <3> QED
      BY <1>0, <1>1, <1>2, <2>3, <3>2, <3>3 DEF BetterThan
  <2> QED
    BY <2>1, <2>2, <2>3
<1>4. TargetInv'
  <2> SUFFICES ASSUME NEW n \in Nodes, NEW m \in Accepted', step'[n] # "none",
                      node'[m].round < summary'.round
               PROVE  engine'.target # NoScore /\ engine'.target <= node'[m].score
    BY DEF TargetInv
  <2>1. m \in Accepted
    BY <1>0, <1>2
  <2>2. ASSUME step[n] # "none", summary'.round = summary.round, engine'.target = engine.target
        PROVE  engine'.target # NoScore /\ engine'.target <= node'[m].score
    BY <1>1, <2>1, <2>2 DEF RoundInv, TargetInv
  <2>3. CASE Bookkeeping
    BY <2>2, <2>3, Booked, RoundOfEngine
  <2>4. CASE Reset
    BY <2>4, ResetOnly
  <2>5. CASE Launch
    BY <1>1, <2>1, <2>5, LaunchIds, BestScoreLeast
  <2>6. CASE GradeWinner \/ RefreshReceipt
    BY <2>2, <2>6, GradeOnly, RefreshOnly
  <2>7. ASSUME NEW k \in Nodes, ExperimentStep(k)
        PROVE  engine'.target # NoScore /\ engine'.target <= node'[m].score
    <3>1. step[k] # "none" /\ engine'.target = engine.target /\ summary'.round = summary.round
      BY <2>7, Launched, EngineAlone DEF PhaseInv
    <3>2. engine.target # NoScore /\ engine.target <= node[m].score
      BY <1>1, <2>1, <3>1 DEF RoundInv, TargetInv
    <3> QED
      BY <1>1, <2>1, <3>1, <3>2
  <2> QED
    BY <2>3, <2>4, <2>5, <2>6, <2>7, NextCases
<1>5. \A n \in Nodes : RoundOK(n)'
  BY RoundOKNext DEF RoundInv
<1> QED
  BY <1>3, <1>4, <1>5 DEF RoundInv

-----------------------------------------------------------------------------
(* Limits *)

LEMMA Counting ==
  ASSUME NEW S \in SUBSET Nodes
  PROVE  /\ IsFiniteSet(S) /\ Cardinality(S) \in Nat
         /\ \A T \in SUBSET S : Cardinality(T) \in Nat /\ Cardinality(T) <= Cardinality(S)
<1>1. IsFiniteSet(S) /\ Cardinality(S) \in Nat
  BY NodesFacts, FS_Subset, FS_CardinalityType
<1>2. ASSUME NEW T \in SUBSET S PROVE Cardinality(T) \in Nat /\ Cardinality(T) <= Cardinality(S)
  BY <1>1, FS_Subset, FS_CardinalityType
<1> QED
  BY <1>1, <1>2

\* The experiments that count against the limit: those that run or have run, and
\* those that are about to.
Live == {n \in Nodes : \/ node[n].status \notin {"absent", "pending"}
                       \/ step[n] \in {"provision", "create", "run"}}

LimitInv ==
  /\ Cardinality(Live) <= MaxNodes
  /\ pc \in {"loop", "launch", "wait"} =>
       Cardinality(Live) <= engine.tried /\ engine.tried <= MaxNodes

\* Only a round adds experiments.
LEMMA LiveShrinks ==
  ASSUME TypeOK, PcInv, PhaseInv, [Next]_vars, ~Launch
  PROVE  Live' \subseteq Live
<1>1. CASE Bookkeeping
  BY <1>1, Booked DEF Live
<1>2. CASE Reset
  BY <1>2, ResetOnly DEF Live
<1>3. CASE GradeWinner \/ RefreshReceipt
  BY <1>3, GradeOnly, RefreshOnly DEF Live
<1>4. ASSUME NEW m \in Nodes, ExperimentStep(m) PROVE Live' \subseteq Live
  <2>1. step[m] \notin {"none", "over", "threw"}
    <3>1. CASE CallAgent(m)
      BY <3>1 DEF CallAgent, At
    <3>2. CASE ~CallAgent(m)
      BY <1>4, <3>2 DEF ExperimentStep, At, ProvisionNode, CreateNode, RunNode, RecordCost,
           CheckAgent, Screen, Measure, RunGates, Decide, Accept, Throw, WriteReceipt,
           DestroyWorktree, Reject
    <3> QED
      BY <3>1, <3>2
  <2>2. m \in Live
    BY <2>1, TypeParts DEF Typed, Steps, PhaseInv, PhaseOK, Live, Decided
  <2>3. \A n \in Nodes : n # m => (n \in Live' <=> n \in Live)
    BY <1>4, Elsewhere DEF Live
  <2> QED
    BY <2>2, <2>3 DEF Live
<1> QED
  BY <1>1, <1>2, <1>3, <1>4, NextCases

LEMMA LimitNext ==
  ASSUME TypeOK, TypeOK', PcInv, PhaseInv, LimitInv, [Next]_vars
  PROVE  LimitInv'
<1>0. /\ Live \subseteq Nodes /\ Live' \subseteq Nodes
      /\ engine.tried \in Nat /\ engine'.tried \in Nat /\ ids \in Nat
      /\ Cardinality(Live) \in Nat /\ Cardinality(Live') \in Nat
  BY Counting, TypeParts DEF Typed, Engines, Live
<1>1. CASE Launch
  <2> DEFINE left == MaxNodes - engine.tried
             many == IF Parallel <= left THEN Parallel ELSE left
             new == (ids + 1)..(ids + many)
  <2>1. engine.tried < MaxNodes /\ Cardinality(Live) <= engine.tried
    BY <1>1 DEF Launch, Go, PcInv, LimitInv
  <2>2. many \in Nat /\ engine.tried + many <= MaxNodes
    BY <1>0, <2>1, Constants
  <2>3. /\ step' = [n \in Nodes |-> IF n \in new THEN "provision" ELSE step[n]]
        /\ engine' = [engine EXCEPT !.tried = @ + many, !.target = BestScore]
        /\ \E parent \in [new -> Parents] :
             node' = [n \in Nodes |-> IF n \in new
                        THEN [NoNode EXCEPT !.parent = parent[n], !.round = summary.round]
                        ELSE node[n]]
    BY <1>1 DEF Launch
  <2>4. IsFiniteSet(new) /\ Cardinality(new) = many
    <3> HIDE DEF many
    <3>1. ids + 1 \in Int /\ ids + many \in Int
      BY <1>0, <2>2
    <3>2. IsFiniteSet(new) /\ Cardinality(new) =
            IF ids + 1 > ids + many THEN 0 ELSE (ids + many) - (ids + 1) + 1
      BY <3>1, FS_Interval
    <3> QED
      BY <1>0, <2>2, <3>2
  <2> HIDE DEF left, many, new
  <2>5. Live' \subseteq Live \cup new
    BY <2>3 DEF Live
  <2>6. IsFiniteSet(Live) /\ IsFiniteSet(Live \cup new)
        /\ Cardinality(Live \cup new) = Cardinality(Live) + Cardinality(new) - Cardinality(Live \cap new)
    BY <1>0, <2>4, Counting, FS_Union
  <2>7. Cardinality(Live \cap new) \in Nat /\ Cardinality(Live') <= Cardinality(Live \cup new)
    BY <1>0, <2>5, <2>6, Counting, FS_Subset
  <2>8. Cardinality(Live') <= Cardinality(Live) + many
    BY <1>0, <2>2, <2>4, <2>6, <2>7
  <2>9. engine'.tried = engine.tried + many
    BY <2>3, TypeParts DEF Typed, Engines
  <2> QED
    BY <1>0, <2>1, <2>2, <2>8, <2>9, Constants DEF LimitInv
<1>2. CASE ~Launch
  <2>1. Cardinality(Live') <= Cardinality(Live)
    BY <1>0, <1>2, LiveShrinks, Counting
  <2>2. Cardinality(Live') <= MaxNodes
    BY <1>0, <2>1, Constants DEF LimitInv
  <2>3. CASE Recount
    <3>1. \A n \in Nodes : step[n] = "none"
      BY <2>3 DEF Recount, Go, PcInv, Alone
    <3>2. Live = {n \in Nodes : node[n].status \notin {"absent", "pending"}}
      BY <3>1 DEF Live
    <3>3. engine'.tried = Cardinality(Live)
      BY <2>3, <3>2, TypeParts DEF Typed, Engines, Recount
    <3> QED
      BY <2>1, <2>2, <3>3 DEF LimitInv
  <2>4. ASSUME engine'.tried = engine.tried,
               pc' \in {"loop", "launch", "wait"} => pc \in {"loop", "launch", "wait"}
        PROVE  LimitInv'
    BY <1>0, <2>1, <2>2, <2>4 DEF LimitInv
  <2>5. CASE Bookkeeping /\ ~Recount
    BY <2>4, <2>5, TypeParts
       DEF Typed, Engines, Bookkeeping, RecordStart, ProvisionBaseline, MeasureBaseline,
           StartRound, EndLoop, FailRound, ProvisionFresh, ProvisionFreshWinner,
           SkipReproduction, RemoveFresh, RemoveFreshWinner, RecordReproduction, EndRun, Cleanup,
           Interrupt, vars, user, Go
  <2>6. CASE StartEngine \/ Crash
    BY <2>2, <2>6 DEF StartEngine, Crash, Go, LimitInv
  <2>7. CASE SettleRound
    BY <2>4, <2>7, TypeParts DEF Typed, Engines, SettleRound, Go
  <2>8. CASE GradeWinner \/ RefreshReceipt
    BY <2>4, <2>8 DEF GradeWinner, RefreshReceipt, Go
  <2>9. ASSUME NEW m \in Nodes, ExperimentStep(m) PROVE LimitInv'
    BY <2>4, <2>9, EngineAlone
  <2> QED
    BY <1>2, <2>3, <2>5, <2>6, <2>7, <2>8, <2>9, NextCases DEF Reset
<1> QED
  BY <1>1, <1>2

-----------------------------------------------------------------------------
(* What is spent *)

\* The experiments of the round under way.
Busy == {n \in Nodes : step[n] # "none"}

\* The calls whose cost is in the total of the engine but not in the log yet.
Charging == {n \in Nodes : step[n] = "charge"}

\* The calls of the round.
Made == {p \in Nodes \X (1..Calls) : p[2] <= calls[p[1]]}

SpendInv ==
  /\ spent <= summary.cost + Cardinality(Charging) + Parallel * crashes
  /\ pc \in {"loop", "launch", "wait"} \/ Busy # {} =>
       engine.total = summary.cost + Cardinality(Charging)
  /\ pc = "launch" => engine.total < MaxCost
  /\ Busy # {} => engine.total < MaxCost + Cardinality(Made)
  /\ Cardinality(Busy) <= Parallel
  /\ SpendBound

LEMMA Products ==
  ASSUME NEW a \in Nat, NEW b \in Nat, NEW c \in Nat
  PROVE  /\ a * b \in Nat /\ a * (c + 1) = a * c + a
         /\ b <= c => a * b <= a * c /\ b * a <= c * a
OBVIOUS

\* Calls of the experiments in B.
LEMMA MadeFacts ==
  ASSUME NEW B \in SUBSET Nodes, NEW M \in SUBSET (B \X (1..Calls))
  PROVE  IsFiniteSet(M) /\ Cardinality(M) \in Nat /\ Cardinality(M) <= Cardinality(B) * Calls
<1>1. IsFiniteSet(1..Calls) /\ Cardinality(1..Calls) = Calls
  BY Constants, FS_Interval
<1>2. IsFiniteSet(B)
  BY Counting
<1>3. IsFiniteSet(B \X (1..Calls)) /\ Cardinality(B \X (1..Calls)) = Cardinality(B) * Calls
  BY <1>1, <1>2, FS_Product
<1> QED
  BY <1>3, FS_Subset, FS_CardinalityType

LEMMA SpendTypes ==
  ASSUME TypeOK
  PROVE  /\ Busy \subseteq Nodes /\ Charging \subseteq Busy
         /\ Cardinality(Busy) \in Nat /\ Cardinality(Charging) \in Nat
         /\ Cardinality(Charging) <= Cardinality(Busy)
         /\ summary.cost \in Nat /\ engine.total \in Nat /\ spent \in Nat /\ crashes \in Nat
         /\ Parallel * crashes \in Nat /\ Parallel * Calls \in Nat
<1>1. Busy \subseteq Nodes /\ Charging \subseteq Busy
  BY DEF Busy, Charging
<1>2. crashes \in Nat /\ summary.cost \in Nat /\ engine.total \in Nat /\ spent \in Nat
  BY TypeParts DEF Typed, Summaries, Engines
<1>3. Parallel * crashes \in Nat /\ Parallel * Calls \in Nat
  BY <1>2, Constants, Products
<1> QED
  BY <1>1, <1>2, <1>3, Counting

\* A step that neither calls nor records a cost: the sums stay as they are.
LEMMA SpendSame ==
  ASSUME SpendInv, UNCHANGED <<spent, crashes>>, summary'.cost = summary.cost,
         engine'.total = engine.total, Charging' = Charging, Made' = Made, Busy' = Busy,
         pc' = "launch" => pc = "launch" \/ engine.total < MaxCost,
         pc' \in {"loop", "launch", "wait"} => pc \in {"loop", "launch", "wait"}
  PROVE  SpendInv'
BY DEF SpendInv, SpendBound

LEMMA SpendBooked ==
  ASSUME TypeOK, TypeOK', PcInv, SpendInv, Bookkeeping
  PROVE  SpendInv'
<1>1. UNCHANGED <<step, calls>>
  BY Booked
<1>2. Charging' = Charging /\ Made' = Made /\ Busy' = Busy
  BY <1>1 DEF Charging, Made, Busy
<1>3. UNCHANGED <<spent, crashes>> /\ summary'.cost = summary.cost
  BY TypeParts
     DEF Typed, Summaries, Bookkeeping, RecordStart, ProvisionBaseline, MeasureBaseline, Recount,
         StartRound, EndLoop, FailRound, ProvisionFresh, ProvisionFreshWinner, SkipReproduction,
         RemoveFresh, RemoveFreshWinner, RecordReproduction, EndRun, Cleanup, Interrupt, vars,
         user, experiments
<1>4. CASE Recount
  <2>1. engine'.total = summary.cost /\ pc' = "loop"
    BY <1>4, TypeParts DEF Typed, Engines, Recount, Go
  <2>2. Busy = {}
    BY <1>4 DEF Busy, Recount, Go, PcInv, Alone
  <2>3. Cardinality(Charging) = 0
    BY <2>2, FS_EmptySet DEF Busy, Charging
  <2> QED
    BY <1>2, <1>3, <2>1, <2>2, <2>3, SpendTypes DEF SpendInv, SpendBound
<1>5. CASE ~Recount
  <2>1. /\ engine'.total = engine.total
        /\ pc' = "launch" => pc = "launch" \/ engine.total < MaxCost
        /\ pc' \in {"loop", "launch", "wait"} => pc \in {"loop", "launch", "wait"}
    BY <1>5, TypeParts
       DEF Typed, Engines, Bookkeeping, RecordStart, ProvisionBaseline, MeasureBaseline,
           StartRound, EndLoop, FailRound, ProvisionFresh, ProvisionFreshWinner,
           SkipReproduction, RemoveFresh, RemoveFreshWinner, RecordReproduction, EndRun, Cleanup,
           Interrupt, vars, user, Go
  <2> QED
    BY <1>2, <1>3, <2>1, SpendSame
<1> QED
  BY <1>4, <1>5

LEMMA SpendReset ==
  ASSUME TypeOK, TypeOK', PcInv, SpendInv, Reset
  PROVE  SpendInv'
<1>0. Busy' = {} /\ Charging' = {} /\ Cardinality({}) = 0 /\ Parallel \in Nat
  BY ResetOnly, FS_EmptySet, Constants DEF Busy, Charging
<1>1. summary' = summary /\ spent' = spent
  BY ResetOnly
<1>2. CASE Crash
  <2>1. crashes' = crashes + 1 /\ pc' = "down"
    BY <1>2 DEF Crash
  <2>2. Parallel * crashes' = Parallel * crashes + Parallel
    BY <2>1, Constants, SpendTypes, Products
  <2> QED
    BY <1>0, <1>1, <2>1, <2>2, SpendTypes, Constants DEF SpendInv, SpendBound
<1>3. CASE StartEngine \/ SettleRound
  <2>1. Charging = {} /\ crashes' = crashes /\ pc' # "launch"
    BY <1>3 DEF StartEngine, SettleRound, Charging, user, Go
  <2>2. pc' = "loop" => pc = "wait" /\ engine'.total = engine.total
    BY <1>3, TypeParts DEF Typed, Engines, StartEngine, SettleRound, Go
  <2>3. pc' # "wait"
    BY <1>3 DEF StartEngine, SettleRound, Go
  <2> QED
    BY <1>0, <1>1, <2>1, <2>2, <2>3, SpendTypes, Constants DEF SpendInv, SpendBound
<1> QED
  BY <1>2, <1>3 DEF Reset

LEMMA SpendLaunch ==
  ASSUME TypeOK, TypeOK', PcInv, SpendInv, Launch
  PROVE  SpendInv'
<1> DEFINE left == MaxNodes - engine.tried
           many == IF Parallel <= left THEN Parallel ELSE left
           new == (ids + 1)..(ids + many)
<1>1. many \in Int /\ many <= Parallel /\ ids \in Nat /\ many >= 0
  <2>1. engine.tried \in Nat /\ engine.tried < MaxNodes /\ ids \in Nat
    BY TypeParts DEF Typed, Engines, PcInv, Launch, Go
  <2> QED
    BY <2>1, Constants
<1>2. step' = [n \in Nodes |-> IF n \in new THEN "provision" ELSE step[n]]
  BY DEF Launch
<1>3. \A n \in Nodes : step[n] = "none"
  BY LaunchIds
<1>4. IsFiniteSet(new) /\ Cardinality(new) = many
  <2> HIDE DEF many
  <2>1. IsFiniteSet(new) /\ Cardinality(new) =
          IF ids + 1 > ids + many THEN 0 ELSE (ids + many) - (ids + 1) + 1
    BY <1>1, FS_Interval
  <2> QED
    BY <1>1, <2>1
<1>5. Busy' \subseteq new
  BY <1>2, <1>3 DEF Busy
<1> HIDE DEF left, many, new
<1>6. Cardinality(Busy') <= Parallel
  BY <1>1, <1>4, <1>5, FS_Subset, SpendTypes, Constants, FS_CardinalityType
<1>7. Charging = {} /\ Charging' = {}
  BY <1>2, <1>3 DEF Charging
<1>8. /\ summary' = summary /\ pc = "launch" /\ pc' = "wait" /\ UNCHANGED <<spent, crashes>>
      /\ engine'.total = engine.total
  BY TypeParts DEF Typed, Engines, Launch, Go, user
<1>9. Cardinality(Made') \in Nat /\ engine.total < MaxCost
  BY <1>8, MadeFacts DEF SpendInv, Made
<1> QED
  BY <1>6, <1>7, <1>8, <1>9, SpendTypes, Constants DEF SpendInv, SpendBound

\* An agent call: one more call made, and one more charge if it costs.
LEMMA SpendCall ==
  ASSUME TypeOK, TypeOK', PcInv, PhaseInv, PhaseInv', SpendInv, NEW n \in Nodes, CallAgent(n)
  PROVE  SpendInv'
<1>1. calls[n] < Calls /\ n \in Busy
  BY DEF CallAgent, At, PhaseInv, PhaseOK, Busy
<1>2. /\ step[n] = "call" /\ calls'[n] = calls[n] + 1 /\ calls'[n] <= Calls
      /\ UNCHANGED <<summary, pc, crashes>>
  BY <1>1, CallOnly DEF CallAgent, user
<1>3. PICK cost \in {0, 1} :
        /\ spent' = spent + cost /\ engine' = [engine EXCEPT !.total = @ + cost]
        /\ step' = [step EXCEPT ![n] =
             IF cost = 1 THEN "charge" ELSE IF calls'[n] < Calls THEN "call" ELSE "agent"]
  BY <1>1, CallOnly
<1>4. /\ Busy' = Busy /\ IsFiniteSet(Charging)
      /\ Charging' = IF cost = 1 THEN Charging \cup {n} ELSE Charging
  BY <1>2, <1>3, Counting, TypeParts DEF Typed, Busy, Charging
<1>5. Cardinality(Charging') = Cardinality(Charging) + cost
  <2>1. n \notin Charging
    BY <1>2 DEF Charging
  <2>2. Cardinality(Charging \cup {n}) = Cardinality(Charging) + 1
    BY <1>4, <2>1, FS_AddElement
  <2>3. CASE cost = 1
    BY <1>4, <2>2, <2>3
  <2>4. CASE cost = 0
    BY <1>4, <2>4, SpendTypes
  <2> QED
    BY <2>3, <2>4
<1>6. Made' = Made \cup {<<n, calls[n] + 1>>} /\ <<n, calls[n] + 1>> \notin Made
  BY <1>1, <1>2, Constants, TypeParts DEF Typed, CallAgent, Made
<1>7. Made \subseteq Nodes \X (1..Calls) /\ Made' \subseteq Busy' \X (1..Calls)
  BY Constants, TypeParts DEF Typed, PhaseInv, PhaseOK, Made, Busy
<1>8. Cardinality(Made') = Cardinality(Made) + 1 /\ Cardinality(Made) \in Nat
  BY <1>6, <1>7, MadeFacts, FS_AddElement
<1>9. Busy' \subseteq Nodes
  BY DEF Busy
<1>10. Cardinality(Made') <= Cardinality(Busy') * Calls
  BY <1>7, <1>9, MadeFacts
<1>11. Cardinality(Busy) * Calls <= Parallel * Calls
  BY SpendTypes, Constants, Products DEF SpendInv
<1>12. Cardinality(Busy') * Calls \in Nat
  BY <1>4, SpendTypes, Constants, Products
<1>13. engine'.total = engine.total + cost /\ engine.total = summary.cost + Cardinality(Charging)
       /\ engine.total < MaxCost + Cardinality(Made)
  BY <1>1, <1>3, TypeParts DEF Typed, Engines, SpendInv
<1>14. spent' <= engine'.total + Parallel * crashes
       /\ engine'.total < MaxCost + Cardinality(Made')
  BY <1>3, <1>8, <1>13, SpendTypes, Constants DEF SpendInv
<1>15. spent' < MaxCost + Parallel * Calls + Parallel * crashes
  BY <1>3, <1>4, <1>8, <1>10, <1>11, <1>12, <1>13, <1>14, SpendTypes, Constants
<1>17. engine'.total = summary'.cost + Cardinality(Charging')
  BY <1>2, <1>3, <1>5, <1>13, SpendTypes
<1>18. pc # "launch"
  BY <1>1 DEF PcInv, Alone, Busy
<1> QED
  BY <1>2, <1>4, <1>14, <1>15, <1>17, <1>18, SpendTypes DEF SpendInv, SpendBound

LEMMA SpendMoves ==
  ASSUME TypeOK, TypeOK', PcInv, PhaseInv, PhaseInv', SpendInv, NEW n \in Nodes, ExperimentStep(n)
  PROVE  SpendInv'
<1>0. step[n] # "none" /\ UNCHANGED <<pc, crashes>> /\ step'[n] # "none"
  BY Launched, EngineAlone, StaysBusy DEF PhaseInv
<1>1. Busy' = Busy
  BY <1>0, Elsewhere DEF Busy
<1>2. CASE CallAgent(n)
  BY <1>2, SpendCall
<1>3. CASE RecordCost(n)
  <2>1. /\ summary'.cost = summary.cost + 1 /\ UNCHANGED <<engine, spent, calls>>
        /\ n \in Charging /\ Charging' = Charging \ {n} /\ IsFiniteSet(Charging)
    BY <1>3, Counting, TypeParts DEF Typed, Summaries, RecordCost, At, Charging
  <2>2. Cardinality(Charging') = Cardinality(Charging) - 1 /\ Made' = Made
    BY <2>1, FS_RemoveElement DEF Made
  <2> QED
    BY <1>0, <1>1, <2>1, <2>2, SpendTypes DEF SpendInv, SpendBound
<1>4. CASE ~CallAgent(n) /\ ~RecordCost(n)
  <2>1. /\ UNCHANGED <<spent, calls>> /\ summary' = summary
        /\ engine'.total = engine.total
    BY <1>4, TypeParts
       DEF Typed, Engines, ExperimentStep, ProvisionNode, CreateNode, RunNode, CheckAgent, Screen,
           Measure, RunGates, Decide, Accept, Throw, WriteReceipt, DestroyWorktree
  <2>2. step[n] # "charge" /\ step'[n] # "charge"
    BY <1>4, Moved
       DEF ExperimentStep, ProvisionNode, CreateNode, RunNode, CheckAgent, Screen,
           Measure, RunGates, Decide, Accept, Throw, WriteReceipt, DestroyWorktree, Reject
  <2>3. Charging' = Charging /\ Made' = Made
    BY <2>1, <2>2, Elsewhere DEF Charging, Made
  <2> QED
    BY <1>0, <1>1, <2>1, <2>3, SpendSame
<1> QED
  BY <1>2, <1>3, <1>4

LEMMA SpendNext ==
  ASSUME TypeOK, TypeOK', PcInv, PhaseInv, PhaseInv', SpendInv, [Next]_vars
  PROVE  SpendInv'
<1>1. CASE GradeWinner \/ RefreshReceipt
  <2>1. /\ UNCHANGED <<summary, engine, step, calls, crashes>> /\ spent' = spent
        /\ pc' \notin {"loop", "launch", "wait"}
    BY <1>1 DEF GradeWinner, RefreshReceipt, Go, experiments, user
  <2>2. Charging' = Charging /\ Made' = Made /\ Busy' = Busy
    BY <2>1 DEF Charging, Made, Busy
  <2> QED
    BY <2>1, <2>2, SpendSame
<1> QED
  BY <1>1, NextCases, SpendBooked, SpendReset, SpendLaunch, SpendMoves

-----------------------------------------------------------------------------
(* What is left behind *)

\* The experiments at work, and the engine's own worktrees while it measures.
AtWork == {n \in Nodes : step[n] \notin {"none", "over", "threw"}}
Own ==
  (IF pc \in {"measure", "second", "reproduce"} THEN {Fresh} ELSE {})
  \cup (IF pc \in {"reproduce", "remove"} THEN {FreshWinner} ELSE {})
Mine == AtWork \cup Own

\* What killed engines have left, and reproductions that were cut short:
\* worktrees, branches and undecided nodes that nobody is at work on.
StrayTrees == worktrees \ Mine
StrayBranches == (branches \ Accepted) \ Mine
Undecided == {n \in Nodes : node[n].status \in {"pending", "running", "evaluating"}}
StrayNodes == Undecided \ AtWork

\* What may be left of worktrees and branches.
Left(c, l) == Width * c + l

LeftInv ==
  /\ pc # "wait" => \A n \in Nodes : step[n] = "none"
  /\ \A n \in Nodes : step[n] # "threw"
  /\ IsFiniteSet(worktrees) /\ IsFiniteSet(branches)
  /\ Cardinality(StrayTrees) <= Left(crashes, leaks)
  /\ Cardinality(StrayBranches) <= Left(crashes, leaks)
  /\ Cardinality(StrayNodes) <= Parallel * crashes
  /\ summary.finished => pc \in {"cleanup", "down"}
  /\ summary.finished /\ pc = "down" /\ worktrees # {} =>
       Cardinality(worktrees) <= Left(crashes - 1, leaks)

\* What no step adds to but a kill and a reproduction cut short.
NothingStrays ==
  StrayTrees' \subseteq StrayTrees /\ StrayBranches' \subseteq StrayBranches
  /\ StrayNodes' \subseteq StrayNodes

LEMMA Widths ==
  /\ Width \in Nat /\ Parallel <= Width /\ 2 <= Width
  /\ \A c, l \in Nat : /\ Left(c, l) \in Nat /\ Left(c + 1, l) = Left(c, l) + Width
                       /\ Left(c, l + 1) = Left(c, l) + 1
<1>1. Width \in Nat /\ Parallel <= Width /\ 2 <= Width
  BY Constants DEF Width
<1>2. \A c \in Nat : Width * c \in Nat /\ Width * (c + 1) = Width * c + Width
  BY <1>1, Products
<1> QED
  BY <1>1, <1>2 DEF Left

LEMMA StrayBooked ==
  ASSUME TypeOK, PcInv, LeftInv, Bookkeeping, leaks' = leaks
  PROVE  NothingStrays /\ IsFiniteSet(worktrees') /\ IsFiniteSet(branches')
<1>1. AtWork' = AtWork /\ Accepted' = Accepted /\ Undecided' = Undecided
  BY Booked DEF AtWork, Accepted, Undecided
<1>2. Fresh' = Fresh /\ FreshWinner' = FreshWinner
  BY DEF Fresh, FreshWinner, Bookkeeping, RecordStart, ProvisionBaseline, MeasureBaseline,
         Recount, StartRound, EndLoop, FailRound, ProvisionFresh, ProvisionFreshWinner,
         SkipReproduction, RemoveFresh, RemoveFreshWinner, RecordReproduction, EndRun, Cleanup,
         Interrupt, vars, user
<1>3. IsFiniteSet(worktrees) /\ IsFiniteSet(branches)
  BY DEF LeftInv
<1>4. ASSUME NEW f, worktrees' = worktrees \cup {f}, branches' = branches \cup {f},
             Mine' = Mine \cup {f}
      PROVE  NothingStrays /\ IsFiniteSet(worktrees') /\ IsFiniteSet(branches')
  <2>1. IsFiniteSet(worktrees') /\ IsFiniteSet(branches')
    BY <1>3, <1>4, FS_AddElement
  <2> QED
    BY <1>1, <1>4, <2>1 DEF NothingStrays, StrayTrees, StrayBranches, StrayNodes
<1>5. ASSUME NEW f, worktrees' = worktrees \ {f}, branches' = branches \ {f},
             Mine \subseteq Mine' \cup {f}
      PROVE  NothingStrays /\ IsFiniteSet(worktrees') /\ IsFiniteSet(branches')
  <2>1. IsFiniteSet(worktrees') /\ IsFiniteSet(branches')
    BY <1>3, <1>5, FS_RemoveElement
  <2> QED
    BY <1>1, <1>5, <2>1 DEF NothingStrays, StrayTrees, StrayBranches, StrayNodes
<1>6. ASSUME worktrees' \in {worktrees, {}}, branches' = branches, Mine \subseteq Mine'
      PROVE  NothingStrays /\ IsFiniteSet(worktrees') /\ IsFiniteSet(branches')
  <2>1. IsFiniteSet(worktrees') /\ IsFiniteSet(branches')
    BY <1>3, <1>6, FS_EmptySet
  <2> QED
    BY <1>1, <1>6, <2>1 DEF NothingStrays, StrayTrees, StrayBranches, StrayNodes
<1>7. CASE ProvisionBaseline \/ ProvisionFresh
  <2>1. CASE pc' = "terminal"
    <3>1. Own = {} /\ worktrees' = worktrees /\ branches' = branches
      BY <1>7, <2>1 DEF ProvisionBaseline, ProvisionFresh, Go, Own
    <3> QED
      BY <1>1, <1>6, <3>1 DEF Mine
  <2>2. CASE pc' # "terminal"
    <3>1. /\ worktrees' = worktrees \cup {Fresh} /\ branches' = branches \cup {Fresh}
          /\ pc \in {"baseline", "winner"} /\ pc' \in {"measure", "second"}
      BY <1>7, <2>2 DEF ProvisionBaseline, ProvisionFresh, Provision, Go
    <3>2. Own = {} /\ Own' = {Fresh}
      BY <1>2, <3>1 DEF Own
    <3> QED
      BY <1>1, <1>4, <3>1, <3>2 DEF Mine
  <2> QED
    BY <2>1, <2>2
<1>8. CASE ProvisionFreshWinner
  <2>1. /\ worktrees' = worktrees \cup {FreshWinner} /\ branches' = branches \cup {FreshWinner}
        /\ pc = "second" /\ pc' = "reproduce"
    <3>1. leaks \in Nat
      BY TypeParts DEF Typed
    <3> QED
      BY <1>8, <3>1 DEF ProvisionFreshWinner, Provision, Go
  <2>2. Own = {Fresh} /\ Own' = {Fresh, FreshWinner}
    BY <1>2, <2>1 DEF Own
  <2> QED
    BY <1>1, <1>4, <2>1, <2>2 DEF Mine
<1>9. CASE MeasureBaseline \/ RemoveFresh
  <2>1. /\ worktrees' = worktrees \ {Fresh} /\ branches' = branches \ {Fresh}
        /\ \/ pc = "measure"
           \/ pc = "reproduce" /\ pc' = "remove"
    BY <1>9 DEF MeasureBaseline, RemoveFresh, Destroy, Go
  <2>2. Own \subseteq Own' \cup {Fresh}
    BY <1>2, <2>1 DEF Own
  <2> QED
    BY <1>1, <1>5, <2>1, <2>2 DEF Mine
<1>10. CASE RemoveFreshWinner
  <2>1. /\ worktrees' = worktrees \ {FreshWinner} /\ branches' = branches \ {FreshWinner}
        /\ pc = "remove"
    BY <1>10 DEF RemoveFreshWinner, Destroy, Go
  <2>2. Own \subseteq Own' \cup {FreshWinner}
    BY <2>1 DEF Own
  <2> QED
    BY <1>1, <1>5, <2>1, <2>2 DEF Mine
<1>11. CASE /\ ~ProvisionBaseline /\ ~ProvisionFresh /\ ~ProvisionFreshWinner
            /\ ~MeasureBaseline /\ ~RemoveFresh /\ ~RemoveFreshWinner
  <2>1. worktrees' \in {worktrees, {}} /\ branches' = branches
    BY <1>11 DEF Bookkeeping, RecordStart, Recount, StartRound, EndLoop, FailRound,
                 SkipReproduction, RecordReproduction, EndRun, Cleanup, Interrupt, vars, files
  <2>2. pc' = pc \/ pc \notin {"measure", "second", "reproduce", "remove"}
    BY <1>11 DEF Bookkeeping, RecordStart, Recount, StartRound, EndLoop, FailRound,
                 SkipReproduction, RecordReproduction, EndRun, Cleanup, Interrupt, vars, Go
  <2>3. Own \subseteq Own'
    BY <1>2, <2>2 DEF Own
  <2> QED
    BY <1>1, <1>6, <2>1, <2>3 DEF Mine
<1> QED
  BY <1>7, <1>8, <1>9, <1>10, <1>11

LEMMA StrayMoves ==
  ASSUME TypeOK, TypeOK', PcInv, PhaseInv, PhaseInv', LeftInv, ~Escapes,
         NEW n \in Nodes, ExperimentStep(n), Accepted \subseteq Accepted'
  PROVE  /\ NothingStrays /\ IsFiniteSet(worktrees') /\ IsFiniteSet(branches')
         /\ step'[n] # "threw"
<1>1. Own' = Own /\ pc' = pc
  BY EngineAlone DEF Own, Fresh, FreshWinner
<1>2. step[n] \notin {"none", "over", "threw"}
  <2>1. CASE CallAgent(n)
    BY <2>1 DEF CallAgent, At
  <2>2. CASE ~CallAgent(n)
    BY <2>2 DEF ExperimentStep, At, ProvisionNode, CreateNode, RunNode, RecordCost,
         CheckAgent, Screen, Measure, RunGates, Decide, Accept, Throw, WriteReceipt,
         DestroyWorktree, Reject
  <2> QED
    BY <2>1, <2>2
<1>3. n \in Mine /\ n \in AtWork
  BY <1>2 DEF Mine, AtWork
<1>4. Undecided' \subseteq Undecided \cup {n}
  BY Elsewhere DEF Undecided
<1>5. \A m \in Nodes : m # n => (m \in AtWork' <=> m \in AtWork)
  BY Elsewhere DEF AtWork
<1>6. AtWork \subseteq AtWork' \cup {n} /\ Mine \subseteq Mine' \cup {n}
  <2>1. AtWork \subseteq AtWork' \cup {n}
    BY <1>5 DEF AtWork
  <2> QED
    BY <1>1, <2>1 DEF Mine
<1>7. CASE DestroyWorktree(n)
  <2>1. /\ worktrees' = worktrees \ {n} /\ node' = node
        /\ branches' = branches \/ branches' = branches \ {n}
        /\ node[n].status = "accepted" \/ branches' = branches \ {n}
        /\ step[n] = "destroy" /\ step'[n] = "over"
    BY <1>7, Moved DEF DestroyWorktree, Destroy
  <2>2. n \notin branches' \ Accepted'
    BY <2>1 DEF Accepted
  <2>3. n \notin Undecided'
    BY <2>1 DEF PhaseInv, PhaseOK, Undecided, Decided
  <2>4. IsFiniteSet(worktrees') /\ IsFiniteSet(branches')
    BY <2>1, FS_RemoveElement DEF LeftInv
  <2> QED
    BY <1>4, <1>6, <2>1, <2>2, <2>3, <2>4
       DEF NothingStrays, StrayTrees, StrayBranches, StrayNodes
<1>8. CASE ~DestroyWorktree(n)
  <2>1. /\ worktrees' \in {worktrees, worktrees \cup {n}}
        /\ branches' \in {branches, branches \cup {n}}
    BY <1>8 DEF Provision, files, ExperimentStep, ProvisionNode, CreateNode, RunNode, CallAgent,
                RecordCost, CheckAgent, Screen, Measure, RunGates, Decide, Accept, Throw, WriteReceipt
  <2>2. step'[n] \notin {"none", "over", "threw"}
    <3>1. CASE CallAgent(n)
      <4>1. calls[n] < Calls
        BY <3>1 DEF CallAgent, At, PhaseInv, PhaseOK
      <4> QED
        BY <3>1, <4>1, CallOnly, TypeParts DEF Typed
    <3>2. CASE ~CallAgent(n)
      BY <1>8, <3>2, Moved
         DEF ExperimentStep, ProvisionNode, CreateNode, RunNode, RecordCost, CheckAgent, Screen,
             Measure, RunGates, Decide, Accept, Throw, WriteReceipt, Reject
    <3> QED
      BY <3>1, <3>2
  <2>3. n \in Mine' /\ n \in AtWork'
    BY <2>2 DEF Mine, AtWork
  <2>4. IsFiniteSet(worktrees') /\ IsFiniteSet(branches')
    BY <2>1, FS_AddElement DEF LeftInv
  <2> QED
    BY <1>4, <1>6, <2>1, <2>2, <2>3, <2>4
       DEF NothingStrays, StrayTrees, StrayBranches, StrayNodes
<1> QED
  BY <1>7, <1>8

LEMMA StrayNext ==
  ASSUME TypeOK, TypeOK', PcInv, PhaseInv, PhaseInv', LeftInv, ~Escapes, [Next]_vars, ~Crash,
         leaks' = leaks
  PROVE  /\ NothingStrays /\ IsFiniteSet(worktrees') /\ IsFiniteSet(branches')
         /\ \A n \in Nodes : step'[n] # "threw"
<1>0. Accepted \subseteq Accepted'
  BY AcceptedGrows
<1>1. CASE Bookkeeping
  BY <1>1, StrayBooked, Booked DEF LeftInv
<1>2. CASE StartEngine \/ SettleRound
  <2>1. UNCHANGED <<node, worktrees, branches>> /\ \A n \in Nodes : step'[n] = "none"
    BY <1>2, ResetOnly DEF Reset
  <2>2. pc \in {"down", "wait"} /\ AtWork = {}
    BY <1>2 DEF StartEngine, SettleRound, Go, AtWork
  <2>3. Mine = {}
    BY <2>2 DEF Mine, Own
  <2> QED
    BY <2>1, <2>2, <2>3
       DEF NothingStrays, StrayTrees, StrayBranches, StrayNodes, LeftInv, Accepted, Undecided
<1>3. CASE Launch
  <2>1. UNCHANGED <<worktrees, branches>> /\ \A n \in Nodes : step[n] = "none"
    BY <1>3, LaunchIds
  <2>2. pc = "launch" /\ AtWork = {}
    BY <1>3, <2>1 DEF Launch, Go, AtWork
  <2>3. Mine = {}
    BY <2>2 DEF Mine, Own
  <2>4. Undecided' \subseteq Undecided
    BY <1>3, LaunchOnly DEF Undecided
  <2>5. \A n \in Nodes : step'[n] # "threw"
    BY <1>3, <2>1, LaunchOnly
  <2> QED
    BY <1>0, <2>1, <2>2, <2>3, <2>4, <2>5
       DEF NothingStrays, StrayTrees, StrayBranches, StrayNodes, LeftInv
<1>4. CASE GradeWinner \/ RefreshReceipt
  <2>1. /\ UNCHANGED <<worktrees, branches, step>>
        /\ \A n \in Nodes : node'[n].status = node[n].status
    BY <1>4, GradeOnly, RefreshOnly
  <2>2. pc \in {"grade", "refresh"} /\ pc' \in {"refresh", "terminal"}
    BY <1>4 DEF GradeWinner, RefreshReceipt, Go
  <2>3. AtWork' = AtWork /\ Undecided' = Undecided
    BY <2>1 DEF AtWork, Undecided
  <2>4. Mine' = Mine
    BY <2>2, <2>3 DEF Mine, Own
  <2> QED
    BY <1>0, <2>1, <2>3, <2>4 DEF NothingStrays, StrayTrees, StrayBranches, StrayNodes, LeftInv
<1>5. ASSUME NEW n \in Nodes, ExperimentStep(n)
      PROVE  /\ NothingStrays /\ IsFiniteSet(worktrees') /\ IsFiniteSet(branches')
             /\ \A m \in Nodes : step'[m] # "threw"
  BY <1>0, <1>5, StrayMoves, Elsewhere DEF LeftInv
<1> QED
  BY <1>1, <1>2, <1>3, <1>4, <1>5, NextCases DEF Reset

\* No more than two worktrees are the engine's own, and then no experiment is
\* at work; no more experiments are at work than run in parallel.
LEMMA AtWorkAtOnce ==
  ASSUME TypeOK, PcInv, SpendInv
  PROVE  /\ IsFiniteSet(Mine) /\ Cardinality(Mine) <= Width
         /\ IsFiniteSet(AtWork) /\ Cardinality(AtWork) <= Parallel
<1>1. /\ IsFiniteSet(AtWork) /\ Cardinality(AtWork) <= Parallel
      /\ Cardinality(AtWork) \in Nat
  <2>1. AtWork \subseteq Busy /\ Busy \subseteq Nodes
    BY DEF AtWork, Busy
  <2>2. /\ Cardinality(AtWork) <= Cardinality(Busy) /\ Cardinality(AtWork) \in Nat
        /\ IsFiniteSet(AtWork)
    BY <2>1, Counting
  <2> QED
    BY <2>2, SpendTypes, Constants DEF SpendInv
<1>2. CASE pc \in {"measure", "second", "reproduce", "remove"}
  <2>1. Mine \subseteq {Fresh, FreshWinner}
    BY <1>2 DEF Mine, AtWork, Own, PcInv, Alone
  <2>2. IsFiniteSet({Fresh, FreshWinner}) /\ Cardinality({Fresh, FreshWinner}) <= 2
    <3>1. IsFiniteSet({Fresh}) /\ Cardinality({Fresh}) = 1
      BY FS_Singleton
    <3>2. /\ IsFiniteSet({Fresh} \cup {FreshWinner})
          /\ Cardinality({Fresh} \cup {FreshWinner}) \in {1, 2}
      BY <3>1, FS_AddElement
    <3>3. {Fresh} \cup {FreshWinner} = {Fresh, FreshWinner}
      OBVIOUS
    <3> QED
      BY <3>2, <3>3
  <2>3. /\ IsFiniteSet(Mine) /\ Cardinality(Mine) <= Cardinality({Fresh, FreshWinner})
        /\ Cardinality(Mine) \in Nat /\ Cardinality({Fresh, FreshWinner}) \in Nat
    BY <2>1, <2>2, FS_Subset, FS_CardinalityType
  <2> QED
    BY <1>1, <2>2, <2>3, Widths
<1>3. CASE pc \notin {"measure", "second", "reproduce", "remove"}
  <2>1. Mine = AtWork
    BY <1>3 DEF Mine, Own
  <2> QED
    BY <1>1, <2>1, Widths, Constants
<1> QED
  BY <1>2, <1>3

\* What is left when those at work are cut.
LEMMA CutLeaves ==
  ASSUME NEW S, IsFiniteSet(S), NEW M, IsFiniteSet(M),
         NEW w \in Nat, Cardinality(M) <= w, NEW b \in Nat, Cardinality(S \ M) <= b
  PROVE  Cardinality(S) <= b + w
<1>1. IsFiniteSet(S \ M) /\ Cardinality(S \ M) \in Nat /\ Cardinality(M) \in Nat
  BY FS_Difference, FS_CardinalityType
<1>2. /\ IsFiniteSet((S \ M) \cup M)
      /\ Cardinality((S \ M) \cup M) =
           Cardinality(S \ M) + Cardinality(M) - Cardinality((S \ M) \cap M)
  BY <1>1, FS_Union
<1>3. (S \ M) \cap M = {} /\ Cardinality({}) = 0
  BY FS_EmptySet
<1>4. Cardinality(S) <= Cardinality((S \ M) \cup M) /\ Cardinality(S) \in Nat
  <2>1. S \subseteq (S \ M) \cup M
    OBVIOUS
  <2> QED
    BY <1>2, <2>1, FS_Subset, FS_CardinalityType
<1> QED
  BY <1>1, <1>2, <1>3, <1>4

LEMMA LeftCrash ==
  ASSUME TypeOK, PcInv, SpendInv, LeftInv, Crash
  PROVE  LeftInv'
<1>1. /\ UNCHANGED <<summary, node, worktrees, branches>> /\ pc' = "down"
      /\ \A n \in Nodes : step'[n] = "none"
      /\ crashes' = crashes + 1 /\ leaks' = leaks
  BY DEF Crash, files
<1>2. Accepted' = Accepted /\ Undecided' = Undecided /\ Mine' = {} /\ AtWork' = {}
  BY <1>1 DEF Accepted, Undecided, Mine, Own, AtWork
<1>3. IsFiniteSet(worktrees) /\ IsFiniteSet(branches \ Accepted) /\ IsFiniteSet(Undecided)
  BY FS_Difference, Counting DEF LeftInv, Undecided
<1>4. crashes \in Nat /\ leaks \in Nat /\ Parallel * crashes \in Nat /\ Parallel \in Nat
  BY SpendTypes, Constants, TypeParts DEF Typed
<1>5. /\ Left(crashes', leaks') = Left(crashes, leaks) + Width /\ Left(crashes, leaks) \in Nat
      /\ Parallel * crashes' = Parallel * crashes + Parallel /\ Width \in Nat
  BY <1>1, <1>4, Widths, Products
<1>6. /\ Cardinality(worktrees) <= Left(crashes', leaks')
      /\ Cardinality(branches \ Accepted) <= Left(crashes', leaks')
  BY <1>3, <1>5, AtWorkAtOnce, CutLeaves DEF LeftInv, StrayTrees, StrayBranches
<1>7. Cardinality(Undecided) <= Parallel * crashes'
  BY <1>3, <1>4, <1>5, AtWorkAtOnce, CutLeaves DEF LeftInv, StrayNodes
<1>8. StrayTrees' = worktrees /\ StrayBranches' = branches \ Accepted /\ StrayNodes' = Undecided
  BY <1>1, <1>2 DEF StrayTrees, StrayBranches, StrayNodes
<1>9. ASSUME summary'.finished
      PROVE  Cardinality(worktrees') <= Left(crashes' - 1, leaks')
  <2>1. pc = "cleanup"
    BY <1>1, <1>9 DEF LeftInv, Crash
  <2>2. StrayTrees = worktrees
    BY <2>1 DEF LeftInv, StrayTrees, Mine, Own, AtWork
  <2>3. crashes' - 1 = crashes
    BY <1>1, <1>4
  <2> QED
    BY <1>1, <2>2, <2>3 DEF LeftInv
<1> QED
  BY <1>1, <1>3, <1>6, <1>7, <1>8, <1>9 DEF LeftInv

\* The second provision of a reproduction fails, and the first is left.
LEMMA LeftLeak ==
  ASSUME TypeOK, PcInv, LeftInv, ProvisionFreshWinner, leaks' # leaks
  PROVE  LeftInv'
<1>1. /\ UNCHANGED <<summary, node, worktrees, branches, step, crashes>>
      /\ pc = "second" /\ pc' = "terminal" /\ leaks' = leaks + 1
  BY DEF ProvisionFreshWinner, Go, experiments
<1>2. Accepted' = Accepted /\ Undecided' = Undecided /\ AtWork' = AtWork
  BY <1>1 DEF Accepted, Undecided, AtWork
<1>3. Mine = {Fresh} /\ Mine' = {}
  <2>1. AtWork = {}
    BY <1>1 DEF LeftInv, AtWork
  <2>2. Own = {Fresh} /\ Own' = {}
    BY <1>1 DEF Own
  <2> QED
    BY <1>2, <2>1, <2>2 DEF Mine
<1>4. IsFiniteSet({Fresh}) /\ Cardinality({Fresh}) = 1
  BY FS_Singleton
<1>5. IsFiniteSet(worktrees) /\ IsFiniteSet(branches \ Accepted)
  BY FS_Difference DEF LeftInv
<1>6. Left(crashes', leaks') = Left(crashes, leaks) + 1 /\ Left(crashes, leaks) \in Nat
  <2>1. crashes \in Nat /\ leaks \in Nat
    BY TypeParts DEF Typed
  <2> QED
    BY <1>1, <2>1, Widths
<1>7. /\ Cardinality(worktrees) <= Left(crashes', leaks')
      /\ Cardinality(branches \ Accepted) <= Left(crashes', leaks')
  <2>1. Cardinality(worktrees \ {Fresh}) <= Left(crashes, leaks)
    BY <1>3 DEF LeftInv, StrayTrees
  <2>2. Cardinality((branches \ Accepted) \ {Fresh}) <= Left(crashes, leaks)
    BY <1>3 DEF LeftInv, StrayBranches
  <2> QED
    BY <1>4, <1>5, <1>6, <2>1, <2>2, CutLeaves
<1>8. /\ StrayTrees' = worktrees /\ StrayBranches' = branches \ Accepted
      /\ StrayNodes' = StrayNodes
  BY <1>1, <1>2, <1>3 DEF StrayTrees, StrayBranches, StrayNodes
<1> QED
  BY <1>1, <1>7, <1>8 DEF LeftInv

\* Without experiments that escape their round, none runs outside it.
LEMMA PcLeft ==
  ASSUME TypeOK, PcInv, PhaseInv, LeftInv, [Next]_vars, ~Crash
  PROVE  pc' # "wait" => \A n \in Nodes : step'[n] = "none"
<1>1. CASE Bookkeeping
  <2>1. pc' = "wait" \/ pc # "wait"
    BY <1>1
       DEF LeftInv, Bookkeeping, RecordStart, ProvisionBaseline, MeasureBaseline, Recount,
           StartRound, EndLoop, FailRound, ProvisionFresh, ProvisionFreshWinner,
           SkipReproduction, RemoveFresh, RemoveFreshWinner, RecordReproduction, EndRun,
           Cleanup, Interrupt, vars, Go
  <2> QED
    BY <1>1, <2>1, Booked DEF LeftInv
<1>2. CASE Reset
  BY <1>2, ResetOnly
<1>3. CASE Launch
  BY <1>3 DEF Launch, Go
<1>4. CASE GradeWinner \/ RefreshReceipt
  BY <1>4, GradeOnly, RefreshOnly DEF GradeWinner, RefreshReceipt, Go, LeftInv
<1>5. ASSUME NEW n \in Nodes, ExperimentStep(n) PROVE pc' = "wait"
  BY <1>5, Launched, EngineAlone DEF PhaseInv, LeftInv
<1> QED
  BY <1>1, <1>2, <1>3, <1>4, <1>5, NextCases

LEMMA FinishedLeft ==
  ASSUME TypeOK, PcInv, PhaseInv, LeftInv, [Next]_vars, ~Crash, summary'.finished
  PROVE  /\ pc' \in {"cleanup", "down"} /\ crashes' = crashes /\ leaks' = leaks
         /\ pc' = "down" => worktrees' = {} \/ (pc = "down" /\ summary.finished /\ worktrees' = worktrees)
<1>1. ~Launch /\ ~GradeWinner /\ ~RefreshReceipt /\ ~SettleRound /\ ~StartEngine
  BY DEF Launch, GradeWinner, RefreshReceipt, SettleRound, StartEngine, Go, LeftInv
<1>2. ASSUME NEW n \in Nodes, ExperimentStep(n) PROVE FALSE
  <2>1. step[n] # "none" /\ summary.finished
    BY <1>2, Launched, EngineAlone DEF PhaseInv
  <2> QED
    BY <2>1 DEF LeftInv
<1>3. Bookkeeping
  BY <1>1, <1>2, NextCases DEF Reset
<1>4. CASE EndRun \/ Cleanup
  BY <1>4 DEF EndRun, Cleanup, Go, user
<1>5. CASE Interrupt \/ UNCHANGED vars
  BY <1>5 DEF Interrupt, vars, files, user, LeftInv
<1>6. CASE ~(EndRun \/ Cleanup \/ Interrupt \/ UNCHANGED vars)
  <2>1. summary.finished
    BY <1>3, <1>6, TypeParts
       DEF Typed, Summaries, Bookkeeping, RecordStart, ProvisionBaseline, MeasureBaseline, Recount,
           StartRound, EndLoop, FailRound, ProvisionFresh, ProvisionFreshWinner,
           SkipReproduction, RemoveFresh, RemoveFreshWinner, RecordReproduction
  <2> QED
    BY <1>3, <1>6, <2>1
       DEF LeftInv, Bookkeeping, RecordStart, ProvisionBaseline, MeasureBaseline, Recount,
           StartRound, EndLoop, FailRound, ProvisionFresh, ProvisionFreshWinner,
           SkipReproduction, RemoveFresh, RemoveFreshWinner, RecordReproduction, Go
<1> QED
  BY <1>4, <1>5, <1>6

\* Only these two count.
LEMMA Counted ==
  ASSUME TypeOK, [Next]_vars, ~Crash
  PROVE  crashes' = crashes /\ (leaks' # leaks => ProvisionFreshWinner)
<1>1. ASSUME NEW n \in Nodes, ExperimentStep(n) PROVE UNCHANGED <<crashes, leaks>>
  BY <1>1, EngineAlone
<1>2. CASE StartEngine \/ Interrupt \/ UNCHANGED vars
  BY <1>2 DEF StartEngine, Interrupt, vars, user
<1>3. CASE EngineStep
  BY <1>3 DEF EngineStep, RecordStart, ProvisionBaseline, MeasureBaseline, Recount, StartRound,
     EndLoop, Launch, SettleRound, FailRound, ProvisionFresh, ProvisionFreshWinner,
     SkipReproduction, RemoveFresh, RemoveFreshWinner, RecordReproduction, GradeWinner,
     RefreshReceipt, EndRun, Cleanup, user
<1> QED
  BY <1>1, <1>2, <1>3 DEF Next

LEMMA LeftNext ==
  ASSUME TypeOK, TypeOK', PcInv, PhaseInv, PhaseInv', SpendInv, LeftInv, ~Escapes, [Next]_vars
  PROVE  LeftInv'
<1>1. CASE Crash
  BY <1>1, LeftCrash
<1>2. CASE ~Crash /\ leaks' # leaks
  BY <1>2, Counted, LeftLeak
<1>3. CASE ~Crash /\ leaks' = leaks
  <2>1. NothingStrays /\ IsFiniteSet(worktrees') /\ IsFiniteSet(branches')
        /\ \A n \in Nodes : step'[n] # "threw"
    BY <1>3, StrayNext
  <2>2. IsFiniteSet(StrayTrees) /\ IsFiniteSet(StrayBranches) /\ IsFiniteSet(StrayNodes)
    BY FS_Difference, Counting DEF LeftInv, StrayTrees, StrayBranches, StrayNodes, Undecided
  <2>3. crashes' = crashes
    BY <1>3, Counted
  <2>4. /\ Cardinality(StrayTrees') <= Cardinality(StrayTrees)
        /\ Cardinality(StrayBranches') <= Cardinality(StrayBranches)
        /\ Cardinality(StrayNodes') <= Cardinality(StrayNodes)
        /\ Cardinality(StrayTrees') \in Nat /\ Cardinality(StrayTrees) \in Nat
        /\ Cardinality(StrayBranches') \in Nat /\ Cardinality(StrayBranches) \in Nat
        /\ Cardinality(StrayNodes') \in Nat /\ Cardinality(StrayNodes) \in Nat
    BY <2>1, <2>2, FS_Subset, FS_CardinalityType DEF NothingStrays
  <2>5. /\ Left(crashes, leaks) \in Nat /\ Left(crashes', leaks') = Left(crashes, leaks)
        /\ Parallel * crashes \in Nat
    BY <1>3, <2>3, SpendTypes, Widths, TypeParts DEF Typed
  <2>6. /\ Cardinality(StrayTrees') <= Left(crashes', leaks')
        /\ Cardinality(StrayBranches') <= Left(crashes', leaks')
        /\ Cardinality(StrayNodes') <= Parallel * crashes'
    BY <2>3, <2>4, <2>5 DEF LeftInv
  <2>7. pc' # "wait" => \A n \in Nodes : step'[n] = "none"
    BY <1>3, PcLeft
  <2>8. ASSUME summary'.finished
        PROVE  /\ pc' \in {"cleanup", "down"}
               /\ pc' = "down" /\ worktrees' # {} =>
                    Cardinality(worktrees') <= Left(crashes' - 1, leaks')
    BY <1>3, <2>8, FinishedLeft DEF LeftInv
  <2> QED
    BY <2>1, <2>6, <2>7, <2>8 DEF LeftInv
<1> QED
  BY <1>1, <1>2, <1>3

-----------------------------------------------------------------------------
(* Theorems *)

LoopInv == /\ TypeOK /\ PcInv /\ PhaseInv /\ EvidenceInv /\ ReceiptInv
           /\ BranchInv /\ RoundInv /\ LimitInv /\ SpendInv

LEMMA LoopInit == Init => LoopInv
<1> SUFFICES ASSUME Init PROVE LoopInv
  OBVIOUS
<1>1. TypeOK
  BY TypeInit
<1>2. /\ \A n \in Nodes : step[n] = "none" /\ node[n] = NoNode /\ receipt[n] = NoReceipt
                        /\ flaw[n] = "none" /\ calls[n] = 0
      /\ pc = "down" /\ summary.round = 0 /\ engine.receipts = {} /\ Accepted = {}
      /\ spent = 0 /\ summary.cost = 0 /\ crashes = 0
  BY DEF Init, Accepted, NoNode, Forgotten
<1>3. PcInv /\ PhaseInv
  BY <1>2 DEF PcInv, Alone, PhaseInv, PhaseOK, NoNode
<1>4. EvidenceInv
  BY <1>2 DEF EvidenceInv, EvidenceOK, NoNode, Early, NoScore
<1>5. ReceiptInv /\ BranchInv
  BY <1>2 DEF ReceiptInv, ReceiptOK, BranchInv, BranchOK, NoNode
<1>6. RoundInv
  BY <1>2 DEF RoundInv, RoundOK, TargetInv, LaterRoundsBetter, NoNode
<1>7. LimitInv
  <2>1. Live = {}
    BY <1>2 DEF Live, NoNode
  <2> QED
    BY <1>2, <2>1, FS_EmptySet, Constants DEF LimitInv
<1>8. SpendInv
  <2>1. Busy = {} /\ Charging = {} /\ Cardinality({}) = 0
    BY <1>2, FS_EmptySet DEF Busy, Charging
  <2> QED
    BY <1>1, <1>2, <2>1, SpendTypes, Constants DEF SpendInv, SpendBound
<1> QED
  BY <1>1, <1>3, <1>4, <1>5, <1>6, <1>7, <1>8 DEF LoopInv

LEMMA LoopNext == LoopInv /\ [Next]_vars => LoopInv'
<1> SUFFICES ASSUME LoopInv, [Next]_vars PROVE LoopInv'
  OBVIOUS
<1> USE DEF LoopInv
<1>1. TypeOK'
  BY TypeNext
<1>2. PcInv' /\ PhaseInv'
  BY PcNext, PhaseNext
<1>3. EvidenceInv' /\ ReceiptInv' /\ BranchInv'
  BY <1>1, EvidenceNext, ReceiptNext, BranchNext
<1>4. RoundInv' /\ LimitInv'
  BY <1>1, RoundNext, LimitNext
<1>5. SpendInv'
  BY <1>1, <1>2, SpendNext
<1> QED
  BY <1>1, <1>2, <1>3, <1>4, <1>5

LEMMA LoopInvariant == Spec => []LoopInv
BY LoopInit, LoopNext, PTL DEF Spec

\* Type correctness of the optimize engine.
THEOREM LoopTypeCorrect == Spec => []TypeOK
<1>1. LoopInv => TypeOK
  BY DEF LoopInv
<1> QED
  BY <1>1, LoopInvariant, PTL

\* What is accepted passed every check and beats the baseline, it alone has a
\* grade, and nothing that was screened out was ever scored: runOneExperiment,
\* whatever throws, crashes or escapes its round.
THEOREM SoundAccepted == Spec => []OnlySoundAccepted
<1>1. LoopInv => OnlySoundAccepted
  BY DEF LoopInv, EvidenceInv, EvidenceOK, Early, OnlySoundAccepted, Accepted
<1> QED
  BY <1>1, LoopInvariant, PTL

\* A round that accepts anything beats every earlier one, over resumes.
THEOREM RoundsImprove == Spec => []LaterRoundsBetter
<1>1. LoopInv => LaterRoundsBetter
  BY DEF LoopInv, RoundInv
<1> QED
  BY <1>1, LoopInvariant, PTL

\* An accepted node has its branch, and experiments hang on accepted nodes.
THEOREM AcceptedBranches == Spec => []AcceptedBranchesKept
<1>1. LoopInv => AcceptedBranchesKept
  BY DEF LoopInv, BranchInv, BranchOK, AcceptedBranchesKept, Accepted
<1> QED
  BY <1>1, LoopInvariant, PTL

\* maxNodes bounds the experiments of all engines together.
THEOREM NodesLimited == Spec => []NodeLimit
<1>1. LoopInv => NodeLimit
  <2> SUFFICES ASSUME LoopInv PROVE NodeLimit
    OBVIOUS
  <2> DEFINE ran == {n \in Nodes : node[n].status \notin {"absent", "pending"}}
  <2>1. Live \subseteq Nodes /\ ran \subseteq Live
    BY DEF Live
  <2>2. Cardinality(ran) <= Cardinality(Live) /\ Cardinality(ran) \in Nat /\ Cardinality(Live) \in Nat
    BY <2>1, Counting
  <2>3. Cardinality(Live) <= MaxNodes
    BY DEF LoopInv, LimitInv
  <2>4. Cardinality(ran) <= MaxNodes
    BY <2>2, <2>3, Constants
  <2> QED
    BY <2>4 DEF NodeLimit
<1> QED
  BY <1>1, LoopInvariant, PTL

\* The spend is over the budget by no more than one round and what kills hid.
THEOREM SpendLimited == Spec => []SpendBound
<1>1. LoopInv => SpendBound
  BY DEF LoopInv, SpendInv
<1> QED
  BY <1>1, LoopInvariant, PTL

\* Receipts and log tell the same.
THEOREM ReceiptsAgree == Spec => []ReceiptsTellLog
<1>1. LoopInv => ReceiptsTellLog
  BY DEF LoopInv, ReceiptInv, ReceiptOK, ReceiptsTellLog
<1> QED
  BY <1>1, LoopInvariant, PTL

\* Verdict and score of a decided node stand.
THEOREM VerdictsFinal == Spec => DecisionsFinal
<1>1. LoopInv /\ [Next]_vars =>
        [\A n \in Nodes : node[n].status \in Decided =>
           /\ node'[n].status = node[n].status
           /\ node'[n].score = node[n].score]_vars
  BY Final DEF LoopInv
<1> QED
  BY <1>1, LoopInvariant, PTL DEF Spec, DecisionsFinal

\* A run that finishes has swept its worktrees; each kill leaves at most a
\* branch for each worktree in use and a node for each experiment of a round,
\* each reproduction cut short one branch.
THEOREM CleanFinish == ~Escapes => (Spec => []FinishIsClean)
<1> SUFFICES ASSUME ~Escapes PROVE Spec => []FinishIsClean
  OBVIOUS
<1>1. Init => LeftInv
  <2> SUFFICES ASSUME Init PROVE LeftInv
    OBVIOUS
  <2>1. /\ Undecided = {} /\ worktrees = {} /\ branches = {} /\ ~summary.finished
        /\ crashes = 0 /\ leaks = 0 /\ \A n \in Nodes : step[n] = "none"
    BY DEF Init, Undecided, NoNode
  <2>2. IsFiniteSet({}) /\ Cardinality({}) = 0 /\ Parallel * 0 = 0 /\ Left(0, 0) \in Nat
    BY FS_EmptySet, Constants, Widths
  <2>3. StrayTrees = {} /\ StrayBranches = {} /\ StrayNodes = {}
    BY <2>1 DEF StrayTrees, StrayBranches, StrayNodes
  <2> QED
    BY <2>1, <2>2, <2>3 DEF LeftInv
<1>2. LeftInv /\ LoopInv /\ LoopInv' /\ [Next]_vars => LeftInv'
  BY LeftNext DEF LoopInv
<1>3. LeftInv /\ LoopInv => FinishIsClean
  <2> SUFFICES ASSUME LeftInv, LoopInv, summary.finished
               PROVE  /\ pc = "down" /\ worktrees # {} =>
                           Cardinality(worktrees) <= Width * (crashes - 1) + leaks
                      /\ Cardinality(branches \ Accepted) <= Width * crashes + leaks
                      /\ Cardinality(Undecided) <= Parallel * crashes
    BY DEF FinishIsClean, Undecided
  <2>1. AtWork = {} /\ pc \in {"cleanup", "down"}
    BY DEF LeftInv, AtWork
  <2>2. Mine = {}
    BY <2>1 DEF Mine, Own
  <2>3. StrayBranches = branches \ Accepted /\ StrayNodes = Undecided
    BY <2>1, <2>2 DEF StrayBranches, StrayNodes
  <2> QED
    BY <2>3 DEF LeftInv, Left
<1> QED
  BY <1>1, <1>2, <1>3, LoopInvariant, PTL DEF Spec

=============================================================================
