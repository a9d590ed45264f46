------------------------- MODULE FleetClientProofs -------------------------
(***************************************************************************)
(* Proofs about the dashboard's store, ControlPlane, and about its clients,*)
(* FleetClient, which extends it:                                          *)
(*   - of the store, for any sets of repositories and runs and any cap:    *)
(*     type correctness, RefsIntact, OverIsDated and DecisionStands;       *)
(*   - of any number of clients, status lines and calls of other users,    *)
(*     with a network that loses and delays: their steps are steps of the  *)
(*     store, so that what is shown of it holds for them; and              *)
(*     OutcomeIsLast.                                                      *)
(***************************************************************************)
EXTENDS FleetClient, TLAPS

-----------------------------------------------------------------------------
(* The store *)

\* How the elements of a run record are typed, and what the updates keep.
LEMMA RunFacts ==
  /\ \A repo \in Repos : NewRun(repo) \in Run
  /\ \A run \in Run, patch \in Patch : Patched(run, patch) \in Run
  /\ \A run \in Run, approved \in BOOLEAN : Decide(run, approved) \in Run
  /\ \A run \in Run :
       [run EXCEPT !.status = "waiting-approval", !.approval = "pending"] \in Run
<1> USE DEF Run, Statuses, Over, Decided
<1>1. \A repo \in Repos : NewRun(repo) \in Run
  BY DEF NewRun
<1>2. ASSUME NEW run \in Run, NEW patch \in Patch
      PROVE  Patched(run, patch) \in Run
  <2>1. (IF patch.status = "keep" THEN run.status ELSE patch.status) \in Statuses
    BY DEF Patch
  <2>2. (\/ patch.finishedAt = "set"
         \/ patch.finishedAt = "keep" /\ run.finishedAt
         \/ (IF patch.status = "keep" THEN run.status ELSE patch.status) \in Over) \in BOOLEAN
    OBVIOUS
  <2>3. QED
    BY <2>1, <2>2 DEF Patched
<1>3. ASSUME NEW run \in Run, NEW approved \in BOOLEAN
      PROVE  Decide(run, approved) \in Run
  BY DEF Decide
<1>4. \A run \in Run :
        [run EXCEPT !.status = "waiting-approval", !.approval = "pending"] \in Run
  OBVIOUS
<1>5. QED
  BY <1>1, <1>2, <1>3, <1>4

\* An update or a decision leaves a run to its repository, and dates its end.
LEMMA EndsAreDated ==
  ASSUME NEW run \in Run
  PROVE  /\ \A patch \in Patch :
              /\ Patched(run, patch).repo = run.repo
              /\ Patched(run, patch).status \in Over => Patched(run, patch).finishedAt
         /\ \A approved \in BOOLEAN :
              /\ Decide(run, approved).repo = run.repo
              /\ Decide(run, approved).status \in Over => Decide(run, approved).finishedAt
<1>1. ASSUME NEW patch \in Patch
      PROVE  /\ Patched(run, patch).repo = run.repo
             /\ Patched(run, patch).status \in Over => Patched(run, patch).finishedAt
  BY DEF Patched, Run
<1>2. Decide(run, TRUE).repo = run.repo /\ Decide(run, TRUE).status = "running"
  BY DEF Decide, Run
<1>3. Decide(run, FALSE).repo = run.repo /\ Decide(run, FALSE).finishedAt
  BY DEF Decide, Run
<1>4. "running" \notin Over
  BY DEF Over
<1>5. QED
  BY <1>1, <1>2, <1>3, <1>4

\* The one shape of most operations: run r becomes another record.
LEMMA ReplaceRun ==
  ASSUME NEW r \in DOMAIN runs, NEW new, runs' = [runs EXCEPT ![r] = new]
  PROVE  /\ DOMAIN runs' = DOMAIN runs
         /\ runs'[r] = new
         /\ \A q \in DOMAIN runs : q # r => runs'[q] = runs[q]
OBVIOUS

\* Runs are dated when they are over, typed, and have their repository.
StoreInv == StoreTypeOK /\ RefsIntact /\ OverIsDated

LEMMA StoreInvInit == StoreInit => StoreInv
BY DEF StoreInit, StoreInv, StoreTypeOK, RefsIntact, OverIsDated

LEMMA StoreInvNext == StoreInv /\ [StoreNext]_storeVars => StoreInv'
<1> SUFFICES ASSUME StoreInv, [StoreNext]_storeVars
             PROVE  StoreInv'
  OBVIOUS
<1> USE DEF StoreInv, StoreTypeOK, RefsIntact, OverIsDated
<1>1. ASSUME NEW repo \in Repos, ConnectRepository(repo)
      PROVE  StoreInv'
  BY <1>1 DEF ConnectRepository
<1>2. ASSUME NEW repo \in Repos, DisconnectRepository(repo)
      PROVE  StoreInv'
  BY <1>2 DEF DisconnectRepository
<1>3. ASSUME NEW repo \in Repos, NEW r \in RunIds, CreateRun(r, repo)
      PROVE  StoreInv'
  <2>1. NewRun(repo) \in Run /\ NewRun(repo).repo = repo /\ NewRun(repo).status = "queued"
    BY RunFacts DEF NewRun
  <2>2. DOMAIN runs' = DOMAIN runs \cup {r}
    BY <1>3 DEF CreateRun
  <2>3. \A q \in DOMAIN runs' : runs'[q] = IF q = r THEN NewRun(repo) ELSE runs[q]
    BY <1>3 DEF CreateRun
  <2>4. repos' = repos /\ repo \in repos /\ activities' = activities /\ appended' = appended
    BY <1>3 DEF CreateRun
  <2>5. QED
    BY <2>1, <2>2, <2>3, <2>4 DEF Over
<1>4. ASSUME NEW r \in RunIds, NEW patch \in Patch, UpdateRun(r, patch)
      PROVE  StoreInv'
  <2> DEFINE new == Patched(runs[r], patch)
  <2>1. r \in DOMAIN runs /\ runs' = [runs EXCEPT ![r] = new]
    BY <1>4 DEF UpdateRun
  <2>2. new \in Run /\ new.repo = runs[r].repo /\ (new.status \in Over => new.finishedAt)
    BY <2>1, RunFacts, EndsAreDated DEF StoreInv, StoreTypeOK
  <2>3. QED
    <3> HIDE DEF new
    <3> QED BY <1>4, <2>1, <2>2, ReplaceRun DEF UpdateRun
<1>5. ASSUME NEW r \in RunIds, AppendActivity(r)
      PROVE  StoreInv'
  <2>1. activities' \subseteq activities \cup {[no |-> appended + 1, run |-> r]}
    BY <1>5 DEF AppendActivity, Latest
  <2>2. [no |-> appended + 1, run |-> r] \in Activity
    BY DEF Activity
  <2>3. r \in DOMAIN runs /\ runs' = runs /\ repos' = repos /\ appended' = appended + 1
    BY <1>5 DEF AppendActivity
  <2>4. activities' \subseteq Activity
    BY <2>1, <2>2
  <2>5. \A a \in activities' : a.run \in DOMAIN runs
    BY <2>1, <2>3
  <2>6. QED
    BY <2>3, <2>4, <2>5
<1>6. ASSUME NEW r \in RunIds, RequestApproval(r)
      PROVE  StoreInv'
  <2> DEFINE new == [runs[r] EXCEPT !.status = "waiting-approval", !.approval = "pending"]
  <2>1. r \in DOMAIN runs /\ runs' = [runs EXCEPT ![r] = new]
    BY <1>6 DEF RequestApproval
  <2>2. new \in Run /\ new.repo = runs[r].repo /\ new.status = "waiting-approval"
    BY <2>1, RunFacts DEF Run
  <2>3. QED
    <3> HIDE DEF new
    <3> QED BY <1>6, <2>1, <2>2, ReplaceRun DEF RequestApproval, Over
<1>7. ASSUME NEW r \in RunIds, NEW approved \in BOOLEAN, DecideApproval(r, approved)
      PROVE  StoreInv'
  <2> DEFINE new == Decide(runs[r], approved)
  <2>1. r \in DOMAIN runs /\ runs' = [runs EXCEPT ![r] = new]
    BY <1>7 DEF DecideApproval
  <2>2. new \in Run /\ new.repo = runs[r].repo /\ (new.status \in Over => new.finishedAt)
    BY <2>1, RunFacts, EndsAreDated DEF StoreInv, StoreTypeOK
  <2>3. QED
    <3> HIDE DEF new
    <3> QED BY <1>7, <2>1, <2>2, ReplaceRun DEF DecideApproval
<1>8. CASE UNCHANGED storeVars
  BY <1>8 DEF storeVars
<1>9. QED
  BY <1>1, <1>2, <1>3, <1>4, <1>5, <1>6, <1>7, <1>8 DEF StoreNext

\* The store's variables have their types in every reachable state.
THEOREM StoreTypeCorrect == StoreSpec => []StoreTypeOK
<1>1. StoreInv => StoreTypeOK
  BY DEF StoreInv
<1>2. QED
  BY <1>1, StoreInvInit, StoreInvNext, PTL DEF StoreSpec

\* No run is ever without its repository and no activity without its run
\* (disconnectRepository, createRun and appendActivity together).
THEOREM ReferencesIntact == StoreSpec => []RefsIntact
<1>1. StoreInv => RefsIntact
  BY DEF StoreInv
<1>2. QED
  BY <1>1, StoreInvInit, StoreInvNext, PTL DEF StoreSpec

\* A run shown as over is dated, whichever operation ended it.
THEOREM OverDated == StoreSpec => []OverIsDated
<1>1. StoreInv => OverIsDated
  BY DEF StoreInv
<1>2. QED
  BY <1>1, StoreInvInit, StoreInvNext, PTL DEF StoreSpec

-----------------------------------------------------------------------------
(* The store: decisions *)

Stands ==
  \A r \in DOMAIN runs \cap DOMAIN runs' :
    runs[r].approval \in Decided =>
      \/ runs'[r].approval \in {runs[r].approval, "pending"}
      \/ runs'[r] = NewRun(runs'[r].repo)

LEMMA StoreStepStands == StoreInv /\ [StoreNext]_storeVars => Stands
<1> SUFFICES ASSUME StoreInv, [StoreNext]_storeVars
             PROVE  Stands
  OBVIOUS
<1> USE DEF Stands
<1>1. CASE runs' = runs
  BY <1>1
<1>2. ASSUME NEW repo \in Repos, DisconnectRepository(repo)
      PROVE  Stands
  BY <1>2 DEF DisconnectRepository
<1>3. ASSUME NEW repo \in Repos, NEW r \in RunIds, CreateRun(r, repo)
      PROVE  Stands
  BY <1>3 DEF CreateRun, NewRun
<1>4. ASSUME NEW r \in RunIds, NEW patch \in Patch, UpdateRun(r, patch)
      PROVE  Stands
  <2>1. r \in DOMAIN runs /\ runs' = [runs EXCEPT ![r] = Patched(runs[r], patch)]
    BY <1>4 DEF UpdateRun
  <2>2. runs[r] \in Run
    BY <2>1 DEF StoreInv, StoreTypeOK
  <2>3. Patched(runs[r], patch).approval = runs[r].approval
    BY <2>2 DEF Patched, Run
  <2>4. QED
    BY <2>1, <2>3, ReplaceRun
<1>5. ASSUME NEW r \in RunIds, RequestApproval(r)
      PROVE  Stands
  <2> DEFINE new == [runs[r] EXCEPT !.status = "waiting-approval", !.approval = "pending"]
  <2>1. r \in DOMAIN runs /\ runs' = [runs EXCEPT ![r] = new]
    BY <1>5 DEF RequestApproval
  <2>2. new.approval = "pending"
    BY <2>1 DEF StoreInv, StoreTypeOK, Run
  <2>3. QED
    <3> HIDE DEF new
    <3> QED BY <2>1, <2>2, ReplaceRun
<1>6. ASSUME NEW r \in RunIds, NEW approved \in BOOLEAN, DecideApproval(r, approved)
      PROVE  Stands
  <2>1. r \in DOMAIN runs /\ runs' = [runs EXCEPT ![r] = Decide(runs[r], approved)]
    BY <1>6 DEF DecideApproval
  <2>2. runs[r].approval \notin Decided
    BY <1>6 DEF DecideApproval, Decided
  <2>3. QED
    BY <2>1, <2>2, ReplaceRun
<1>7. QED
  BY <1>1, <1>2, <1>3, <1>4, <1>5, <1>6
  DEF StoreNext, ConnectRepository, AppendActivity, storeVars

\* A reviewer's decision is changed by a new request only: decideApproval takes
\* the first answer.
THEOREM DecisionsStand == StoreSpec => DecisionStands
<1>1. StoreInv /\ [StoreNext]_storeVars => [Stands]_storeVars
  BY StoreStepStands
<1>2. QED
  BY <1>1, StoreInvInit, StoreInvNext, PTL DEF StoreSpec, DecisionStands, Stands

-----------------------------------------------------------------------------
(* The clients *)

\* The types of the clients' variables; an outcome is chosen before anything
\* reports it.
ClientInv ==
  /\ home \in [Clients -> Repos]
  /\ point \in [Clients -> Points]
  /\ runId \in [Clients -> BOOLEAN]
  /\ lines \in [Clients -> 0..MaxStatus]
  /\ outcome \in [Clients -> Outcomes \cup {"running"}]
  /\ net \subseteq Request
  /\ calls \in Nat
  /\ clean \subseteq Clients
  /\ \A c \in Clients : point[c] \in {"decision", "publish", "report", "done"}
                          => outcome[c] \in Outcomes
  /\ \A m \in net : m.what = "publish" => m.status \in Outcomes

LEMMA ClientInvInit == Init => ClientInv
BY ClientAssumption DEF Init, ClientInv, Points, Awaited, Outcomes

\* What a client sends is a request: what it awaits, or half of a status line.
LEMMA RequestFacts ==
  ASSUME NEW c \in Clients
  PROVE  /\ \A what \in Awaited, status \in Outcomes \cup {"running"} :
              /\ Req(c, what, status) \in Request
              /\ Req(c, what, status).what = what
              /\ Req(c, what, status).from = c
              /\ Req(c, what, status).status = status
         /\ \A n \in 0..MaxStatus, what \in {"status", "note"} :
              [from |-> c, what |-> what, tag |-> n, status |-> "running"] \in Request
BY ClientAssumption DEF Req, Request, Awaited

\* Going on after an answer keeps the types.
LEMMA ResumeTypes ==
  ASSUME ClientInv, NEW c \in Clients, NEW ok \in BOOLEAN, NEW requests \in SUBSET net,
         point[c] \in Awaited, Resume(c, ok, requests),
         UNCHANGED <<home, lines, outcome, calls>>, clean' \subseteq clean
  PROVE  ClientInv'
<1> USE DEF ClientInv
<1> DEFINE Next2(what, status) == Goto(c, what) /\ net' = requests \cup {Req(c, what, status)}
<1>1. ASSUME NEW what \in Awaited, NEW status \in Outcomes \cup {"running"},
             Next2(what, status), UNCHANGED runId \/ runId' = [runId EXCEPT ![c] = ok],
             what = "publish" => status \in Outcomes,
             what \in {"decision", "publish"} => outcome[c] \in Outcomes
      PROVE  ClientInv'
  <2>1. net' \subseteq Request
    BY <1>1, RequestFacts
  <2>2. \A m \in net' : m.what = "publish" => m.status \in Outcomes
    BY <1>1, RequestFacts
  <2>3. point' \in [Clients -> Points] /\ point'[c] = what
        /\ \A d \in Clients : d # c => point'[d] = point[d]
    BY <1>1 DEF Goto, Points
  <2>4. runId' \in [Clients -> BOOLEAN] /\ \A d \in Clients : d # c => runId'[d] = runId[d]
    BY <1>1
  <2>5. \A d \in Clients : point'[d] \in {"decision", "publish", "report", "done"}
                            => outcome'[d] \in Outcomes
    BY <1>1, <2>3 DEF Awaited
  <2>6. QED
    BY <2>1, <2>2, <2>3, <2>4, <2>5
<1>2. ASSUME NEW p \in {"engine", "report"}, Proceed(c, p, requests),
             UNCHANGED runId \/ runId' = [runId EXCEPT ![c] = ok],
             p = "report" => outcome[c] \in Outcomes
      PROVE  ClientInv'
  <2>1. point' \in [Clients -> Points] /\ point'[c] = p
        /\ \A d \in Clients : d # c => point'[d] = point[d]
    BY <1>2 DEF Proceed, Goto, Points
  <2>2. runId' \in [Clients -> BOOLEAN] /\ \A d \in Clients : d # c => runId'[d] = runId[d]
    BY <1>2
  <2>3. net' \subseteq net
    BY <1>2 DEF Proceed
  <2>4. \A d \in Clients : point'[d] \in {"decision", "publish", "report", "done"}
                            => outcome'[d] \in Outcomes
    BY <1>2, <2>1
  <2>5. QED
    BY <2>1, <2>2, <2>3, <2>4
<1>3. CASE point[c] = "connect"
  BY <1>1, <1>2, <1>3 DEF Resume, Await, Proceed, Awaited
<1>4. CASE point[c] = "create"
  BY <1>1, <1>2, <1>4 DEF Resume, Await, Proceed, Awaited
<1>5. CASE point[c] = "started"
  BY <1>1, <1>5 DEF Resume, Await, Proceed, Awaited
<1>6. CASE point[c] = "announce"
  BY <1>2, <1>6 DEF Resume
<1>7. CASE point[c] = "decision"
  BY <1>1, <1>7 DEF Resume, Await, Proceed, Awaited
<1>8. CASE point[c] = "publish"
  BY <1>2, <1>8 DEF Resume
<1>9. QED
  BY <1>3, <1>4, <1>5, <1>6, <1>7, <1>8 DEF Awaited

\* An awaited request is one its client can go on from.
LEMMA AwaitedPoint ==
  ASSUME ClientInv, NEW m \in net, IsAwaited(m)
  PROVE  point[m.from] \in Awaited
<1>1. m.what \in Awaited \cup {"status", "note"} /\ m.from \in Clients
  BY DEF ClientInv, Request
<1>2. point[m.from] \in Points /\ point[m.from] = m.what
  BY <1>1 DEF ClientInv, IsAwaited
<1>3. QED
  BY <1>1, <1>2 DEF Points, Awaited

LEMMA ClientInvNext == ClientInv /\ [Next]_vars => ClientInv'
<1> SUFFICES ASSUME ClientInv, [Next]_vars
             PROVE  ClientInv'
  OBVIOUS
<1> USE DEF ClientInv
<1>1. ASSUME NEW c \in Clients, Begin(c)
      PROVE  ClientInv'
  <2>1. Req(c, "connect", "running") \in Request
        /\ Req(c, "connect", "running").what = "connect"
    BY RequestFacts DEF Awaited
  <2>2. net' = net \cup {Req(c, "connect", "running")}
        /\ point' = [point EXCEPT ![c] = "connect"]
        /\ UNCHANGED <<home, runId, lines, outcome, calls, clean>>
    BY <1>1 DEF Begin, Await, Proceed, Goto
  <2>3. QED
    BY <2>1, <2>2 DEF Points, Awaited
<1>2. ASSUME NEW c \in Clients, Status(c)
      PROVE  ClientInv'
  <2>1. lines' = [lines EXCEPT ![c] = @ + 1] /\ lines[c] < MaxStatus
    BY <1>2 DEF Status
  <2>2. lines' \in [Clients -> 0..MaxStatus]
    BY <2>1, ClientAssumption
  <2>3. \A m \in net' : m \in net \/ (m \in Request /\ m.what \in {"status", "note"})
    <3>1. lines'[c] \in 0..MaxStatus
      BY <2>2
    <3>2. \A m \in net' : m \in net \/ \E what \in {"status", "note"} :
            m = [from |-> c, what |-> what, tag |-> lines'[c], status |-> "running"]
      BY <1>2 DEF Status
    <3>3. \A what \in {"status", "note"} :
            [from |-> c, what |-> what, tag |-> lines'[c], status |-> "running"] \in Request
      BY <3>1, RequestFacts
    <3>4. QED
      BY <3>2, <3>3
  <2>4. UNCHANGED <<home, point, runId, outcome, calls, clean>>
    BY <1>2 DEF Status
  <2>5. QED
    BY <2>2, <2>3, <2>4
<1>3. ASSUME NEW c \in Clients, EngineEnds(c)
      PROVE  ClientInv'
  <2>1. PICK o \in Outcomes :
          /\ outcome' = [outcome EXCEPT ![c] = o]
          /\ IF runId[c] THEN Await(c, "decision", o, net) ELSE Proceed(c, "report", net)
    BY <1>3 DEF EngineEnds
  <2>2. UNCHANGED <<home, runId, lines, calls>> /\ clean' \subseteq clean
    BY <1>3 DEF EngineEnds
  <2>3. PICK p \in {"decision", "report"} : point' = [point EXCEPT ![c] = p]
    BY <2>1 DEF Await, Proceed, Goto
  <2>4. \A m \in net' : m \in net \/ m = Req(c, "decision", o)
    BY <2>1 DEF Await, Proceed
  <2>5. Req(c, "decision", o) \in Request /\ Req(c, "decision", o).what = "decision"
    BY RequestFacts DEF Awaited
  <2>6. QED
    BY <2>1, <2>2, <2>3, <2>4, <2>5 DEF Points, Awaited
<1>4. ASSUME NEW c \in Clients, ReportOutcome(c)
      PROVE  ClientInv'
  <2>1. PICK p \in {"decision", "done"} : point' = [point EXCEPT ![c] = p]
    BY <1>4 DEF ReportOutcome, Await, Proceed, Goto
  <2>2. \A m \in net' : m \in net \/ m = Req(c, "decision", "failed")
    BY <1>4 DEF ReportOutcome, Await, Proceed
  <2>3. Req(c, "decision", "failed") \in Request
        /\ Req(c, "decision", "failed").what = "decision"
    BY RequestFacts DEF Awaited, Outcomes
  <2>4. outcome' = outcome \/ outcome' = [outcome EXCEPT ![c] = "failed"]
    BY <1>4 DEF ReportOutcome
  <2>5. point[c] = "report" /\ UNCHANGED <<home, runId, lines, calls, clean>>
    BY <1>4 DEF ReportOutcome
  <2>6. QED
    BY <2>1, <2>2, <2>3, <2>4, <2>5 DEF Points, Awaited, Outcomes
<1>5. ASSUME NEW c \in Clients, TimeOut(c)
      PROVE  ClientInv'
  BY <1>5, ResumeTypes DEF TimeOut
<1>6. ASSUME NEW m \in net, Serve(m)
      PROVE  ClientInv'
  <2>1. m.from \in Clients
    BY DEF Request
  <2>2. CASE IsAwaited(m) /\ Resume(m.from, Accepts(m), net \ {m})
    <3>1. point[m.from] \in Awaited
      BY <2>2, AwaitedPoint
    <3>2. Accepts(m) \in BOOLEAN
      BY DEF Accepts
    <3>3. UNCHANGED <<home, lines, outcome, calls>> /\ clean' \subseteq clean
      BY <1>6 DEF Serve
    <3>4. QED
      BY <2>1, <2>2, <3>1, <3>2, <3>3, ResumeTypes
  <2>3. CASE net' = net \ {m} /\ UNCHANGED <<point, runId>>
    BY <1>6, <2>3 DEF Serve
  <2>4. QED
    BY <1>6, <2>2, <2>3 DEF Serve
<1>7. ASSUME NEW m \in net, Lose(m)
      PROVE  ClientInv'
  BY <1>7 DEF Lose
<1>8. CASE OtherUser
  <2>1. clean' \subseteq clean /\ calls' = calls + 1
        /\ UNCHANGED <<home, point, runId, lines, outcome, net>>
    BY <1>8 DEF OtherUser
  <2>2. QED
    BY <2>1
<1>9. CASE UNCHANGED vars
  BY <1>9 DEF vars, clientVars
<1>10. QED
  BY <1>1, <1>2, <1>3, <1>4, <1>5, <1>6, <1>7, <1>8, <1>9 DEF Next

\* A step of the clients, of the service or of another user is a step of the
\* store or leaves it alone.
LEMMA StepOfStore == ClientInv /\ [Next]_vars => [StoreNext]_storeVars
<1> SUFFICES ASSUME ClientInv, [Next]_vars
             PROVE  [StoreNext]_storeVars
  OBVIOUS
<1>1. ASSUME NEW c \in Clients,
             Begin(c) \/ Status(c) \/ EngineEnds(c) \/ ReportOutcome(c) \/ TimeOut(c)
      PROVE  UNCHANGED storeVars
  BY <1>1 DEF Begin, Status, EngineEnds, ReportOutcome, TimeOut
<1>2. ASSUME NEW m \in net, Serve(m)
      PROVE  [StoreNext]_storeVars
  <2>1. m \in Request /\ m.from \in RunIds /\ home[m.from] \in Repos
    BY ClientAssumption DEF ClientInv, Request
  <2>2. CASE ~Accepts(m)
    BY <1>2, <2>2 DEF Serve
  <2>3. CASE Accepts(m)
    <3>1. Effect(m)
      BY <1>2, <2>3 DEF Serve
    <3>2. CASE m.what = "connect"
      BY <2>1, <3>1, <3>2 DEF Effect, StoreNext
    <3>3. CASE m.what = "create"
      BY <2>1, <3>1, <3>3 DEF Effect, StoreNext
    <3>4. CASE m.what \in {"started", "status"}
      <4>1. Running \in Patch
        BY DEF Running, Patch, Statuses
      <4>2. QED
        BY <2>1, <3>1, <3>4, <4>1 DEF Effect, StoreNext
    <3>5. CASE m.what = "publish"
      <4>1. m.status \in Outcomes
        BY <3>5 DEF ClientInv
      <4>2. [status |-> m.status, finishedAt |-> "set"] \in Patch
        BY <4>1 DEF Patch, Statuses, Over, Outcomes
      <4>3. QED
        BY <2>1, <3>1, <3>5, <4>2 DEF Effect, StoreNext
    <3>6. CASE m.what \in {"announce", "note", "decision"}
      BY <2>1, <3>1, <3>6 DEF Effect, StoreNext
    <3>7. QED
      BY <2>1, <3>2, <3>3, <3>4, <3>5, <3>6 DEF Request, Awaited
  <2>4. QED
    BY <2>2, <2>3
<1>3. ASSUME NEW m \in net, Lose(m)
      PROVE  UNCHANGED storeVars
  BY <1>3 DEF Lose
<1>4. CASE OtherUser
  BY <1>4 DEF OtherUser
<1>5. CASE UNCHANGED vars
  BY <1>5 DEF vars, storeVars
<1>6. QED
  BY <1>1, <1>2, <1>3, <1>4, <1>5 DEF Next

\* Whatever clients, network and other users do, the dashboard's state evolves
\* by the operations of its store only.
THEOREM ClientsUseStore == Spec => StoreSpec
<1>1. Init => StoreInit
  BY DEF Init
<1>2. QED
  BY <1>1, ClientInvInit, ClientInvNext, StepOfStore, PTL DEF Spec, StoreSpec

\* With clients, too, no run is without its repository and no activity without
\* its run: a request that comes late, after a disconnection, is refused.
THEOREM ClientReferencesIntact == Spec => []RefsIntact
BY ClientsUseStore, ReferencesIntact, PTL

\* With clients, too, a decision stands: no status line undoes it.
THEOREM ClientDecisionsStand == Spec => DecisionStands
BY ClientsUseStore, DecisionsStand, PTL

-----------------------------------------------------------------------------
(* The outcome comes last *)

\* The only request of a clean client that can be under way.
Current(c) ==
  Req(c, point[c], IF point[c] \in {"decision", "publish"} THEN outcome[c] ELSE "running")

\* What a clean client can count on, from one answer to the next: nothing it
\* sent before is still under way, but for status lines while the engine runs;
\* what it was told to exist exists; what it has published is there.
CleanClient(c) ==
  /\ \A m \in net : m.from = c =>
       \/ m = Current(c)
       \/ point[c] = "engine" /\ m.what \in {"status", "note"}
  /\ point[c] = "create" => home[c] \in repos
  /\ point[c] \notin {"begin", "connect", "create"} => runId[c] /\ c \in DOMAIN runs
  /\ point[c] \in {"report", "done"} =>
       runs[c].status = outcome[c] /\ runs[c].finishedAt

CleanInv == \A c \in clean : CleanClient(c)

FleetInv == StoreInv /\ ClientInv /\ CleanInv

\* Requests that are told apart by what they ask.
LEMMA CurrentFacts ==
  ASSUME NEW c
  PROVE  /\ Current(c).what = point[c]
         /\ Current(c).from = c
BY DEF Current, Req

\* A request changes the run of its client only, and takes nothing away.
LEMMA ServeKeeps ==
  ASSUME ClientInv, NEW m \in net, Serve(m)
  PROVE  /\ repos \subseteq repos'
         /\ DOMAIN runs \subseteq DOMAIN runs'
         /\ \A r \in DOMAIN runs : r # m.from => runs'[r] = runs[r]
<1>1. CASE UNCHANGED storeVars
  BY <1>1 DEF storeVars
<1>2. CASE Effect(m)
  <2>1. m.what \in Awaited \cup {"status", "note"}
    BY DEF ClientInv, Request
  <2>2. CASE m.what = "connect"
    BY <1>2, <2>2 DEF Effect, ConnectRepository
  <2>3. CASE m.what = "create"
    BY <1>2, <2>3 DEF Effect, CreateRun
  <2>4. CASE m.what \in {"started", "status"}
    BY <1>2, <2>4 DEF Effect, UpdateRun
  <2>5. CASE m.what = "publish"
    BY <1>2, <2>5 DEF Effect, UpdateRun
  <2>6. CASE m.what \in {"announce", "note", "decision"}
    BY <1>2, <2>6 DEF Effect, AppendActivity
  <2>7. QED
    BY <2>1, <2>2, <2>3, <2>4, <2>5, <2>6 DEF Awaited
<1>3. QED
  BY <1>1, <1>2 DEF Serve

\* A step that leaves a clean client, its run and its repository alone, and
\* sends nothing in its name, keeps it clean.
LEMMA OthersKeepClean ==
  ASSUME NEW c, CleanClient(c),
         point'[c] = point[c], runId'[c] = runId[c], outcome'[c] = outcome[c],
         home' = home,
         \A m \in net' : m.from = c => m \in net,
         home[c] \in repos => home[c] \in repos',
         c \in DOMAIN runs => c \in DOMAIN runs' /\ runs'[c] = runs[c]
  PROVE  CleanClient(c)'
<1>1. Current(c)' = Current(c)
  BY DEF Current, Req
<1>2. QED
  BY <1>1 DEF CleanClient

LEMMA FleetInvInit == Init => FleetInv
<1> SUFFICES ASSUME Init
             PROVE  FleetInv
  OBVIOUS
<1>1. StoreInv /\ ClientInv
  BY StoreInvInit, ClientInvInit DEF Init
<1>2. CleanInv
  BY DEF Init, CleanInv, CleanClient
<1>3. QED
  BY <1>1, <1>2 DEF FleetInv

\* The client's own steps.
LEMMA OwnStepClean ==
  ASSUME FleetInv, NEW c \in Clients, c \in clean, c \in clean',
         Begin(c) \/ Status(c) \/ EngineEnds(c) \/ ReportOutcome(c)
  PROVE  CleanClient(c)'
<1> USE DEF FleetInv
<1>1. CleanClient(c) /\ ClientInv
  BY DEF CleanInv
<1>2. repos' = repos /\ runs' = runs /\ home' = home /\ runId' = runId
  BY DEF Begin, Status, EngineEnds, ReportOutcome, storeVars
<1>3. ASSUME point[c] \notin Awaited, point[c] # "engine"
      PROVE  \A m \in net : m.from # c
  BY <1>1, <1>3, CurrentFacts DEF CleanClient, ClientInv, Request, Points
<1>4. CASE Begin(c)
  <2>1. \A m \in net : m.from # c
    BY <1>3, <1>4 DEF Begin, Awaited
  <2>2. point' = [point EXCEPT ![c] = "connect"]
        /\ net' = net \cup {Req(c, "connect", "running")}
    BY <1>4 DEF Begin, Await, Proceed, Goto
  <2>3. point'[c] = "connect"
    BY <1>1, <2>2 DEF ClientInv
  <2>4. Current(c)' = Req(c, "connect", "running")
    BY <2>3 DEF Current, Req
  <2>5. QED
    BY <2>1, <2>2, <2>3, <2>4 DEF CleanClient
<1>5. CASE Status(c)
  <2>1. point[c] = "engine" /\ point' = point /\ outcome' = outcome
    BY <1>5 DEF Status
  <2>2. Current(c)' = Current(c)
    BY <2>1 DEF Current, Req
  <2>3. \A m \in net' : m \in net \/ m.what \in {"status", "note"}
    BY <1>5 DEF Status
  <2>4. QED
    BY <1>1, <1>2, <2>1, <2>2, <2>3 DEF CleanClient
<1>6. CASE EngineEnds(c)
  <2>1. point[c] = "engine" /\ runId[c] /\ c \in DOMAIN runs /\ ~Outstanding(c)
        /\ \A m \in net : m.from # c
    <3>1. point[c] = "engine" /\ ~Outstanding(c)
      BY <1>6 DEF EngineEnds
    <3>2. \A m \in net : m.what # "engine"
      BY <1>1 DEF ClientInv, Request, Awaited
    <3>3. QED
      BY <1>1, <3>1, <3>2, CurrentFacts DEF CleanClient, Outstanding
  <2>2. PICK o \in Outcomes :
          /\ outcome' = [outcome EXCEPT ![c] = o]
          /\ Await(c, "decision", o, net)
    BY <1>6, <2>1 DEF EngineEnds
  <2>3. point'[c] = "decision" /\ outcome'[c] = o
        /\ net' = net \cup {Req(c, "decision", o)}
    BY <1>1, <2>2 DEF Await, Proceed, Goto, ClientInv
  <2>4. Current(c)' = Req(c, "decision", o)
    BY <2>3 DEF Current, Req
  <2>5. QED
    BY <1>2, <2>1, <2>3, <2>4 DEF CleanClient
<1>7. CASE ReportOutcome(c)
  <2>1. \A m \in net : m.from # c
    BY <1>3, <1>7 DEF ReportOutcome, Awaited
  <2>2. point[c] = "report" /\ runId[c] /\ c \in DOMAIN runs
        /\ runs[c].status = outcome[c] /\ runs[c].finishedAt
    BY <1>1, <1>7 DEF ReportOutcome, CleanClient
  <2>3. CASE Proceed(c, "done", net) /\ UNCHANGED outcome
    <3>1. point'[c] = "done" /\ net' = net /\ outcome' = outcome
      BY <1>1, <2>3 DEF Proceed, Goto, ClientInv
    <3>2. QED
      BY <1>2, <2>1, <2>2, <3>1 DEF CleanClient
  <2>4. CASE outcome' = [outcome EXCEPT ![c] = "failed"]
             /\ Await(c, "decision", "failed", net)
    <3>1. point'[c] = "decision" /\ outcome'[c] = "failed"
          /\ net' = net \cup {Req(c, "decision", "failed")}
      BY <1>1, <2>4 DEF Await, Proceed, Goto, ClientInv
    <3>2. Current(c)' = Req(c, "decision", "failed")
      BY <3>1 DEF Current, Req
    <3>3. QED
      BY <1>2, <2>1, <2>2, <3>1, <3>2 DEF CleanClient
  <2>5. QED
    BY <1>7, <2>2, <2>3, <2>4 DEF ReportOutcome
<1>8. QED
  BY <1>4, <1>5, <1>6, <1>7

\* The answer to the client's current request.
LEMMA AnswerClean ==
  ASSUME FleetInv, NEW m \in net, Serve(m), m.from \in clean,
         IsAwaited(m), Resume(m.from, Accepts(m), net \ {m})
  PROVE  CleanClient(m.from)'
<1> DEFINE c == m.from
<1> USE DEF FleetInv
<1>1. c \in Clients /\ CleanClient(c) /\ ClientInv /\ m.what = point[c]
  BY DEF CleanInv, ClientInv, Request, IsAwaited
<1>2. point[c] \in Awaited
  BY AwaitedPoint
<1>3. m = Current(c) /\ \A n \in net \ {m} : n.from # c
  BY <1>1, <1>2 DEF CleanClient, Awaited
<1>4. home' = home /\ outcome' = outcome /\ repos \subseteq repos'
      /\ DOMAIN runs \subseteq DOMAIN runs'
  BY ServeKeeps DEF Serve
<1>5. ASSUME NEW what \in Awaited \ {"connect"},
             NEW status \in Outcomes \cup {"running"},
             Await(c, what, status, net \ {m}),
             status = IF what \in {"decision", "publish"} THEN outcome[c] ELSE "running",
             what = "create" => home[c] \in repos',
             what # "create" => runId'[c] /\ c \in DOMAIN runs'
      PROVE  CleanClient(c)'
  <2>1. point'[c] = what /\ net' = (net \ {m}) \cup {Req(c, what, status)}
    BY <1>1, <1>5 DEF Await, Proceed, Goto, ClientInv
  <2>2. Current(c)' = Req(c, what, status)
    BY <1>4, <1>5, <2>1 DEF Current, Req
  <2>3. QED
    BY <1>3, <1>4, <1>5, <2>1, <2>2 DEF CleanClient, Awaited
<1>6. CASE point[c] = "connect"
  <2>1. Accepts(m) /\ Effect(m) /\ home[c] \in repos'
    BY <1>1, <1>6 DEF Accepts, Serve, Effect, ConnectRepository
  <2>2. Await(c, "create", "running", net \ {m})
    BY <1>6, <2>1 DEF Resume
  <2>3. QED
    BY <1>5, <2>1, <2>2 DEF Awaited
<1>7. CASE point[c] = "create"
  <2>1. Accepts(m) /\ Effect(m) /\ c \in DOMAIN runs'
    BY <1>1, <1>7 DEF Accepts, Serve, Effect, CreateRun, CleanClient
  <2>2. Await(c, "started", "running", net \ {m}) /\ runId' = [runId EXCEPT ![c] = Accepts(m)]
    BY <1>7, <2>1 DEF Resume
  <2>3. runId'[c]
    BY <1>1, <2>1, <2>2 DEF ClientInv
  <2>4. QED
    BY <1>5, <2>1, <2>2, <2>3 DEF Awaited
<1>8. CASE point[c] \in {"started", "decision"}
  <2>1. runId[c] /\ c \in DOMAIN runs
    BY <1>1, <1>8 DEF CleanClient
  <2>2. CASE point[c] = "started"
    <3>1. Await(c, "announce", "running", net \ {m}) /\ runId' = runId
      BY <2>2 DEF Resume
    <3>2. QED
      BY <1>4, <1>5, <2>1, <3>1 DEF Awaited
  <2>3. CASE point[c] = "decision"
    <3>1. Await(c, "publish", outcome[c], net \ {m}) /\ runId' = runId
      BY <2>3 DEF Resume
    <3>2. outcome[c] \in Outcomes
      BY <1>1, <2>3 DEF ClientInv
    <3>3. QED
      BY <1>4, <1>5, <2>1, <3>1, <3>2 DEF Awaited
  <2>4. QED
    BY <1>8, <2>2, <2>3
<1>9. CASE point[c] = "announce"
  <2>1. point'[c] = "engine" /\ runId' = runId /\ net' = net \ {m}
    BY <1>1, <1>9 DEF Resume, Proceed, Goto, ClientInv
  <2>2. runId[c] /\ c \in DOMAIN runs
    BY <1>1, <1>9 DEF CleanClient
  <2>3. QED
    BY <1>3, <1>4, <2>1, <2>2 DEF CleanClient
<1>10. CASE point[c] = "publish"
  <2>1. point'[c] = "report" /\ runId' = runId /\ net' = net \ {m}
    BY <1>1, <1>10 DEF Resume, Proceed, Goto, ClientInv
  <2>2. runId[c] /\ c \in DOMAIN runs /\ runs[c] \in Run
    BY <1>1, <1>10 DEF CleanClient, StoreInv, StoreTypeOK
  <2>3. m.status = outcome[c] /\ outcome[c] \in Outcomes
    BY <1>1, <1>10 DEF IsAwaited, ClientInv
  <2>4. Accepts(m) /\ Effect(m)
    BY <1>1, <1>10, <2>2 DEF Accepts, Serve
  <2>5. runs' = [runs EXCEPT ![c] = Patched(runs[c], [status |-> m.status,
                                                     finishedAt |-> "set"])]
    BY <1>1, <1>10, <2>4 DEF Effect, UpdateRun
  <2>6. runs'[c].status = outcome[c] /\ runs'[c].finishedAt
    BY <2>2, <2>3, <2>5 DEF Patched, Run, Outcomes
  <2>7. QED
    BY <1>3, <1>4, <2>1, <2>2, <2>6 DEF CleanClient
<1>11. QED
  BY <1>2, <1>6, <1>7, <1>8, <1>9, <1>10 DEF Awaited

\* A client that goes on sends in its own name.
LEMMA ResumeSends ==
  ASSUME NEW c, point[c] \in Awaited, NEW ok, NEW requests, Resume(c, ok, requests)
  PROVE  \A n \in net' : n \in requests \/ n.from = c
<1>1. CASE point[c] = "connect"
  BY <1>1 DEF Resume, Await, Proceed, Req
<1>2. CASE point[c] = "create"
  BY <1>2 DEF Resume, Await, Proceed, Req
<1>3. CASE point[c] = "started"
  BY <1>3 DEF Resume, Await, Proceed, Req
<1>4. CASE point[c] = "announce"
  BY <1>4 DEF Resume, Proceed
<1>5. CASE point[c] = "decision"
  BY <1>5 DEF Resume, Await, Proceed, Req
<1>6. CASE point[c] = "publish"
  BY <1>6 DEF Resume, Proceed
<1>7. QED
  BY <1>1, <1>2, <1>3, <1>4, <1>5, <1>6 DEF Awaited

LEMMA FleetInvNext == FleetInv /\ [Next]_vars => FleetInv'
<1> SUFFICES ASSUME FleetInv, [Next]_vars
             PROVE  FleetInv'
  OBVIOUS
<1>1. StoreInv' /\ ClientInv'
  BY ClientInvNext, StepOfStore, StoreInvNext DEF FleetInv
<1>2. ASSUME NEW d \in clean'
      PROVE  CleanClient(d)'
  <2>1. d \in clean
    BY DEF Next, Begin, Status, EngineEnds, ReportOutcome, TimeOut, Serve, Lose, OtherUser,
           vars, clientVars
  <2>2. d \in Clients /\ CleanClient(d) /\ ClientInv
    BY <2>1 DEF FleetInv, ClientInv, CleanInv
  <2>3. ASSUME NEW c \in Clients,
               Begin(c) \/ Status(c) \/ EngineEnds(c) \/ ReportOutcome(c) \/ TimeOut(c)
        PROVE  CleanClient(d)'
    <3>1. CASE c = d
      <4>1. ~TimeOut(c)
        BY <3>1 DEF TimeOut
      <4>2. QED
        BY <2>1, <2>3, <3>1, <4>1, OwnStepClean
    <3>2. CASE c # d
      <4>1. UNCHANGED storeVars /\ home' = home
        BY <2>3 DEF Begin, Status, EngineEnds, ReportOutcome, TimeOut
      <4>2. point'[d] = point[d] /\ runId'[d] = runId[d] /\ outcome'[d] = outcome[d]
        BY <2>2, <2>3, <3>2
        DEF Begin, Status, EngineEnds, ReportOutcome, TimeOut, Resume, Await, Proceed, Goto,
            ClientInv, Points, Awaited
      <4>3. \A m \in net' : m \in net \/ m.from = c
        <5>1. CASE TimeOut(c)
          BY <5>1, ResumeSends DEF TimeOut
        <5>2. CASE Status(c)
          BY <5>2 DEF Status
        <5>3. CASE Begin(c) \/ EngineEnds(c) \/ ReportOutcome(c)
          BY <5>3 DEF Begin, EngineEnds, ReportOutcome, Await, Proceed, Req
        <5>4. QED
          BY <2>3, <5>1, <5>2, <5>3
      <4>4. QED
        BY <2>2, <3>2, <4>1, <4>2, <4>3, OthersKeepClean DEF storeVars
    <3>3. QED
      BY <3>1, <3>2
  <2>4. ASSUME NEW m \in net, Serve(m)
        PROVE  CleanClient(d)'
    <3>1. repos \subseteq repos' /\ DOMAIN runs \subseteq DOMAIN runs'
          /\ \A r \in DOMAIN runs : r # m.from => runs'[r] = runs[r]
      BY <2>2, <2>4, ServeKeeps
    <3>2. UNCHANGED <<home, lines, outcome, calls, clean>>
      BY <2>4 DEF Serve
    <3>3. CASE m.from # d
      <4>1. point'[d] = point[d] /\ runId'[d] = runId[d]
        BY <2>2, <2>4, <3>3
        DEF Serve, Resume, Await, Proceed, Goto, ClientInv, Points, Awaited, Request, IsAwaited
      <4>2. \A n \in net' : n \in net \/ n.from = m.from
        BY <2>2, <2>4, ResumeSends, AwaitedPoint DEF Serve
      <4>3. QED
        BY <2>2, <3>1, <3>2, <3>3, <4>1, <4>2, OthersKeepClean
    <3>4. CASE m.from = d /\ IsAwaited(m) /\ Resume(m.from, Accepts(m), net \ {m})
      BY <2>1, <2>4, <3>4, AnswerClean
    <3>5. CASE m.from = d /\ net' = net \ {m} /\ UNCHANGED <<point, runId>>
      <4>1. Current(d)' = Current(d)
        BY <3>2, <3>5 DEF Current, Req
      <4>2. point[d] \notin {"report", "done"}
        <5>1. m.what \in Awaited \cup {"status", "note"}
          BY <2>2 DEF ClientInv, Request
        <5>2. QED
          BY <2>2, <3>5, <5>1, CurrentFacts DEF CleanClient, Awaited
      <4>3. QED
        BY <2>2, <3>1, <3>2, <3>5, <4>1, <4>2 DEF CleanClient
    <3>6. QED
      BY <2>4, <3>3, <3>4, <3>5 DEF Serve
  <2>5. ASSUME NEW m \in net, Lose(m)
        PROVE  CleanClient(d)'
    BY <2>2, <2>5, OthersKeepClean DEF Lose, storeVars
  <2>6. CASE OtherUser
    BY <2>2, <2>6, OthersKeepClean DEF OtherUser
  <2>7. CASE UNCHANGED vars
    BY <2>2, <2>7, OthersKeepClean DEF vars, storeVars, clientVars
  <2>8. QED
    BY <2>3, <2>4, <2>5, <2>6, <2>7 DEF Next
<1>3. QED
  BY <1>1, <1>2 DEF FleetInv, CleanInv

\* For any number of clients and of status lines, over losses, delays and other
\* users: the dashboard shows a run as its engine left it, provided that no call
\* was lost or late and no status line under way at the engine's end.
THEOREM OutcomeComesLast == Spec => []OutcomeIsLast
<1>1. FleetInv => OutcomeIsLast
  BY DEF FleetInv, CleanInv, CleanClient, OutcomeIsLast
<1>2. QED
  BY <1>1, FleetInvInit, FleetInvNext, PTL DEF Spec

=============================================================================
