----------------------------- MODULE FleetClient -----------------------------
(***************************************************************************)
(* Engines that report to the fleet dashboard: class FleetClient of        *)
(* src/control-plane/client.ts as runOptimizeWithUi (src/cli/optimize-ui)  *)
(* uses it, the HTTP requests between, and the store of ControlPlane, which*)
(* other users of the dashboard change at the same time.                   *)
(*                                                                         *)
(* Most calls are awaited: the client goes on with the answer, or with     *)
(* null after two seconds or an error.  A request that timed out may still *)
(* reach the store.  The status lines of the engine are reported by calls  *)
(* nobody awaits, each of two concurrent requests.                         *)
(*                                                                         *)
(* Simplifications: the run a client creates has the client's name for its *)
(* (random) id; the engine is a number of status lines and an outcome.     *)
(***************************************************************************)
EXTENDS ControlPlane

CONSTANTS
  Clients,      \* engines with a dashboard to report to
  MaxStatus,    \* bound on the status lines of an engine
  MaxCalls,     \* bound on the requests of other users
  Lossy         \* TRUE when requests and answers can be lost or late

ASSUME ClientAssumption ==
  /\ Clients \subseteq RunIds
  /\ MaxStatus \in Nat /\ MaxCalls \in Nat /\ Lossy \in BOOLEAN

VARIABLES
  home,         \* home[c]: the repository c names in begin
  point,        \* point[c]: the request c awaits, or where its engine is
  runId,        \* runId[c]: c has the id of its run
  lines,        \* lines[c]: status lines reported so far
  outcome,      \* outcome[c]: the status finish or fail reports
  net,          \* requests on their way to the service
  calls,        \* requests of other users so far
  clean         \* clients all of whose calls were answered in time, the
                \* status lines before the engine's end, and with whose run
                \* nobody else interfered

clientVars == <<home, point, runId, lines, outcome, calls, clean>>
vars == <<storeVars, clientVars, net>>

Outcomes == {"completed", "rejected", "failed"}
Awaited == {"connect", "create", "started", "announce", "decision", "publish"}
Points == {"begin", "engine", "report", "done"} \cup Awaited

Request == [from : Clients, what : Awaited \cup {"status", "note"},
            tag : 0..MaxStatus, status : Outcomes \cup {"running"}]

Req(c, what, status) == [from |-> c, what |-> what, tag |-> 0, status |-> status]
Running == [status |-> "running", finishedAt |-> "keep"]

Init ==
  /\ StoreInit
  /\ home \in [Clients -> Repos]
  /\ point = [c \in Clients |-> "begin"]
  /\ runId = [c \in Clients |-> FALSE]
  /\ lines = [c \in Clients |-> 0]
  /\ outcome = [c \in Clients |-> "running"]
  /\ net = {}
  /\ calls = 0
  /\ clean = Clients

-----------------------------------------------------------------------------
(* The client *)

Goto(c, p) == point' = [point EXCEPT ![c] = p]

\* c is at p with no request to await.
Proceed(c, p, requests) ==
  /\ Goto(c, p)
  /\ net' = requests

\* c sends a request and awaits its answer.
Await(c, what, status, requests) ==
  Proceed(c, what, requests \cup {Req(c, what, status)})

\* Mutant of Resume: begin does not await the update to "running".
ResumeUnawaited(c, ok, requests) ==
  CASE point[c] = "connect" ->
         /\ IF ok THEN Await(c, "create", "running", requests)
                  ELSE Proceed(c, "engine", requests)
         /\ UNCHANGED runId
    [] point[c] = "create" ->
         /\ runId' = [runId EXCEPT ![c] = ok]
         /\ IF ok THEN Await(c, "announce", "running",
                             requests \cup {Req(c, "started", "running")})
                  ELSE Proceed(c, "engine", requests)
    [] point[c] = "announce" -> Proceed(c, "engine", requests) /\ UNCHANGED runId
    [] point[c] = "decision" -> Await(c, "publish", outcome[c], requests) /\ UNCHANGED runId
    [] point[c] = "publish" -> Proceed(c, "report", requests) /\ UNCHANGED runId

\* What follows the answer to (or the failure of) the request c awaits.
\* finish and fail: a decision in the feed, then the outcome.
Resume(c, ok, requests) ==
  CASE point[c] = "connect" ->
         /\ IF ok THEN Await(c, "create", "running", requests) ELSE Proceed(c, "engine", requests)
         /\ UNCHANGED runId
    [] point[c] = "create" ->
         /\ runId' = [runId EXCEPT ![c] = ok]
         /\ IF ok THEN Await(c, "started", "running", requests) ELSE Proceed(c, "engine", requests)
    [] point[c] = "started" -> Await(c, "announce", "running", requests) /\ UNCHANGED runId
    [] point[c] = "announce" -> Proceed(c, "engine", requests) /\ UNCHANGED runId
    [] point[c] = "decision" -> Await(c, "publish", outcome[c], requests) /\ UNCHANGED runId
    [] point[c] = "publish" -> Proceed(c, "report", requests) /\ UNCHANGED runId

Begin(c) ==
  /\ point[c] = "begin"
  /\ Await(c, "connect", "running", net)
  /\ UNCHANGED <<storeVars, home, runId, lines, outcome, calls, clean>>

\* A status line of the engine: an update and an activity, sent together.
Status(c) ==
  /\ point[c] = "engine" /\ runId[c]
  /\ lines[c] < MaxStatus
  /\ lines' = [lines EXCEPT ![c] = @ + 1]
  /\ net' = net \cup {[from |-> c, what |-> what, tag |-> lines'[c], status |-> "running"]
                        : what \in {"status", "note"}}
  /\ UNCHANGED <<storeVars, home, point, runId, outcome, calls, clean>>

\* A status line of c is still under way.
Outstanding(c) == \E m \in net : m.from = c /\ m.what \in {"status", "note"}

\* runOptimize returns, with a verified winner or without, or throws.
EngineEnds(c) ==
  /\ point[c] = "engine"
  /\ \E o \in Outcomes :
       /\ outcome' = [outcome EXCEPT ![c] = o]
       /\ IF runId[c] THEN Await(c, "decision", o, net) ELSE Proceed(c, "report", net)
  /\ clean' = IF Outstanding(c) THEN clean \ {c} ELSE clean
  /\ UNCHANGED <<storeVars, home, runId, lines, calls>>

\* reportOutcome; what it throws is reported as a failure of the run.
ReportOutcome(c) ==
  /\ point[c] = "report"
  /\ \/ /\ Proceed(c, "done", net)
        /\ UNCHANGED outcome
     \/ /\ outcome[c] # "failed"
        /\ outcome' = [outcome EXCEPT ![c] = "failed"]
        /\ IF runId[c] THEN Await(c, "decision", "failed", net)
                         ELSE Proceed(c, "done", net)
  /\ UNCHANGED <<storeVars, home, runId, lines, calls, clean>>

\* Mutant of TimeOut: the request has no signal.
NeverTimeOut(c) == FALSE /\ UNCHANGED vars

\* Two seconds without an answer, or an error of the connection.
TimeOut(c) ==
  /\ Lossy
  /\ point[c] \in Awaited
  /\ clean' = clean \ {c}
  /\ Resume(c, FALSE, net)
  /\ UNCHANGED <<storeVars, home, lines, outcome, calls>>

-----------------------------------------------------------------------------
(* The service *)

\* What the store does with a request.
Effect(m) ==
  CASE m.what = "connect" -> ConnectRepository(home[m.from])
    [] m.what = "create" -> CreateRun(m.from, home[m.from])
    [] m.what \in {"started", "status"} -> UpdateRun(m.from, Running)
    [] m.what = "publish" ->
         UpdateRun(m.from, [status |-> m.status,
                            finishedAt |-> "set"])
    [] m.what \in {"announce", "note", "decision"} -> AppendActivity(m.from)

\* The store takes the request.
Accepts(m) ==
  \/ m.what = "connect"
  \/ m.what = "create" /\ home[m.from] \in repos
  \/ m.what \notin {"connect", "create"} /\ m.from \in DOMAIN runs

\* m is the request its client awaits, not one it has given up.
IsAwaited(m) ==
  /\ point[m.from] = m.what
  /\ m.what \in {"decision", "publish"} => m.status = outcome[m.from]

\* A request reaches the service.  If it is the one its client awaits, the
\* client goes on, unless the answer is lost.
Serve(m) ==
  /\ IF Accepts(m) THEN Effect(m) ELSE UNCHANGED storeVars
  /\ \/ /\ IsAwaited(m)
        /\ Resume(m.from, Accepts(m), net \ {m})
     \/ /\ ~IsAwaited(m) \/ Lossy
        /\ net' = net \ {m}
        /\ UNCHANGED <<point, runId>>
  /\ UNCHANGED <<home, lines, outcome, calls, clean>>

\* A request gets lost, or the service is no longer there.
Lose(m) ==
  /\ Lossy
  /\ net' = net \ {m}
  /\ clean' = clean \ {m.from}
  /\ UNCHANGED <<storeVars, home, point, runId, lines, outcome, calls>>

\* Any other user of the API.
OtherUser ==
  /\ calls < MaxCalls
  /\ calls' = calls + 1
  /\ StoreNext
  /\ clean' = {c \in clean :
                 /\ c \in DOMAIN runs <=> c \in DOMAIN runs'
                 /\ c \in DOMAIN runs => runs'[c] = runs[c]
                 /\ home[c] \in repos => home[c] \in repos'}
  /\ UNCHANGED <<home, point, runId, lines, outcome, net>>

Next ==
  \/ \E c \in Clients :
       \/ Begin(c) \/ Status(c) \/ EngineEnds(c) \/ ReportOutcome(c) \/ TimeOut(c)
  \/ \E m \in net : Serve(m) \/ Lose(m)
  \/ OtherUser

Spec == Init /\ [][Next]_vars

\* The timer of a request fires; engines end (RunLoop) and print their report.
\* The service need not answer anything.
FairSpec ==
  /\ Spec
  /\ \A c \in Clients :
       WF_vars(Begin(c)) /\ WF_vars(TimeOut(c)) /\ WF_vars(EngineEnds(c))
         /\ WF_vars(ReportOutcome(c))

-----------------------------------------------------------------------------
(* Properties *)

TypeOK ==
  /\ StoreTypeOK
  /\ home \in [Clients -> Repos]
  /\ point \in [Clients -> Points]
  /\ runId \in [Clients -> BOOLEAN]
  /\ lines \in [Clients -> 0..MaxStatus]
  /\ outcome \in [Clients -> Outcomes \cup {"running"}]
  /\ net \subseteq Request
  /\ calls \in Nat
  /\ clean \subseteq Clients

\* The run ends in the dashboard as it ended, if no call was lost or late, no
\* status line was still under way when the engine ended and nobody else changed
\* the run: begin and finish make their requests one after the other, so none
\* of these overtakes the outcome.
OutcomeIsLast ==
  \A c \in clean :
    point[c] = "done" =>
      /\ c \in DOMAIN runs
      /\ runs[c].status = outcome[c]
      /\ runs[c].finishedAt

\* A dashboard that is slow, gone or full of errors keeps no engine from its
\* end.
DashboardNeverBlocks == \A c \in Clients : <>(point[c] = "done")

=============================================================================
