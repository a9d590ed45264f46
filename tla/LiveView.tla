------------------------------- MODULE LiveView -------------------------------
(***************************************************************************)
(* The dashboard of one run, src/dashboard/server.ts: a process of its own *)
(* that reads the event log while engines write it, and the page it serves.*)
(*                                                                         *)
(* The page asks for a replay of the log when it is told of an event and   *)
(* every ten seconds; answers may overtake each other.  The event stream   *)
(* sends what the file has grown by; file watching may call push again     *)
(* while an earlier push still reads.                                      *)
(*                                                                         *)
(* Simplifications: a write is two units of text, as in EventLog; a page   *)
(* shows what was replayed; token, redaction and the page's text are left  *)
(* out, and so is the shutdown after thirty minutes without a request,     *)
(* since a page that is open asks every ten seconds.                       *)
(***************************************************************************)
EXTENDS EventLog, FiniteSets

CONSTANT MaxFlight   \* bound on the reads, and on the answers, under way

ASSUME FlightAssumption == MaxFlight \in Nat \ {0}

VARIABLES
  size,       \* units of text in the file
  serving,    \* the dashboard's process runs
  offset,     \* what the connection has sent, as push remembers it
  reads,      \* lengths that pushes have read and not yet acted on
  sent,       \* units sent over the connection, in order
  answers,    \* replays on their way to the page
  shown       \* the events the page shows

viewVars == <<serving, offset, reads, sent, answers, shown>>

ViewInit ==
  /\ Init
  /\ size = 0 /\ serving = TRUE /\ offset = 0 /\ reads = {} /\ sent = <<>>
  /\ answers = {} /\ shown = {}

\* The engines, which know nothing of the dashboard.
Engine ==
  /\ Next
  /\ size' = IF file' # file \/ openTail' # openTail THEN size + 1 ELSE size
  /\ UNCHANGED viewVars

\* Mutant of Refresh: the page asks once, and has no timer.
RefreshOnce ==
  /\ serving /\ Cardinality(answers) < MaxFlight
  /\ file # <<>> /\ shown = {}
  /\ IF Readable(file)
       THEN answers' = answers \cup {Replayed(file)} /\ UNCHANGED serving
       ELSE serving' = FALSE /\ UNCHANGED answers
  /\ UNCHANGED <<vars, size, offset, reads, sent, shown>>

\* /api/run.  A log that does not read back rejects in the request handler,
\* where nothing catches it: the process ends.
Refresh ==
  /\ serving /\ Cardinality(answers) < MaxFlight
  /\ file # <<>>
  /\ IF Readable(file)
       THEN answers' = answers \cup {Replayed(file)} /\ UNCHANGED serving
       ELSE serving' = FALSE /\ UNCHANGED answers
  /\ UNCHANGED <<vars, size, offset, reads, sent, shown>>

Answer ==
  /\ \E replay \in answers :
       /\ shown' = replay
       /\ answers' = answers \ {replay}
  /\ UNCHANGED <<vars, size, serving, offset, reads, sent>>

\* /api/events: a connection starts at the beginning of the file.
Connect ==
  /\ serving /\ offset > 0
  /\ offset' = 0 /\ sent' = <<>> /\ reads' = {}
  /\ UNCHANGED <<vars, size, serving, answers, shown>>

\* push: readFile is awaited.
PushRead ==
  /\ serving /\ file # <<>> /\ Cardinality(reads) < MaxFlight
  /\ reads' = reads \cup {size}
  /\ UNCHANGED <<vars, size, serving, offset, sent, answers, shown>>

Units(from, to) == [i \in 1..(to - from) |-> from + i]

\* Mutant of PushSend: the offset is set to the length of the latest read.
PushSendRewinding ==
  /\ serving
  /\ \E length \in reads :
       /\ reads' = reads \ {length}
       /\ sent' = IF length > offset THEN sent \o Units(offset, length) ELSE sent
       /\ offset' = length
  /\ UNCHANGED <<vars, size, serving, answers, shown>>

\* Then what is new is sent, if there is any.
PushSend ==
  /\ serving
  /\ \E length \in reads :
       /\ reads' = reads \ {length}
       /\ IF length > offset
            THEN sent' = sent \o Units(offset, length) /\ offset' = length
            ELSE UNCHANGED <<sent, offset>>
  /\ UNCHANGED <<vars, size, serving, answers, shown>>

ViewNext == Engine \/ Refresh \/ Answer \/ Connect \/ PushRead \/ PushSend

ViewSpec == ViewInit /\ [][ViewNext]_<<vars, size, viewVars>>

\* The page's timer goes on, and its requests are answered.
FairViewSpec ==
  /\ ViewSpec
  /\ WF_<<vars, size, viewVars>>(Refresh) /\ WF_<<vars, size, viewVars>>(Answer)

-----------------------------------------------------------------------------
(* Properties *)

\* However pushes overlap, a connection gets every unit of text once and in
\* order.
SentOnceInOrder == \A i \in 1..Len(sent) : sent[i] = i

\* Whatever order answers come in: once the log has come to rest, the page
\* shows what a replay returns, unless a log that does not read back has
\* ended the dashboard.
PageCatchesUp == <>[](serving /\ file # <<>> => shown = Replayed(file))

=============================================================================
