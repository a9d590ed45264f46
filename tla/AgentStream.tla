----------------------------- MODULE AgentStream -----------------------------
(***************************************************************************)
(* One call of a coding agent: the process harness and line splitter of    *)
(* src/hosts/stream.ts, and what the adapters of Claude Code and Codex     *)
(* make of the events.                                                     *)
(*                                                                         *)
(* The agent writes lines of JSON.  Line i is the bytes 2i-1 and 2i, of    *)
(* which the second is its newline; the pipe hands over what has been      *)
(* written in chunks that end anywhere.                                    *)
(*                                                                         *)
(* Simplifications: a line is an event, a result (with the cost), a result *)
(* that reports an error, or noise that is not JSON; texts, token counts   *)
(* and the trace file are left out; when the process has ended, its pipes  *)
(* are closed.                                                             *)
(***************************************************************************)
EXTENDS Naturals, Sequences

CONSTANT MaxLines   \* bound on the lines an agent writes

ASSUME AgentAssumption == MaxLines \in Nat

VARIABLES
  host,      \* the coding agent at work, "none" before it is chosen
  child,     \* "none", "running"; "ok", "failed" (exit codes), "killed"
  lines,     \* the lines the agent has written or begun
  written,   \* bytes it has written
  read,      \* bytes the engine has been handed
  carry,     \* the bytes of an unfinished line
  adapter,   \* what the adapter remembers
  signal,    \* the abort signal
  timedOut,  \* execa's timeout has fired
  outcome    \* exitReason and cost of the call; NoOutcome before its end

agentVars == <<host, child, lines, written, read, carry, adapter,
               signal, timedOut, outcome>>

LineKinds == {"event", "result", "error", "noise"}
NoOutcome == [reason |-> "none", cost |-> 0]
Unheard == [sawResult |-> FALSE, isError |-> FALSE, cost |-> 0]

AgentInit ==
  /\ host = "none" /\ child = "none" /\ lines = <<>> /\ written = 0 /\ read = 0
  /\ carry = <<>> /\ adapter = Unheard
  /\ signal = FALSE /\ timedOut = FALSE /\ outcome = NoOutcome

Newline(byte) == byte % 2 = 0

\* Bytes first..last.
Bytes(first, last) == [i \in 1..(last + 1 - first) |-> first + i - 1]

-----------------------------------------------------------------------------
(* chooseTaskHost *)

Hosts == {"claude-code", "codex"}

\* What detectHosts finds.  Nothing tells that Claude Code is signed out.
Detection == [installed : SUBSET Hosts, auth : [Hosts -> {"yes", "no", "unknown"}]]
Detected == {d \in Detection : d.auth["claude-code"] # "no"}

Usable(d) == {h \in d.installed : d.auth[h] # "no"}
SignedIn(d) == {h \in d.installed : d.auth[h] = "yes"}

\* A preference wins, signed in or not; else those known to be signed in come
\* first, and Claude Code before Codex.  Without a
\* host there is no run.
PickHost(preferred, d) ==
  LET First(set) == IF "claude-code" \in set THEN "claude-code" ELSE "codex" IN
  IF preferred \in Hosts THEN {preferred} \cap d.installed
  ELSE IF SignedIn(d) # {} THEN {First(SignedIn(d))}
  ELSE IF Usable(d) # {} THEN {First(Usable(d))} ELSE {}

ChooseHost ==
  /\ host = "none"
  /\ \E d \in Detected, preferred \in Hosts \cup {"none"} :
       host' \in PickHost(preferred, d)
  /\ UNCHANGED <<child, lines, written, read, carry, adapter, signal, timedOut, outcome>>

-----------------------------------------------------------------------------
(* feedJsonlChunk *)

\* The text of left and chunk, split after every newline.
Split(left, chunk) ==
  LET upto[k \in 0..Len(chunk)] ==
        IF k = 0 THEN [lines |-> <<>>, carry |-> left]
        ELSE LET before == upto[k - 1]
                 carried == Append(before.carry, chunk[k])
             IN IF Newline(chunk[k])
                  THEN [lines |-> Append(before.lines, carried), carry |-> <<>>]
                  ELSE [lines |-> before.lines, carry |-> carried]
  IN upto[Len(chunk)]

\* Mutant of Feed: what is left over is thrown away.
FeedWithoutCarry(left, chunk) == Split(<<>>, chunk)

\* The lines that the carry and the chunk complete, and the new carry.
Feed(left, chunk) == Split(left, chunk)

-----------------------------------------------------------------------------
(* streamJsonlAgent *)

\* A signal that is already aborted cancels the process at once.
Spawn ==
  /\ host # "none" /\ child = "none" /\ outcome = NoOutcome
  /\ child' = IF signal THEN "killed" ELSE "running"
  /\ UNCHANGED <<host, lines, written, read, carry, adapter, signal, timedOut, outcome>>

\* The agent begins a line, or ends the one it has begun.
Write ==
  /\ child = "running"
  /\ \/ /\ written = 2 * Len(lines) /\ Len(lines) < MaxLines
        /\ \E kind \in LineKinds : lines' = Append(lines, kind)
     \/ written < 2 * Len(lines) /\ UNCHANGED lines
  /\ written' = written + 1
  /\ UNCHANGED <<host, child, read, carry, adapter, signal, timedOut, outcome>>

\* A line parses when it is one line of JSON, all of it.
Parsed(line) ==
  IF Len(line) = 2 /\ line[2] = line[1] + 1 THEN lines[line[2] \div 2] ELSE "noise"

\* onEvent of Claude Code: the last result counts.  Codex has no such event:
\* it reports neither failure nor cost.
OnEvent(memory, line) ==
  IF host = "claude-code" /\ Parsed(line) \in {"result", "error"}
    THEN [sawResult |-> TRUE, isError |-> Parsed(line) = "error", cost |-> 1]
    ELSE memory

\* The adapter hears the lines of a chunk, one after the other.
Heard(memory, chunkLines) ==
  LET after[k \in 0..Len(chunkLines)] ==
        IF k = 0 THEN memory ELSE OnEvent(after[k - 1], chunkLines[k])
  IN after[Len(chunkLines)]

\* A chunk arrives: everything up to now, or less.
Receive ==
  /\ child # "none" /\ outcome = NoOutcome
  /\ \E upto \in (read + 1)..written :
       LET fed == Feed(carry, Bytes(read + 1, upto)) IN
       /\ read' = upto
       /\ carry' = fed.carry
       /\ adapter' = Heard(adapter, fed.lines)
  /\ UNCHANGED <<host, child, lines, written, signal, timedOut, outcome>>

Exit ==
  /\ child = "running"
  /\ child' \in {"ok", "failed"}
  /\ UNCHANGED <<host, lines, written, read, carry, adapter, signal, timedOut, outcome>>

\* SIGINT: the signal kills the agent if there still is one.
Abort ==
  /\ ~signal
  /\ signal' = TRUE
  /\ child' = IF child = "running" THEN "killed" ELSE child
  /\ UNCHANGED <<host, lines, written, read, carry, adapter, timedOut, outcome>>

Timeout ==
  /\ child = "running"
  /\ timedOut' = TRUE /\ child' = "killed"
  /\ UNCHANGED <<host, lines, written, read, carry, adapter, signal, outcome>>

-----------------------------------------------------------------------------
\* buildAgentRunResult: cancelled, timeout, error, completed, in this order.
Reason ==
  IF signal THEN "cancelled"
  ELSE IF timedOut THEN "timeout"
  ELSE IF child # "ok" \/ (host = "claude-code" /\ (~adapter.sawResult \/ adapter.isError))
    THEN "error" ELSE "completed"

\* The process has ended and its output has been read: the call returns.  A
\* line without its newline stays in the carry.
Return ==
  /\ child \notin {"none", "running"} /\ read = written /\ outcome = NoOutcome
  /\ outcome' = [reason |-> Reason, cost |-> adapter.cost]
  /\ UNCHANGED <<host, child, lines, written, read, carry, adapter, signal, timedOut>>

AgentStep == ChooseHost \/ Spawn \/ Write \/ Receive \/ Exit \/ Timeout \/ Return

-----------------------------------------------------------------------------
(* Properties *)

\* What comes of a call does not depend on where the chunks end: it follows
\* from the whole lines that the agent wrote, the last result among them.
OutcomeTellsOutput ==
  outcome # NoOutcome =>
    LET whole == {i \in 1..Len(lines) : 2 * i <= written}
        results == {i \in whole : lines[i] \in {"result", "error"}}
        good == \E i \in results : lines[i] = "result" /\ \A j \in results : j <= i
    IN /\ outcome.reason = "cancelled" \/
          (outcome.reason = "completed" <=> child = "ok" /\ (host = "codex" \/ good))
       /\ outcome.reason = "cancelled" => signal
       /\ outcome.cost = (IF host = "claude-code" /\ results # {} THEN 1 ELSE 0)

=============================================================================
