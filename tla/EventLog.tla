------------------------------ MODULE EventLog ------------------------------
(***************************************************************************)
(* The append-only event log of one run: class EventStore of               *)
(* src/tree/store.ts and the file events.jsonl it writes.                  *)
(*                                                                         *)
(* A line of the file is the envelope it holds, or Bad when JSON.parse     *)
(* refuses it.  openTail says that the last line has no newline yet: the   *)
(* next bytes land on that same line.  An engine process is a writer; its  *)
(* sequence counter and its chain of pending writes live in memory and die *)
(* with it.                                                                *)
(*                                                                         *)
(* Simplifications: an event is the number of its append call (issued);    *)
(* envelope validation and schema migration, which depend on text only,    *)
(* are left out; appendFile reaches the file in two steps, so that a crash *)
(* or a reader can fall between them.                                      *)
(***************************************************************************)
EXTENDS Naturals, Sequences

CONSTANTS
  Writers,      \* engine processes that may open the log
  CutWrites,    \* TRUE when a crash can leave a started write incomplete
  IoErrors,     \* TRUE when appendFile can fail (a full disk)
  MaxAppends,   \* bound on append calls
  MaxSessions   \* bound on openings of the log

ASSUME BoundsAssumption == MaxAppends \in Nat /\ MaxSessions \in Nat
ASSUME FaultsAssumption == CutWrites \in BOOLEAN /\ IoErrors \in BOOLEAN

VARIABLES
  file,         \* the lines of events.jsonl
  openTail,     \* the last line is not terminated by a newline
  up,           \* up[w]: process w runs with the log opened
  seq,          \* seq[w]: the store's counter (this.seq)
  queue,        \* queue[w]: envelopes on the write chain, the head is next
  writing,      \* writing[w]: where the head of the chain is partly written
  acked,        \* events whose append call has resolved
  issued,       \* append calls made so far; also the last event's identity
  sessions      \* openings of the log so far

vars == <<file, openTail, up, seq, queue, writing, acked, issued, sessions>>

Envelope == [seq : Nat \ {0}, id : Nat]
Bad == [seq |-> 0, id |-> 0]
Line == Envelope \cup {Bad}

\* "fresh": on a line of its own; "glued": behind a line another write left
\* unterminated.
Writing == {"idle", "fresh", "glued"}

-----------------------------------------------------------------------------
(* readAll *)

\* The lines left once an unparsable last line has been dropped.
Complete(f) ==
  IF Len(f) > 0 /\ f[Len(f)] = Bad THEN Len(f) - 1 ELSE Len(f)

\* Mutant of Readable: unparsable lines are skipped wherever they are.
ReadableSkipping(f) ==
  \A i, j \in 1..Complete(f) : (f[i] # Bad /\ f[i] = f[j]) => i = j

\* readAll returns: no unparsable line before the tail, and once sorted the
\* sequence numbers are 1, 2, 3 ... with neither a gap nor a duplicate.
Readable(f) ==
  /\ \A i \in 1..Complete(f) : f[i] # Bad
  /\ {f[i].seq : i \in 1..Complete(f)} = 1..Complete(f)

\* Mutant of LastSeq: a store that is opened starts to count from zero.
LastSeqRestart(f) == 0

\* The sequence number of the last envelope readAll returns.
LastSeq(f) == Complete(f)

\* The events readAll returns.
Replayed(f) == {f[i].id : i \in 1..Complete(f)}

-----------------------------------------------------------------------------
Init ==
  /\ file = <<>>
  /\ openTail = FALSE
  /\ up = [w \in Writers |-> FALSE]
  /\ seq = [w \in Writers |-> 0]
  /\ queue = [w \in Writers |-> <<>>]
  /\ writing = [w \in Writers |-> "idle"]
  /\ acked = {}
  /\ issued = 0
  /\ sessions = 0

StartSession(w, last) ==
  /\ ~up[w]
  /\ sessions < MaxSessions
  /\ sessions' = sessions + 1
  /\ up' = [up EXCEPT ![w] = TRUE]
  /\ seq' = [seq EXCEPT ![w] = last]
  /\ UNCHANGED <<file, openTail, queue, writing, acked, issued>>

\* EventStore.create: the directory of a new run, no event yet.
Create(w) ==
  /\ sessions = 0
  /\ StartSession(w, 0)

\* EventStore.open: throws when the log is missing or does not read back,
\* else numbering goes on after the last envelope.
Open(w) ==
  /\ file # <<>>
  /\ Readable(file)
  /\ StartSession(w, LastSeq(file))

\* Mutants of AppendEvent: the number is taken before it is incremented; the
\* call resolves once its write is chained.
AppendEventPostIncrement(w) ==
  /\ up[w]
  /\ issued < MaxAppends
  /\ issued' = issued + 1
  /\ seq' = [seq EXCEPT ![w] = @ + 1]
  /\ queue' = [queue EXCEPT ![w] = Append(@, [seq |-> seq[w], id |-> issued + 1])]
  /\ UNCHANGED <<file, openTail, up, writing, acked, sessions>>

AppendEventUnawaited(w) ==
  /\ up[w]
  /\ issued < MaxAppends
  /\ issued' = issued + 1
  /\ seq' = [seq EXCEPT ![w] = @ + 1]
  /\ queue' = [queue EXCEPT ![w] =
                 Append(@, [seq |-> seq[w] + 1, id |-> issued + 1])]
  /\ acked' = acked \cup {issued + 1}
  /\ UNCHANGED <<file, openTail, up, writing, sessions>>

\* The synchronous part of append: the number is taken, the write is chained.
AppendEvent(w) ==
  /\ up[w]
  /\ issued < MaxAppends
  /\ issued' = issued + 1
  /\ seq' = [seq EXCEPT ![w] = @ + 1]
  /\ queue' = [queue EXCEPT ![w] =
                 Append(@, [seq |-> seq[w] + 1, id |-> issued + 1])]
  /\ UNCHANGED <<file, openTail, up, writing, acked, sessions>>

\* The head of the chain begins to reach the file.  On a line of its own it
\* shows as a cut envelope or as all of it but the newline; the bytes that
\* follow an unterminated line make one line with it that does not parse.
WriteStart(w) ==
  /\ up[w] /\ queue[w] # <<>> /\ writing[w] = "idle"
  /\ IF openTail
       THEN /\ file' = [file EXCEPT ![Len(file)] = Bad]
            /\ writing' = [writing EXCEPT ![w] = "glued"]
       ELSE /\ \E part \in {Bad, Head(queue[w])} : file' = Append(file, part)
            /\ writing' = [writing EXCEPT ![w] = "fresh"]
  /\ openTail' = TRUE
  /\ UNCHANGED <<up, seq, queue, acked, issued, sessions>>

\* Mutant of WriteFinish: the line is written without its newline.
WriteFinishNoNewline(w) ==
  /\ writing[w] # "idle"
  /\ file' = IF writing[w] = "fresh"
               THEN [file EXCEPT ![Len(file)] = Head(queue[w])]
               ELSE file
  /\ openTail' = TRUE
  /\ acked' = acked \cup {Head(queue[w]).id}
  /\ queue' = [queue EXCEPT ![w] = Tail(@)]
  /\ writing' = [writing EXCEPT ![w] = "idle"]
  /\ UNCHANGED <<up, seq, issued, sessions>>

\* The rest of the line and its newline are written: append resolves and the
\* next link of the chain can run.
WriteFinish(w) ==
  /\ writing[w] # "idle"
  /\ file' = IF writing[w] = "fresh"
               THEN [file EXCEPT ![Len(file)] = Head(queue[w])]
               ELSE file
  /\ openTail' = FALSE
  /\ acked' = acked \cup {Head(queue[w]).id}
  /\ queue' = [queue EXCEPT ![w] = Tail(@)]
  /\ writing' = [writing EXCEPT ![w] = "idle"]
  /\ UNCHANGED <<up, seq, issued, sessions>>

\* appendFile rejects, before its first byte or part way: so does the append
\* call.  The chain goes on (write.catch), the number is not given back.
WriteFail(w) ==
  /\ IoErrors
  /\ up[w] /\ queue[w] # <<>>
  /\ queue' = [queue EXCEPT ![w] = Tail(@)]
  /\ writing' = [writing EXCEPT ![w] = "idle"]
  /\ UNCHANGED <<file, openTail, up, seq, acked, issued, sessions>>

EndSession(w) ==
  /\ up' = [up EXCEPT ![w] = FALSE]
  /\ seq' = [seq EXCEPT ![w] = 0]
  /\ queue' = [queue EXCEPT ![w] = <<>>]
  /\ writing' = [writing EXCEPT ![w] = "idle"]
  /\ UNCHANGED <<file, openTail, acked, issued, sessions>>

\* The engine ends and has awaited every append.
Close(w) ==
  /\ up[w] /\ queue[w] = <<>>
  /\ EndSession(w)

\* The process is killed: its counter and its chain are gone.  A write that
\* has begun stays as it is, or is completed by the system first.
Crash(w) ==
  /\ up[w]
  /\ CutWrites \/ writing[w] = "idle"
  /\ EndSession(w)

\* The contract of the store: an engine opens the log when no other has it.
SoleWriter == \A w \in Writers : ~up[w]

Next ==
  \E w \in Writers :
    \/ SoleWriter /\ Create(w)
    \/ SoleWriter /\ Open(w)
    \/ AppendEvent(w)
    \/ WriteStart(w)
    \/ WriteFinish(w)
    \/ WriteFail(w)
    \/ Close(w)
    \/ Crash(w)

Spec == Init /\ [][Next]_vars

-----------------------------------------------------------------------------
(* Properties *)

InSeqOrder(f) ==
  \A i, j \in 1..Len(f) :
    (i < j /\ f[i] # Bad /\ f[j] # Bad) => f[i].seq < f[j].seq

TypeOK ==
  /\ file \in Seq(Line)
  /\ openTail \in BOOLEAN
  /\ up \in [Writers -> BOOLEAN]
  /\ seq \in [Writers -> Nat]
  /\ queue \in [Writers -> Seq(Envelope)]
  /\ writing \in [Writers -> Writing]
  /\ acked \subseteq Nat
  /\ issued \in Nat
  /\ sessions \in Nat

\* The order of the envelopes in the file is the order of their numbers, for
\* any fault: the write chain of append and the numbering that open restores
\* leave readAll's sort nothing to do.
FileInSeqOrder == InSeqOrder(file)

\* The log reads back at every instant, between the bytes of a write too: a
\* status command, a replay of the round loop or a resume finds it sound.
AlwaysReadable == Readable(file)

\* readAll never drops work in silence: when it returns, every event whose
\* append resolved is among those it returns.
NoSilentLoss == Readable(file) => acked \subseteq Replayed(file)

\* Even with cut and failing writes, a replay that succeeds has lost at most
\* one acknowledged event: a second one would stand behind an unparsable line
\* that is not the tail, and readAll raises on that.
AtMostOneLost ==
  Readable(file) =>
    \A a, b \in acked \ Replayed(file) : a = b

\* An acknowledged event that a replay returns is returned by every later
\* replay that succeeds: no later write, cut or not, lands on its line.
AckedStays ==
  [][ Readable(file) /\ Readable(file') =>
        acked \cap Replayed(file) \subseteq Replayed(file') ]_vars

\* Without cut or failing writes the store is the log it promises to be; the
\* log of the promise is what a replay returns.
Durable ==
  INSTANCE DurableLog WITH
    Event <- 1..MaxAppends,
    log <- [i \in 1..Complete(file) |-> file[i].id],
    acked <- acked

ImplementsDurableLog == Durable!Spec

=============================================================================
