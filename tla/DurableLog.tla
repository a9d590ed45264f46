----------------------------- MODULE DurableLog -----------------------------
(***************************************************************************)
(* What the event store promises (header of src/tree/store.ts): the log is *)
(* append-only, it is the source of truth, and a replay finds every event  *)
(* whose append was acknowledged, in the order the appends were made.      *)
(***************************************************************************)
EXTENDS Naturals, Sequences

CONSTANT Event   \* the events, numbered in the order of their append calls

VARIABLES
  log,    \* the events a replay returns, in order
  acked   \* the events whose append was acknowledged

vars == <<log, acked>>

Init ==
  /\ log = <<>>
  /\ acked = {}

\* An event later than all those of the log is appended, and may be
\* acknowledged at the same instant.
Commit(e) ==
  /\ \A i \in 1..Len(log) : log[i] < e
  /\ log' = Append(log, e)
  /\ acked' \in {acked, acked \cup {e}}

\* Only an event of the log is acknowledged.
Acknowledge(e) ==
  /\ \E i \in 1..Len(log) : log[i] = e
  /\ acked' = acked \cup {e}
  /\ UNCHANGED log

Next == \E e \in Event : Commit(e) \/ Acknowledge(e)

Spec == Init /\ [][Next]_vars

=============================================================================
