----------------------------- MODULE EngineLock -----------------------------
(***************************************************************************)
(* The lock of a run directory: class EngineLock of src/tree/store.ts and  *)
(* the file engine.lock, over processes that start, die and leave their    *)
(* pid to others.                                                          *)
(*                                                                         *)
(* A process is named by its pid: at any time at most one process has it.  *)
(* kind[p] tells whether that process is an engine, some other program, or *)
(* nobody.  Times are readings of one clock, which stands still while the  *)
(* processes step and moves in Tick.                                       *)
(***************************************************************************)
EXTENDS Naturals

CONSTANTS
  Pids,       \* process identifiers
  Slack,      \* clock units by which a start may exceed the time of the lock
  PsFails,    \* TRUE when the start time of a process may be unavailable
  MaxStarts,  \* bound on process starts
  MaxClock    \* bound on the clock

ASSUME LockAssumption ==
  /\ Pids \subseteq Nat \ {0}
  /\ Slack \in Nat /\ MaxStarts \in Nat /\ MaxClock \in Nat
  /\ PsFails \in BOOLEAN

VARIABLES
  lock,     \* engine.lock: Absent, Garbled or the LockInfo it holds
  kind,     \* kind[p]: what the process with pid p is
  born,     \* born[p]: start time of the process with pid p
  pc,       \* pc[p]: where the engine with pid p is in acquire and release
  info,     \* info[p]: the LockInfo it has read, later the one it writes
  clock,
  starts,   \* processes started so far
  raced,    \* history: engines whose acquisition was not alone (see Alone)
  shared    \* history: TRUE once two engines have owned the run at once

history == <<raced, shared>>
lockVars == <<lock, kind, born, pc, info, clock, starts, history>>

LockInfo == [pid : Pids, startedAt : Nat]

\* No file; a file that JSON.parse refuses, because its writer has truncated
\* it and not yet written (or never will).
Absent == [pid |-> 0, startedAt |-> 0]
Garbled == [pid |-> 0, startedAt |-> 1]

\* Program points of acquire, then those of a lock owner and of its end.
Acquiring == {"read", "probe", "ps", "write", "stamp"}
Points == Acquiring \cup {"start", "holding", "refused", "done"}

LockInit ==
  /\ lock = Absent
  /\ kind = [p \in Pids |-> "none"]
  /\ born = [p \in Pids |-> 0]
  /\ pc = [p \in Pids |-> "start"]
  /\ info = [p \in Pids |-> Absent]
  /\ clock = 0
  /\ starts = 0
  /\ raced = {}
  /\ shared = FALSE

Goto(p, point) == pc' = [pc EXCEPT ![p] = point]

-----------------------------------------------------------------------------
(* Processes *)

\* A process starts under a free pid: an engine, or any other program.
StartProcess(p, k) ==
  /\ kind[p] = "none"
  /\ starts < MaxStarts
  /\ starts' = starts + 1
  /\ kind' = [kind EXCEPT ![p] = k]
  /\ born' = [born EXCEPT ![p] = clock]
  /\ Goto(p, "start")
  /\ info' = [info EXCEPT ![p] = Absent]
  /\ UNCHANGED <<lock, clock, history>>

\* A process ends, at any point of its code: its pid is free again.  Nothing
\* removes the lock file of an engine that is killed.
Die(p) ==
  /\ kind[p] # "none"
  /\ kind' = [kind EXCEPT ![p] = "none"]
  /\ Goto(p, "start")
  /\ raced' = raced \ {p}
  /\ UNCHANGED <<lock, born, info, clock, starts, shared>>

Tick ==
  /\ clock < MaxClock
  /\ clock' = clock + 1
  /\ UNCHANGED <<lock, kind, born, pc, info, starts, history>>

-----------------------------------------------------------------------------
(* acquire *)

\* Engines inside acquire, and owners whose own acquisition was not alone.
\* Nothing keeps an engine from entering acquire beside them: when it does, its
\* acquisition is not alone either, nor are those it has joined.
Inside == {q \in Pids : pc[q] \in Acquiring}
RacedOwners == {q \in raced : pc[q] = "holding"}

\* existsSync(lockPath).
CheckExists(p) ==
  /\ kind[p] = "engine" /\ pc[p] = "start"
  /\ Goto(p, IF lock = Absent THEN "write" ELSE "read")
  /\ raced' = raced \cup Inside
               \cup {r \in {p} : Inside \cup RacedOwners # {}}
  /\ UNCHANGED <<lock, kind, born, info, clock, starts, shared>>

\* readFile and JSON.parse; both throw out of acquire, on a file that has gone
\* and on one that is not JSON.
ReadLock(p) ==
  /\ pc[p] = "read"
  /\ info' = [info EXCEPT ![p] = lock]
  /\ Goto(p, IF lock \in {Absent, Garbled} THEN "refused" ELSE "probe")
  /\ UNCHANGED <<lock, kind, born, clock, starts, history>>

\* Mutant of Probe: the holder is not probed for life.
ProbeOwnPidOnly(p) ==
  /\ pc[p] = "probe"
  /\ Goto(p, IF info[p].pid = p THEN "write" ELSE "ps")
  /\ UNCHANGED <<lock, kind, born, info, clock, starts, history>>

\* The pid of the lock is our own, or signal 0 finds no process: not held.
Probe(p) ==
  /\ pc[p] = "probe"
  /\ Goto(p, IF info[p].pid = p \/ kind[info[p].pid] = "none" THEN "write" ELSE "ps")
  /\ UNCHANGED <<lock, kind, born, info, clock, starts, history>>

\* Mutant of WrittenBy: no slack, and a start at the very time of the lock is
\* taken for a later one.
WrittenByStrict(q, lockInfo) == born[q] < lockInfo.startedAt

\* A process that started after the lock was written cannot have written it.
WrittenBy(q, lockInfo) == born[q] <= lockInfo.startedAt + Slack

\* ps -o lstart= on the holder: held when it gives no start time (the process
\* is gone by now, or ps is of no help), or one the lock may be written by.
CompareStart(p) ==
  /\ pc[p] = "ps"
  /\ \E known \in BOOLEAN :
       /\ ~known => PsFails \/ kind[info[p].pid] = "none"
       /\ known => kind[info[p].pid] # "none"
       /\ Goto(p, IF ~known \/ WrittenBy(info[p].pid, info[p])
                    THEN "refused" ELSE "write")
  /\ UNCHANGED <<lock, kind, born, info, clock, starts, history>>

\* Mutant of Truncate: the lock is dated one unit before the present.
TruncateBackdated(p) ==
  /\ pc[p] = "write"
  /\ lock' = Garbled
  /\ info' = [info EXCEPT ![p] = [pid |-> p, startedAt |-> clock - 1]]
  /\ Goto(p, "stamp")
  /\ UNCHANGED <<kind, born, clock, starts, history>>

\* writeFile truncates the file, whoever made it ...
Truncate(p) ==
  /\ pc[p] = "write"
  /\ lock' = Garbled
  /\ info' = [info EXCEPT ![p] = [pid |-> p, startedAt |-> clock]]
  /\ Goto(p, "stamp")
  /\ UNCHANGED <<kind, born, clock, starts, history>>

\* ... and writes it: acquire returns.
Stamp(p) ==
  /\ pc[p] = "stamp"
  /\ lock' = info[p]
  /\ Goto(p, "holding")
  /\ shared' = (shared \/ \E q \in Pids : pc[q] = "holding")
  /\ UNCHANGED <<kind, born, info, clock, starts, raced>>

-----------------------------------------------------------------------------
\* release: rm with force, of whatever lock file is there.
Release(p) ==
  /\ pc[p] = "holding"
  /\ lock' = Absent
  /\ Goto(p, "done")
  /\ UNCHANGED <<kind, born, info, clock, starts, history>>

Acquire(p) ==
  \/ CheckExists(p) \/ ReadLock(p) \/ Probe(p)
  \/ CompareStart(p) \/ Truncate(p) \/ Stamp(p)

LockNext ==
  \/ \E p \in Pids :
       \/ \E k \in {"engine", "other"} : StartProcess(p, k)
       \/ Die(p)
       \/ Acquire(p)
       \/ Release(p)
  \/ Tick

LockSpec == LockInit /\ [][LockNext]_lockVars

\* An engine that lives goes on through acquire (it awaits no other engine).
FairLockSpec == LockSpec /\ \A p \in Pids : WF_lockVars(Acquire(p))

-----------------------------------------------------------------------------
(* Properties *)

LockTypeOK ==
  /\ lock \in LockInfo \cup {Absent, Garbled}
  /\ kind \in [Pids -> {"none", "engine", "other"}]
  /\ born \in [Pids -> Nat]
  /\ pc \in [Pids -> Points]
  /\ info \in [Pids -> LockInfo \cup {Absent, Garbled}]
  /\ clock \in Nat
  /\ starts \in Nat
  /\ raced \subseteq Pids
  /\ shared \in BOOLEAN

\* The header of store.ts promises a single writer.  What acquire can keep of
\* it, whoever reuses whose pid: an engine whose acquisition was alone is the
\* only owner for as long as it owns, also when others race for its lock.  Two
\* engines that are between existsSync and writeFile together both own.
MutualExclusion ==
  \A p, q \in Pids :
    pc[p] = "holding" /\ p \notin raced /\ pc[q] = "holding" => p = q

\* The lock file of such an owner stays its own until it releases it or dies:
\* nobody overwrites or removes it.
OwnerKeepsFile ==
  \A p \in Pids : pc[p] = "holding" /\ p \notin raced => lock.pid = p

\* The lock of a dead owner does not outlive it: an engine that finds it takes
\* it over, unless that engine dies too, the pid of the dead is reused
\* meanwhile, or another engine that races for it has overwritten it first.
StaleLockTaken ==
  \A p, q \in Pids :
    (pc[p] = "read" /\ lock.pid = q /\ kind[q] = "none")
      ~> \/ pc[p] = "holding" \/ kind[p] = "none" \/ kind[q] # "none"
         \/ p \in raced /\ lock.pid # q

=============================================================================
