------------------------------ MODULE ResumeRun ------------------------------
(***************************************************************************)
(* Engines that start, and resume, one optimize run: how runOptimize       *)
(* (src/engine/run-loop.ts) and the resume command (src/cli/index.ts) put  *)
(* the event store and the lock together.                                  *)
(*                                                                         *)
(* Each engine opens the store first, which fixes its sequence number, and *)
(* then acquires the lock; as the owner it replays the log, gives up on a  *)
(* run that has finished, and appends.  The work of the run itself is in   *)
(* other modules: here it is a number of appends and a terminal event.     *)
(*                                                                         *)
(* Simplifications: a write, once started, is completed: none is cut or    *)
(* fails, and none starts in the middle of another, but other engines may  *)
(* see it half done.                                                       *)
(***************************************************************************)
EXTENDS EngineLock, Sequences

CONSTANT MaxAppends   \* bound on appends

VARIABLES
  file, openTail, up, seq, queue, writing, acked, issued, sessions,
  stage,       \* stage[p]: how far runOptimize has come once it has the lock
  finishes     \* the run_finished events among those appended

logVars == <<file, openTail, up, seq, queue, writing, acked, issued, sessions>>
runVars == <<stage, finishes>>
vars == <<logVars, lockVars, runVars>>

Log == INSTANCE EventLog WITH
         Writers <- Pids, CutWrites <- FALSE, IoErrors <- FALSE,
         MaxSessions <- MaxStarts

Stages == {"opening", "running", "ended", "failed"}

Init ==
  /\ Log!Init
  /\ LockInit
  /\ stage = [p \in Pids |-> "opening"]
  /\ finishes = {}

Enter(p, s) == stage' = [stage EXCEPT ![p] = s]

\* `paxcli start` or `paxcli resume` starts an engine.
StartEngine(p) ==
  /\ StartProcess(p, "engine")
  /\ Enter(p, "opening")
  /\ UNCHANGED <<logVars, finishes>>

\* Other programs start too, and may get the pid of a dead engine.
StartOther(p) ==
  /\ StartProcess(p, "other")
  /\ UNCHANGED <<logVars, runVars>>

Pass == Tick /\ UNCHANGED <<logVars, runVars>>

\* EventStore.create for a new run, EventStore.open for one to resume.
OpenStore(p) ==
  /\ kind[p] = "engine" /\ pc[p] = "start"
  /\ Log!Create(p) \/ Log!Open(p)
  /\ UNCHANGED <<lockVars, runVars>>

AcquireLock(p) ==
  /\ up[p]
  /\ Acquire(p)
  /\ UNCHANGED <<logVars, runVars>>

\* A new run records run_started.
StartRun(p) ==
  /\ pc[p] = "holding" /\ stage[p] = "opening" /\ file = <<>>
  /\ Log!AppendEvent(p)
  /\ Enter(p, "running")
  /\ UNCHANGED <<lockVars, finishes>>

\* Mutant of Finished: run_interrupted and run_finished are not told apart.
NeverFinished == FALSE

Finished == finishes \cap Log!Replayed(file) # {}

\* A resumed one is replayed: a log that does not read back, or a run that has
\* finished, ends in an error.
ReplayRun(p) ==
  /\ pc[p] = "holding" /\ stage[p] = "opening" /\ file # <<>>
  /\ Enter(p, IF Log!Readable(file) /\ ~Finished THEN "running" ELSE "failed")
  /\ UNCHANGED <<logVars, lockVars, finishes>>

\* Any event of the rounds.
AppendEvent(p) ==
  /\ stage[p] = "running"
  /\ Log!AppendEvent(p)
  /\ UNCHANGED <<lockVars, runVars>>

\* Mutant of EndRun: the terminal event is counted one too far.
EndRunMiscounted(p) ==
  /\ stage[p] = "running"
  /\ Log!AppendEvent(p)
  /\ finishes' \in {finishes, finishes \cup {issued + 2}}
  /\ Enter(p, "ended")
  /\ UNCHANGED lockVars

\* appendTerminalEvent: run_finished, or run_interrupted, which leaves the run
\* to be resumed.
EndRun(p) ==
  /\ stage[p] = "running"
  /\ Log!AppendEvent(p)
  /\ finishes' \in {finishes, finishes \cup {issued + 1}}
  /\ Enter(p, "ended")
  /\ UNCHANGED lockVars

WriteLine(p) ==
  /\ \/ Log!WriteStart(p) /\ ~openTail
     \/ Log!WriteFinish(p)
  /\ UNCHANGED <<lockVars, runVars>>

\* The finally block, once the appends have been awaited.
ReleaseLock(p) ==
  /\ stage[p] \in {"ended", "failed"} /\ queue[p] = <<>>
  /\ Release(p)
  /\ UNCHANGED <<logVars, runVars>>

\* The process ends, by itself or killed.
Exit(p) ==
  /\ Die(p)
  /\ IF up[p] THEN Log!Crash(p) ELSE UNCHANGED logVars
  /\ Enter(p, "opening")
  /\ UNCHANGED finishes

Next ==
  \/ \E p \in Pids :
       \/ StartEngine(p) \/ StartOther(p) \/ OpenStore(p) \/ AcquireLock(p)
       \/ StartRun(p) \/ ReplayRun(p) \/ AppendEvent(p) \/ EndRun(p)
       \/ WriteLine(p) \/ ReleaseLock(p) \/ Exit(p)
  \/ Pass

Spec == Init /\ [][Next]_vars

\* An engine that lives goes on through acquire (it awaits no other engine).
FairSpec == Spec /\ \A p \in Pids : WF_vars(AcquireLock(p))

-----------------------------------------------------------------------------
(* Properties *)

TypeOK ==
  /\ Log!TypeOK /\ LockTypeOK
  /\ stage \in [Pids -> Stages]
  /\ finishes \subseteq 1..issued

\* A finished run is final: whatever engines were opening it at the time, no
\* event follows run_finished, as long as no two engines have owned the run at
\* once.  The store is opened before the lock is taken, so that it is the
\* replay under the lock that has to notice.
FinishIsFinal ==
  ~shared => \A i \in 1..Len(file) : file[i].id \in finishes => i = Len(file)

\* The single-writer promise: no two engines write to the log of a run.
SingleWriter ==
  \A p, q \in Pids :
    stage[p] \in {"running", "ended"} /\ pc[p] = "holding" /\
    stage[q] \in {"running", "ended"} /\ pc[q] = "holding" => p = q

\* The log of a run reads back at every instant, whoever resumes it when; here
\* of runs that no two engines have owned at once.
LogReadable == ~shared => Log!AlwaysReadable

=============================================================================
