------------------------------ MODULE Repository ------------------------------
(***************************************************************************)
(* The paxcli commands that work on one repository beside each other:      *)
(* measuring HEAD (`benchmark validate`, `ci`), `run reproduce`, `apply`   *)
(* and `pr` of an accepted experiment, recording a task, and `gc`; the     *)
(* worktrees and branches of src/worktree/local.ts they share, and the     *)
(* Proof Ledger.                                                           *)
(*                                                                         *)
(* A worktree and its branch have one name, made of that of the command    *)
(* that made them; an accepted experiment left its branch behind when   *)
(* its worktree went.                                                      *)
(*                                                                         *)
(* Simplifications: each git command takes one step; removing a worktree   *)
(* succeeds at the first attempt; what is measured is left to Experiment;  *)
(* refs/paxcli, which no command here reads, are left out.                 *)
(***************************************************************************)
EXTENDS Ledger

VARIABLES
  dirs,       \* checkouts under .paxcli/worktrees
  branches,   \* branches paxcli/exp/*
  winner,     \* winner[r]: the commit of branch paxcli/winner/<r>, or None
  todo,       \* todo[c]: what gc has listed and not yet removed
  applied,    \* winners whose branch has been made
  cut         \* commands that were killed or could not provision

vars == <<ledgerVars, pc, entry, dirs, branches, winner, todo, applied, cut>>

None == <<>>
First(c) == <<c, 1, 0>>
Second(c) == <<c, 2, 0>>

Init ==
  /\ LedgerInit
  /\ pc = [c \in Commands |-> "idle"]
  /\ entry = [c \in Commands |-> TaskEntry(0, c)]
  /\ dirs = {} /\ branches = Winners
  /\ winner = [r \in Runs |-> None]
  /\ todo = [c \in Commands |-> {}]
  /\ applied = {} /\ cut = {}

-----------------------------------------------------------------------------
(* Measurements *)

\* backend.provision.
Provision(c, from, to, id) ==
  /\ Go(c, from, to)
  /\ dirs' = dirs \cup {id} /\ branches' = branches \cup {id}
  /\ UNCHANGED <<ledgerVars, entry, winner, todo, applied, cut>>

\* withMeasurementWorktree.
StartMeasure(c) == Provision(c, "idle", "measure", First(c))

\* reproduceWinner: the worktree of the base, then the winner's.
StartReproduce(c) == Provision(c, "idle", "second", First(c))
ProvisionWinner(c) == Provision(c, "second", "measure2", Second(c))

\* The second one fails outside the try block: nothing removes the first.
FailProvision(c) ==
  /\ Go(c, "second", "done")
  /\ cut' = cut \cup {c}
  /\ UNCHANGED <<ledgerVars, entry, dirs, branches, winner, todo, applied>>

\* Mutant of EndMeasure: an error skips the removal.
EndMeasureLeaky(c) ==
  /\ \/ Go(c, "measure", "remove") \/ Go(c, "measure2", "remove2")
     \/ Go(c, "measure", "done")
  /\ UNCHANGED <<ledgerVars, entry, dirs, branches, winner, todo, applied, cut>>

\* A result or an error: the finally blocks follow in either case.
EndMeasure(c) ==
  /\ Go(c, "measure", "remove") \/ Go(c, "measure2", "remove2")
  /\ UNCHANGED <<ledgerVars, entry, dirs, branches, winner, todo, applied, cut>>

\* Worktree.destroy: the checkout, then `git branch -D`, which git refuses
\* while the branch is checked out, an error that is swallowed.
RemoveWorktree(c) ==
  /\ \/ Go(c, "remove", "branch") /\ dirs' = dirs \ {First(c)}
     \/ Go(c, "remove2", "branch2") /\ dirs' = dirs \ {First(c)}
     \/ Go(c, "remove3", "branch3") /\ dirs' = dirs \ {Second(c)}
  /\ UNCHANGED <<ledgerVars, entry, branches, winner, todo, applied, cut>>

DeleteBranch(id) == branches' = IF id \in dirs THEN branches ELSE branches \ {id}

RemoveBranch(c) ==
  /\ \/ Go(c, "branch", "done") /\ DeleteBranch(First(c))
     \/ Go(c, "branch2", "remove3") /\ DeleteBranch(First(c))
     \/ Go(c, "branch3", "done") /\ DeleteBranch(Second(c))
  /\ UNCHANGED <<ledgerVars, entry, dirs, winner, todo, applied, cut>>

-----------------------------------------------------------------------------
(* apply, pr, and the record of a task *)

\* resolveAcceptedNode, and the winner branch, wherever it pointed before.
\* apply goes on to the ledger unless told otherwise (or without a receipt);
\* pr does not.
Apply(c) ==
  /\ \E w \in Winners :
       /\ winner' = [winner EXCEPT ![w[1]] = w]
       /\ applied' = applied \cup {w}
       /\ entry' = [entry EXCEPT ![c] = WinnerEntry(w, c)]
  /\ Go(c, "idle", "ledger") \/ Go(c, "idle", "done")
  /\ UNCHANGED <<ledgerVars, dirs, branches, todo, cut>>

RecordTask(c) ==
  /\ Go(c, "idle", "ledger")
  /\ \E r \in Runs : entry' = [entry EXCEPT ![c] = TaskEntry(r, c)]
  /\ UNCHANGED <<ledgerVars, dirs, branches, winner, todo, applied, cut>>

-----------------------------------------------------------------------------
(* gc *)

\* sweep lists the directory and removes one worktree after the other.
StartGc(c) ==
  /\ Go(c, "idle", "sweep")
  /\ todo' = [todo EXCEPT ![c] = dirs]
  /\ UNCHANGED <<ledgerVars, entry, dirs, branches, winner, applied, cut>>

SweepOne(c) ==
  /\ pc[c] = "sweep"
  /\ \E id \in todo[c] :
       /\ dirs' = dirs \ {id}
       /\ todo' = [todo EXCEPT ![c] = @ \ {id}]
  /\ UNCHANGED <<ledgerVars, pc, entry, branches, winner, applied, cut>>

\* Mutant of ListBranches: the winner branches are listed too.
ListAllBranches(c) ==
  /\ todo[c] = {}
  /\ Go(c, "sweep", "branches") \/ Go(c, "sweep", "done")
  /\ todo' = [todo EXCEPT ![c] = IF pc'[c] = "done" THEN {} ELSE branches]
  /\ winner' = IF pc'[c] = "done" THEN winner ELSE [r \in Runs |-> None]
  /\ UNCHANGED <<ledgerVars, entry, dirs, branches, applied, cut>>

\* Then, with --branches, the experiment branches there are.
ListBranches(c) ==
  /\ todo[c] = {}
  /\ Go(c, "sweep", "branches") \/ Go(c, "sweep", "done")
  /\ todo' = [todo EXCEPT ![c] = IF pc'[c] = "done" THEN {} ELSE branches]
  /\ UNCHANGED <<ledgerVars, entry, dirs, branches, winner, applied, cut>>

DeleteListed(c) ==
  /\ pc[c] = "branches"
  /\ \E id \in todo[c] :
       /\ DeleteBranch(id)
       /\ todo' = [todo EXCEPT ![c] = @ \ {id}]
       /\ IF todo'[c] = {} THEN Go(c, "branches", "done") ELSE UNCHANGED pc
  /\ UNCHANGED <<ledgerVars, entry, dirs, winner, applied, cut>>

-----------------------------------------------------------------------------
\* The process is killed; what it made stays.
Kill(c) ==
  /\ pc[c] \notin {"idle", "done"}
  /\ IF pc[c] = "write" THEN TearLedger(c)
     ELSE pc' = [pc EXCEPT ![c] = "done"] /\ UNCHANGED <<ledgerVars, entry>>
  /\ cut' = cut \cup {c}
  /\ UNCHANGED <<dirs, branches, winner, todo, applied>>

Next ==
  \/ \E c \in Commands :
       \/ StartMeasure(c) \/ StartReproduce(c) \/ ProvisionWinner(c) \/ FailProvision(c)
       \/ EndMeasure(c) \/ RemoveWorktree(c) \/ RemoveBranch(c)
       \/ Apply(c) \/ RecordTask(c)
       \/ AppendStep(c) /\ UNCHANGED <<dirs, branches, winner, todo, applied, cut>>
       \/ StartGc(c) \/ SweepOne(c) \/ ListBranches(c) \/ DeleteListed(c)
       \/ Kill(c)
  \/ (Spoil \/ Mend) /\ UNCHANGED <<dirs, branches, winner, todo, applied, cut>>

Spec == Init /\ [][Next]_vars

-----------------------------------------------------------------------------
(* Properties *)

\* A command that came to its end leaves neither worktree nor branch, however
\* gc swept beneath it; only one that was killed, or whose second worktree
\* could not be made, does.
NoLeftovers ==
  \A c \in Commands :
    pc[c] = "done" /\ c \notin cut =>
      {First(c), Second(c)} \cap (dirs \cup branches) = {}

\* The commit of a recorded optimization is on a branch, whatever gc deletes,
\* unless another winner of the same run has been applied (branch -f).
RecordedReachable ==
  \A w \in Winners :
    Key(WinnerEntry(w, 0)) \in recorded =>
      \/ w \in branches \/ winner[w[1]] = w
      \/ \E v \in applied : v[1] = w[1] /\ v # w

=============================================================================
