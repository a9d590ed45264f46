---------------------------- MODULE ControlPlane ----------------------------
(***************************************************************************)
(* The fleet dashboard's state: class MemoryControlPlane of                *)
(* src/control-plane/store.ts, with the operations that the HTTP service   *)
(* of src/control-plane/server.ts offers to anybody who has its token.     *)
(*                                                                         *)
(* A request that reaches the store is carried out in one piece; one that  *)
(* names an unknown repository or run, or decides an approval nobody       *)
(* waits for, is answered with an error and changes nothing.               *)
(*                                                                         *)
(* Simplifications: texts, costs and repository settings, which no other   *)
(* state depends on, are left out; of finishedAt it is kept whether it is  *)
(* set; the feed of activities is a set whose numbers tell its order.      *)
(***************************************************************************)
EXTENDS Integers, FiniteSets

CONSTANTS
  Repos,        \* repository ids
  RunIds,       \* run ids
  ActivityCap   \* activities kept, of all runs together (10 000)

ASSUME CapAssumption == ActivityCap \in Nat \ {0}

VARIABLES
  repos,        \* ids of the connected repositories
  runs,         \* the runs, by id
  activities,   \* the feed: what was reported, of which run
  appended      \* activities appended so far

storeVars == <<repos, runs, activities, appended>>

Over == {"completed", "rejected", "failed", "stopped"}
Statuses == {"queued", "running", "waiting-approval"} \cup Over
Decided == {"approved", "rejected"}

Run == [repo : Repos, status : Statuses, finishedAt : BOOLEAN,
        approval : {"not-requested", "pending"} \cup Decided]
Activity == [no : Nat, run : RunIds]

\* What a PATCH asks for; "keep" stands for a field it does not have.
Patch == [status : Statuses \cup {"keep"}, finishedAt : {"keep", "set", "clear"}]

\* startFleetDashboard connects the repositories it is given.
StoreInit ==
  /\ repos \in SUBSET Repos
  /\ runs = [r \in {} |-> 0]
  /\ activities = {}
  /\ appended = 0

-----------------------------------------------------------------------------
ConnectRepository(repo) ==
  /\ repos' = repos \cup {repo}
  /\ UNCHANGED <<runs, activities, appended>>

\* Mutant of DisconnectRepository: the runs stay behind.
DisconnectRepositoryOnly(repo) ==
  /\ repo \in repos
  /\ repos' = repos \ {repo}
  /\ UNCHANGED <<runs, activities, appended>>

\* With a repository go its runs, and with these their activities.
DisconnectRepository(repo) ==
  /\ repo \in repos
  /\ repos' = repos \ {repo}
  /\ runs' = [r \in {q \in DOMAIN runs : runs[q].repo # repo} |-> runs[r]]
  /\ activities' = {a \in activities : a.run \in DOMAIN runs'}
  /\ UNCHANGED appended

NewRun(repo) ==
  [repo |-> repo, status |-> "queued", finishedAt |-> FALSE,
   approval |-> "not-requested"]

\* An id that is taken already is taken over.
CreateRun(r, repo) ==
  /\ repo \in repos
  /\ runs' = [q \in DOMAIN runs \cup {r} |-> IF q = r THEN NewRun(repo) ELSE runs[q]]
  /\ UNCHANGED <<repos, activities, appended>>

\* Mutant of Patched: the end is dated before the status is set.
PatchedLate(run, patch) ==
  [run EXCEPT
    !.status = IF patch.status = "keep" THEN @ ELSE patch.status,
    !.finishedAt = \/ patch.finishedAt = "set"
                   \/ patch.finishedAt = "keep" /\ (@ \/ run.status \in Over)]

\* Any status may follow any other; one that ends the run is dated if the
\* patch does not.
Patched(run, patch) ==
  LET status == IF patch.status = "keep" THEN run.status ELSE patch.status
  IN  [run EXCEPT
        !.status = status,
        !.finishedAt = \/ patch.finishedAt = "set"
                       \/ patch.finishedAt = "keep" /\ @
                       \/ status \in Over]

UpdateRun(r, patch) ==
  /\ r \in DOMAIN runs
  /\ runs' = [runs EXCEPT ![r] = Patched(@, patch)]
  /\ UNCHANGED <<repos, activities, appended>>

\* Mutant of Latest: the newest are dropped.
Oldest(feed) ==
  {a \in feed : Cardinality({b \in feed : b.no < a.no}) < ActivityCap}

\* The last ActivityCap activities of a feed.
Latest(feed) ==
  {a \in feed : Cardinality({b \in feed : b.no > a.no}) < ActivityCap}

AppendActivity(r) ==
  /\ r \in DOMAIN runs
  /\ appended' = appended + 1
  /\ activities' = Latest(activities \cup {[no |-> appended', run |-> r]})
  /\ UNCHANGED <<repos, runs>>

\* Whatever the run's status is, a run that is over included.
RequestApproval(r) ==
  /\ r \in DOMAIN runs
  /\ runs' = [runs EXCEPT ![r].status = "waiting-approval", ![r].approval = "pending"]
  /\ UNCHANGED <<repos, activities, appended>>

\* Mutant of Decide: the run's status is taken for the approval's.
DecideMixedUp(run, approved) ==
  [run EXCEPT !.approval = IF approved THEN "running" ELSE "stopped",
              !.status = IF approved THEN "running" ELSE "stopped",
              !.finishedAt = @ \/ ~approved]

\* What a decision makes of a run; a rejection ends it.
Decide(run, approved) ==
  [run EXCEPT !.approval = IF approved THEN "approved" ELSE "rejected",
              !.status = IF approved THEN "running" ELSE "stopped",
              !.finishedAt = @ \/ ~approved]

\* Mutant of DecideApproval: it is not looked whether a decision is pending.
DecideApprovalAgain(r, approved) ==
  /\ r \in DOMAIN runs
  /\ runs' = [runs EXCEPT ![r] = Decide(@, approved)]
  /\ UNCHANGED <<repos, activities, appended>>

DecideApproval(r, approved) ==
  /\ r \in DOMAIN runs
  /\ runs[r].approval = "pending"
  /\ runs' = [runs EXCEPT ![r] = Decide(@, approved)]
  /\ UNCHANGED <<repos, activities, appended>>

StoreNext ==
  \/ \E repo \in Repos :
       \/ ConnectRepository(repo)
       \/ DisconnectRepository(repo)
       \/ \E r \in RunIds : CreateRun(r, repo)
  \/ \E r \in RunIds :
       \/ \E patch \in Patch : UpdateRun(r, patch)
       \/ AppendActivity(r)
       \/ RequestApproval(r)
       \/ \E approved \in BOOLEAN : DecideApproval(r, approved)

StoreSpec == StoreInit /\ [][StoreNext]_storeVars

-----------------------------------------------------------------------------
(* Properties *)

StoreTypeOK ==
  /\ repos \subseteq Repos
  /\ DOMAIN runs \subseteq RunIds
  /\ \A r \in DOMAIN runs : runs[r] \in Run
  /\ activities \subseteq Activity
  /\ appended \in Nat

\* A run always has its repository and an activity its run, whatever late
\* requests follow a disconnection.  updateRun and appendActivity rely on it:
\* they change the run or the feed before they look up the repository, whose
\* absence would leave the change made, unannounced and answered as an error.
RefsIntact ==
  /\ \A r \in DOMAIN runs : runs[r].repo \in repos
  /\ \A a \in activities : a.run \in DOMAIN runs

\* A reviewer's decision stands: of two reviewers who answer one request only
\* the first is heard, and only a new request or a new run of that id asks
\* again.
DecisionStands ==
  [][ \A r \in DOMAIN runs \cap DOMAIN runs' :
        runs[r].approval \in Decided =>
          \/ runs'[r].approval \in {runs[r].approval, "pending"}
          \/ runs'[r] = NewRun(runs'[r].repo) ]_storeVars

\* A run that is shown as over has a time at which it ended, whoever ended it:
\* its engine, a reviewer, or a patch that takes the time away again.
OverIsDated ==
  \A r \in DOMAIN runs : runs[r].status \in Over => runs[r].finishedAt

\* At its cap the feed takes what is new and loses nothing but its oldest
\* activity: any other goes with its run only.
FeedDropsOldest ==
  [][ /\ appended' # appended => \E a \in activities' : a.no = appended'
      /\ \A a \in activities \ activities' :
           \/ a.run \notin DOMAIN runs'
           \/ \A b \in activities : b.no >= a.no ]_storeVars

=============================================================================
