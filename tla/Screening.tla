------------------------------ MODULE Screening ------------------------------
(***************************************************************************)
(* What the engines look at once an agent has stopped: src/proof/pins.ts,  *)
(* detectors.ts and verify.ts, over the worktree of src/worktree/local.ts; *)
(* then the gates of src/gates/engine.ts and the checks of                 *)
(* src/proof/withheld.ts.                                                  *)
(*                                                                         *)
(* A worktree is what its branch, its index and its directory hold.  The   *)
(* agent may have used git, so that the three differ in any way.           *)
(*                                                                         *)
(* Simplifications: a content stands for its class, one of each: the text  *)
(* as it was, a sound change, one with a pattern the detectors reject, one *)
(* with a pattern they flag; dependency directories and ignored files are  *)
(* left out; a lockfile is changed by uncommitted edits only.              *)
(***************************************************************************)
EXTENDS Naturals, FiniteSets, Sequences

CONSTANT Gates      \* number of gates configured

ASSUME GatesAssumption == Gates \in Nat

VARIABLES
  head,       \* head[f]: content of file f in the last commit
  index,      \* index[f]: as it is staged
  tree,       \* tree[f]: in the directory
  verdict,    \* of screenCandidate, "none" before it
  risks,      \* suspicions for the receipt
  gates,      \* results of the gates that have run
  withheld    \* "none", "not configured", "passed" or "failed"

worktreeVars == <<head, index, tree>>
screenVars == <<worktreeVars, verdict, risks, gates, withheld>>

\* A protected file, a source file, a lockfile, and a name not in use yet.
Files == {"bench", "src", "lock", "copy"}
Protected == {"bench"}

Absent == "none"
Base == [bench |-> "bench0", src |-> "src0", lock |-> "lock0", copy |-> Absent]

\* The worktrees an agent may leave behind.
Commits == [bench : {"bench0", "other", Absent}, src : {"src0", "fast", "skip"},
            lock : {"lock0"}, copy : {Absent}]
Stages == [bench : {"bench0", "other", Absent}, src : {"src0"},
           lock : {"lock0"}, copy : {Absent, "bench0"}]
Trees == [bench : {"bench0", "other", Absent}, src : {"src0", "fast", "skip", "swallow"},
          lock : {"lock0", "lock1"}, copy : {Absent, "bench0"}]

ScreenInit ==
  /\ head = Base /\ index = Base /\ tree = Base
  /\ verdict = "none" /\ risks = {} /\ gates = <<>> /\ withheld = "none"

-----------------------------------------------------------------------------
(* pins.ts *)

\* capturePins: of the protected files on disk, the hashes in HEAD.
Pins == [f \in {g \in Protected : Base[g] # Absent} |-> Base[f]]

\* A file staged under a name that HEAD does not have, and no longer under its
\* old one, is one line of git status, of which the new name is read.
Renamed(f, h, i) ==
  /\ h[f] # Absent /\ i[f] = Absent
  /\ \E g \in Files : h[g] = Absent /\ i[g] = h[f]

\* Paths that `git status --porcelain` shows, as parseStatusPath reads them.
StatusPaths(h, i, t) ==
  {f \in Files : (h[f] # i[f] /\ ~Renamed(f, h, i)) \/ i[f] # t[f]}

\* Mutant of PinViolations: only what is not committed is looked at.
PinViolationsUncommitted(h, i, t) == DOMAIN Pins \cap StatusPaths(h, i, t)

\* verifyPins: the commit first, then the working tree.
PinViolations(h, i, t) ==
  {f \in DOMAIN Pins : h[f] # Pins[f]} \cup (DOMAIN Pins \cap StatusPaths(h, i, t))

-----------------------------------------------------------------------------
(* detectors.ts and screenCandidate *)

\* changedFiles and diff: the directory against HEAD, whatever is staged.
Changed(h, t) == {f \in Files : t[f] # h[f]}

Adds(h, t, pattern) == \E f \in Changed(h, t) : t[f] = pattern

\* runDetectors: patterns that reject, and patterns for the reviewer.
Violations(h, t, allow) ==
  {d \in {"skipped-tests"} : Adds(h, t, "skip")} \cup
  {d \in {"dependency-change"} : "lock" \in Changed(h, t) /\ ~allow}
Suspicions(h, t, allow) ==
  {d \in {"suppressed-errors"} : Adds(h, t, "swallow")} \cup
  {d \in {"dependency-change"} : "lock" \in Changed(h, t) /\ allow}

Verdict(h, i, t, allow) ==
  IF PinViolations(h, i, t) # {} THEN "pin-violation"
  ELSE IF Changed(h, t) = {} THEN "no-changes"
  ELSE IF Violations(h, t, allow) # {} THEN "detector-violation" ELSE "clean"

\* The agent has left worktree h, i, t; the policy allows new dependencies or
\* does not.  The worktree of a candidate that is turned down is removed, and
\* what a clean one had staged makes no difference from here on.
Screen ==
  \E h \in Commits, i \in Stages, t \in Trees, allow \in BOOLEAN :
    LET v == Verdict(h, [i EXCEPT !.src = h.src], t, allow) IN
    /\ verdict' = v
    /\ IF v = "clean" THEN head' = h /\ tree' = t /\ risks' = Suspicions(h, t, allow)
       ELSE UNCHANGED <<head, tree, risks>>
    /\ UNCHANGED <<index, gates, withheld>>

-----------------------------------------------------------------------------
(* runGates, runWithheldChecks *)

\* Every gate has run, or one has failed.
GatesDone == Len(gates) = Gates \/ \E k \in 1..Len(gates) : ~gates[k]

\* The next gate: exit code zero, in a directory inside the worktree.  One
\* that crashes, times out or would run outside has failed.
RunGate ==
  /\ ~GatesDone
  /\ \E pass \in BOOLEAN : gates' = Append(gates, pass)
  /\ UNCHANGED <<worktreeVars, verdict, risks, withheld>>

GateFailed == \E k \in 1..Len(gates) : ~gates[k]

\* Cases that are configured but missing are a failure.
RunWithheld ==
  /\ withheld = "none"
  /\ \E configured, present, exitsZero \in BOOLEAN :
       withheld' = IF ~configured THEN "not configured"
                   ELSE IF present /\ exitsZero THEN "passed" ELSE "failed"
  /\ UNCHANGED <<worktreeVars, verdict, risks, gates>>

-----------------------------------------------------------------------------
(* Properties *)

\* What pins.ts and the README promise: a candidate that screening finds clean
\* has every protected file as it was pinned, in its commit and its directory.
CleanIsPinned ==
  verdict = "clean" => \A f \in DOMAIN Pins : head[f] = Pins[f] /\ tree[f] = Pins[f]

=============================================================================
