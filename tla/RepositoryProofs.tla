--------------------------- MODULE RepositoryProofs ---------------------------
(***************************************************************************)
(* Proofs about Repository and Ledger, for any number of commands, runs    *)
(* and winners: commands clean up, recorded commits stay reachable, the    *)
(* ledger holds no entry twice, and one that verifies is complete.         *)
(***************************************************************************)
EXTENDS Repository, FiniteSetTheorems, TLAPS

\* What the steps of the ledger leave alone.
repoVars == <<dirs, branches, winner, todo, applied, cut>>

LEMMA NamesDiffer ==
  \A c, d \in Commands :
    /\ First(c) \notin Winners /\ Second(c) \notin Winners
    /\ First(c) # Second(d)
    /\ First(c) = First(d) => c = d
    /\ Second(c) = Second(d) => c = d
BY SMT DEF First, Second, Winners

-----------------------------------------------------------------------------
(* Commands clean up *)

Points == {"idle", "measure", "second", "measure2", "remove", "remove2", "remove3",
           "branch", "branch2", "branch3", "ledger", "truncate", "write",
           "sweep", "branches", "done"}

\* A worktree or branch of a command that is not cut is one it will remove.
LeftInv ==
  /\ pc \in [Commands -> Points]
  /\ \A c \in Commands \ cut :
       /\ First(c) \in dirs => pc[c] \in {"second", "measure", "measure2", "remove", "remove2"}
       /\ First(c) \in branches =>
            pc[c] \in {"second", "measure", "measure2", "remove", "remove2", "branch", "branch2"}
       /\ Second(c) \in dirs => pc[c] \in {"measure2", "remove2", "branch2", "remove3"}
       /\ Second(c) \in branches =>
            pc[c] \in {"measure2", "remove2", "branch2", "remove3", "branch3"}

LEMMA LeftInit == Init => LeftInv
BY NamesDiffer DEF Init, LeftInv, Points

LEMMA LeftNext == LeftInv /\ [Next]_vars => LeftInv'
<1> SUFFICES ASSUME LeftInv, [Next]_vars
             PROVE  LeftInv'
  OBVIOUS
<1> USE DEF LeftInv, Points, Go
<1>1. ASSUME NEW c \in Commands, StartMeasure(c) \/ StartReproduce(c) \/ ProvisionWinner(c)
      PROVE  LeftInv'
  <2>1. CASE StartMeasure(c)
    BY <2>1, NamesDiffer DEF StartMeasure, Provision
  <2>2. CASE StartReproduce(c)
    BY <2>2, NamesDiffer DEF StartReproduce, Provision
  <2>3. CASE ProvisionWinner(c)
    BY <2>3, NamesDiffer DEF ProvisionWinner, Provision
  <2>4. QED
    BY <1>1, <2>1, <2>2, <2>3
<1>2. ASSUME NEW c \in Commands, FailProvision(c) \/ EndMeasure(c)
      PROVE  LeftInv'
  BY <1>2 DEF FailProvision, EndMeasure
<1>3. ASSUME NEW c \in Commands, RemoveWorktree(c)
      PROVE  LeftInv'
  BY <1>3, NamesDiffer DEF RemoveWorktree
<1>4. ASSUME NEW c \in Commands, RemoveBranch(c)
      PROVE  LeftInv'
  BY <1>4, NamesDiffer DEF RemoveBranch, DeleteBranch
<1>5. ASSUME NEW c \in Commands, Apply(c) \/ RecordTask(c)
      PROVE  LeftInv'
  BY <1>5 DEF Apply, RecordTask
<1>6. ASSUME NEW c \in Commands, AppendStep(c), UNCHANGED repoVars
      PROVE  LeftInv'
  BY <1>6 DEF repoVars, AppendStep, ReadLedger, TruncateLedger, WriteLedger, TearLedger
<1>7. ASSUME NEW c \in Commands, StartGc(c) \/ SweepOne(c) \/ ListBranches(c) \/ DeleteListed(c)
      PROVE  LeftInv'
  BY <1>7 DEF StartGc, SweepOne, ListBranches, DeleteListed, DeleteBranch
<1>8. ASSUME NEW c \in Commands, Kill(c)
      PROVE  LeftInv'
  BY <1>8 DEF Kill, TearLedger
<1>9. CASE (Spoil \/ Mend) /\ UNCHANGED repoVars
  BY <1>9 DEF Spoil, Mend, repoVars
<1>10. CASE UNCHANGED vars
  BY <1>10 DEF vars
<1>11. QED
  BY <1>1, <1>2, <1>3, <1>4, <1>5, <1>6, <1>7, <1>8, <1>9, <1>10 DEF Next, repoVars

\* A command that came to its end left neither worktree nor branch.
THEOREM CommandsCleanUp == Spec => []NoLeftovers
<1>1. LeftInv => NoLeftovers
  BY DEF LeftInv, NoLeftovers
<1>2. QED
  BY <1>1, LeftInit, LeftNext, PTL DEF Spec

-----------------------------------------------------------------------------
(* Recorded commits stay reachable *)

\* What is recorded has been applied, and the winner branch of a run is where
\* the last apply has put it.
ReachInv ==
  /\ pc \in [Commands -> Points]
  /\ entry \in [Commands ->
       [kind : {"task", "optimization"}, run : Nat, node : Nat, pct : Nat, by : Commands]]
  /\ winner \in [Runs -> Winners \cup {None}]
  /\ applied \subseteq Winners
  /\ \A w \in applied : winner[w[1]] = w \/ \E v \in applied : v[1] = w[1] /\ v # w
  /\ \A c \in Commands :
       pc[c] \in {"ledger", "truncate", "write"} /\ entry[c].kind = "optimization" =>
         <<entry[c].run, entry[c].node>> \in applied
  /\ \A w \in Winners : <<"optimization", w[1], w[2]>> \in recorded => w \in applied

LEMMA KeyOfWinner ==
  ASSUME NEW e \in [kind : {"task", "optimization"}, run : Nat, node : Nat, pct : Nat, by : Commands],
         NEW w \in Winners
  PROVE  <<"optimization", w[1], w[2]>> = Key(e) =>
           e.kind = "optimization" /\ w = <<e.run, e.node>>
<1>1. CASE e.kind = "optimization"
  BY <1>1 DEF Key, Winners
<1>2. CASE e.kind = "task"
  <2>1. Key(e)[1] = "task"
    BY <1>2 DEF Key
  <2>2. QED
    BY <2>1
<1>3. QED
  BY <1>1, <1>2

LEMMA ReachInit == Init => ReachInv
BY DEF Init, LedgerInit, ReachInv, Points, TaskEntry

LEMMA ReachNext == ReachInv /\ [Next]_vars => ReachInv'
<1> SUFFICES ASSUME ReachInv, [Next]_vars
             PROVE  ReachInv'
  OBVIOUS
<1> USE DEF ReachInv, Points, Go
<1>1. ASSUME NEW c \in Commands, StartMeasure(c) \/ StartReproduce(c) \/ ProvisionWinner(c)
      PROVE  ReachInv'
  BY <1>1 DEF StartMeasure, StartReproduce, ProvisionWinner, Provision, ledgerVars
<1>2. ASSUME NEW c \in Commands, FailProvision(c) \/ EndMeasure(c)
      PROVE  ReachInv'
  BY <1>2 DEF FailProvision, EndMeasure, ledgerVars
<1>3. ASSUME NEW c \in Commands, RemoveWorktree(c) \/ RemoveBranch(c)
      PROVE  ReachInv'
  BY <1>3 DEF RemoveWorktree, RemoveBranch, ledgerVars
<1>4. ASSUME NEW c \in Commands, Apply(c)
      PROVE  ReachInv'
  <2>1. PICK w \in Winners :
          /\ winner' = [winner EXCEPT ![w[1]] = w]
          /\ applied' = applied \cup {w}
          /\ entry' = [entry EXCEPT ![c] = WinnerEntry(w, c)]
    BY <1>4 DEF Apply
  <2>2. /\ w = <<w[1], w[2]>> /\ w[1] \in Runs /\ w[1] \in Nat /\ w[2] \in Nat
        /\ pc' = [pc EXCEPT ![c] = "ledger"] \/ pc' = [pc EXCEPT ![c] = "done"]
        /\ recorded' = recorded
    <3>1. w = <<w[1], w[2]>> /\ w[1] \in Runs /\ w[1] \in Nat /\ w[2] \in Nat
      <4>1. PICK r \in Runs, i \in 1..PerRun : w = <<r, i>>
        BY DEF Winners
      <4>2. r \in Nat /\ i \in Nat
        BY LedgerAssumption
      <4>3. w[1] = r /\ w[2] = i
        BY <4>1
      <4>4. QED
        BY <4>1, <4>2, <4>3
    <3>2. pc' = [pc EXCEPT ![c] = "ledger"] \/ pc' = [pc EXCEPT ![c] = "done"]
      BY <1>4 DEF Apply
    <3>3. QED
      BY <1>4, <3>1, <3>2 DEF Apply, ledgerVars
  <2>3. \A u \in applied' :
          winner'[u[1]] = u \/ \E v \in applied' : v[1] = u[1] /\ v # u
    <3> SUFFICES ASSUME NEW u \in applied'
                 PROVE  winner'[u[1]] = u \/ \E v \in applied' : v[1] = u[1] /\ v # u
      OBVIOUS
    <3>1. CASE u[1] = w[1]
      BY <3>1, <2>1, <2>2
    <3>2. CASE u[1] # w[1]
      BY <3>2, <2>1, <2>2
    <3>3. QED
      BY <3>1, <3>2
  <2>4. WinnerEntry(w, c) \in
          [kind : {"task", "optimization"}, run : Nat, node : Nat, pct : Nat, by : Commands]
    BY <2>2 DEF WinnerEntry
  <2>5. \A d \in Commands :
          pc'[d] \in {"ledger", "truncate", "write"} /\ entry'[d].kind = "optimization" =>
            <<entry'[d].run, entry'[d].node>> \in applied'
    BY <2>1, <2>2 DEF WinnerEntry
  <2>6. /\ pc' \in [Commands -> Points]
        /\ winner' \in [Runs -> Winners \cup {None}]
        /\ applied' \subseteq Winners
        /\ \A u \in Winners : <<"optimization", u[1], u[2]>> \in recorded' => u \in applied'
    BY <2>1, <2>2
  <2>7. entry' \in [Commands ->
          [kind : {"task", "optimization"}, run : Nat, node : Nat, pct : Nat, by : Commands]]
    BY <2>1, <2>4
  <2>8. QED
    BY <2>3, <2>5, <2>6, <2>7
<1>5. ASSUME NEW c \in Commands, RecordTask(c)
      PROVE  ReachInv'
  BY <1>5, LedgerAssumption DEF RecordTask, TaskEntry, ledgerVars
<1>6. ASSUME NEW c \in Commands, AppendStep(c), UNCHANGED repoVars
      PROVE  ReachInv'
  <2>1. CASE ReadLedger(c) \/ TruncateLedger(c) \/ TearLedger(c)
    BY <1>6, <2>1 DEF repoVars, ReadLedger, TruncateLedger, TearLedger
  <2>2. CASE WriteLedger(c)
    <3>1. /\ recorded' = recorded \cup {Key(entry[c])} /\ entry' = entry
          /\ pc[c] = "write" /\ pc' = [pc EXCEPT ![c] = "done"]
          /\ winner' = winner /\ applied' = applied
      BY <1>6, <2>2 DEF WriteLedger, repoVars
    <3>2. \A w \in Winners : <<"optimization", w[1], w[2]>> = Key(entry[c]) => w \in applied
      BY <3>1, KeyOfWinner
    <3>3. QED
      BY <3>1, <3>2
  <2>3. QED
    BY <1>6, <2>1, <2>2 DEF AppendStep
<1>7. ASSUME NEW c \in Commands, StartGc(c) \/ SweepOne(c) \/ ListBranches(c) \/ DeleteListed(c)
      PROVE  ReachInv'
  BY <1>7 DEF StartGc, SweepOne, ListBranches, DeleteListed, ledgerVars
<1>8. ASSUME NEW c \in Commands, Kill(c)
      PROVE  ReachInv'
  BY <1>8 DEF Kill, TearLedger, ledgerVars
<1>9. CASE (Spoil \/ Mend) /\ UNCHANGED repoVars
  BY <1>9 DEF Spoil, Mend, repoVars
<1>10. CASE UNCHANGED vars
  BY <1>10 DEF vars, ledgerVars
<1>11. QED
  BY <1>1, <1>2, <1>3, <1>4, <1>5, <1>6, <1>7, <1>8, <1>9, <1>10 DEF Next, repoVars

\* The commit of a recorded optimization is on a branch, unless another winner
\* of its run has been applied.
THEOREM RecordedStayReachable == Spec => []RecordedReachable
<1>1. ReachInv => RecordedReachable
  BY DEF ReachInv, RecordedReachable, Key, WinnerEntry
<1>2. QED
  BY <1>1, ReachInit, ReachNext, PTL DEF Spec

-----------------------------------------------------------------------------
(* The ledger holds no entry twice *)

All(f) == f.entries \cup f.spoilt
Once(entries) == \A d, e \in entries : Key(d) = Key(e) => d = e
HasFields(f) ==
  f = [exists |-> f.exists, stats |-> f.stats, entries |-> f.entries, spoilt |-> f.spoilt]

\* A command that is about to write has read a file without a problem and
\* without its key.
OnceInv ==
  /\ pc \in [Commands -> Points]
  /\ DOMAIN seen = Commands /\ DOMAIN entry = Commands
  /\ HasFields(ledger) /\ Once(All(ledger))
  /\ \A c \in Commands : pc[c] \in {"truncate", "write"} =>
       seen[c].spoilt = {} /\ Once(Update(c))

\* The commands other than the appends leave all of that alone.
LEMMA Elsewhere ==
  ASSUME pc \in [Commands -> Points], DOMAIN entry = Commands,
         NEW c \in Commands,
         \/ StartMeasure(c) \/ StartReproduce(c) \/ ProvisionWinner(c) \/ FailProvision(c)
         \/ EndMeasure(c) \/ RemoveWorktree(c) \/ RemoveBranch(c)
         \/ Apply(c) \/ RecordTask(c)
         \/ StartGc(c) \/ SweepOne(c) \/ ListBranches(c) \/ DeleteListed(c)
         \/ Kill(c) /\ ~ TearLedger(c)
  PROVE  /\ UNCHANGED ledgerVars
         /\ pc' \in [Commands -> Points] /\ DOMAIN entry' = Commands
         /\ pc'[c] \notin {"truncate", "write"}
         /\ \A d \in Commands \ {c} : pc'[d] = pc[d] /\ entry'[d] = entry[d]
<1> USE DEF Points, Go
<1>1. CASE StartMeasure(c) \/ StartReproduce(c) \/ ProvisionWinner(c) \/ FailProvision(c)
  BY <1>1 DEF StartMeasure, StartReproduce, ProvisionWinner, FailProvision, Provision
<1>2. CASE EndMeasure(c) \/ RemoveWorktree(c) \/ RemoveBranch(c)
  BY <1>2 DEF EndMeasure, RemoveWorktree, RemoveBranch
<1>3. CASE Apply(c) \/ RecordTask(c)
  BY <1>3 DEF Apply, RecordTask
<1>4. CASE StartGc(c) \/ SweepOne(c) \/ ListBranches(c) \/ DeleteListed(c)
  BY <1>4 DEF StartGc, SweepOne, ListBranches, DeleteListed
<1>5. CASE Kill(c) /\ ~ TearLedger(c)
  BY <1>5 DEF Kill
<1>6. QED
  BY <1>1, <1>2, <1>3, <1>4, <1>5

LEMMA OnceInit == Init => OnceInv
BY DEF Init, LedgerInit, OnceInv, Points, HasFields, Once, All, Absent

LEMMA OnceNext == OnceInv /\ [Next]_vars => OnceInv'
<1> SUFFICES ASSUME OnceInv, [Next]_vars
             PROVE  OnceInv'
  OBVIOUS
<1> USE DEF OnceInv
<1>1. ASSUME NEW c \in Commands, UNCHANGED ledgerVars,
             pc' \in [Commands -> Points], DOMAIN entry' = Commands,
             pc'[c] \notin {"truncate", "write"},
             \A d \in Commands \ {c} : pc'[d] = pc[d] /\ entry'[d] = entry[d]
      PROVE  OnceInv'
  BY <1>1 DEF ledgerVars, HasFields, Once, All, Update
<1>2. ASSUME NEW c \in Commands, ReadLedger(c)
      PROVE  OnceInv'
  <2>1. /\ pc' \in [Commands -> Points]
        /\ \A d \in Commands \ {c} : pc'[d] = pc[d] /\ seen'[d] = seen[d]
        /\ entry' = entry /\ ledger' = ledger
        /\ seen' = [seen EXCEPT ![c] = ledger]
    BY <1>2 DEF ReadLedger, Go, Points
  <2>2. pc'[c] \in {"truncate", "write"} =>
          ledger.spoilt = {} /\ Key(entry[c]) \notin Keys(ledger.entries)
    BY <1>2 DEF ReadLedger, Go, Points
  <2>3. pc'[c] \in {"truncate", "write"} => Once(ledger.entries \cup {entry[c]})
    BY <2>2 DEF Once, All, Keys
  <2>4. QED
    BY <2>1, <2>2, <2>3 DEF Once, All, HasFields, Update
<1>3. ASSUME NEW c \in Commands, TruncateLedger(c)
      PROVE  OnceInv'
  BY <1>3 DEF TruncateLedger, Go, Points, Blank, Absent, HasFields, Once, All, Update
<1>4. ASSUME NEW c \in Commands, WriteLedger(c)
      PROVE  OnceInv'
  <2>1. /\ pc[c] = "write" /\ pc' = [pc EXCEPT ![c] = "done"]
        /\ seen' = seen /\ entry' = entry
    BY <1>4 DEF WriteLedger, Go
  <2>2. HasFields(ledger') /\ All(ledger') = Update(c)
    BY <1>4 DEF WriteLedger, Rendered, Blank, Absent, HasFields, All
  <2>3. Once(All(ledger'))
    BY <2>1, <2>2 DEF Once
  <2>4. QED
    BY <2>1, <2>2, <2>3 DEF Points, Update, HasFields, Once, All
<1>5. ASSUME NEW c \in Commands, TearLedger(c)
      PROVE  OnceInv'
  <2>1. /\ pc[c] = "write" /\ pc' = [pc EXCEPT ![c] = "done"]
        /\ seen' = seen /\ entry' = entry
    BY <1>5 DEF TearLedger, Go
  <2>2. HasFields(ledger') /\ All(ledger') \subseteq Update(c)
    BY <1>5 DEF TearLedger, Rendered, Blank, Absent, HasFields, All
  <2>3. Once(All(ledger'))
    BY <2>1, <2>2 DEF Once
  <2>4. QED
    BY <2>1, <2>2, <2>3 DEF Points, Update, HasFields, Once, All
<1>6. CASE Spoil \/ Mend
  <2>1. HasFields(ledger') /\ All(ledger') = All(ledger)
    BY <1>6 DEF Spoil, Mend, HasFields, All
  <2>2. UNCHANGED <<pc, entry, seen>>
    BY <1>6 DEF Spoil, Mend
  <2>3. QED
    BY <2>1, <2>2 DEF Update, Once, HasFields, All
<1>7. CASE UNCHANGED vars
  BY <1>7 DEF vars, ledgerVars, Update, Once, HasFields, All
<1>8. ASSUME NEW c \in Commands,
             \/ StartMeasure(c) \/ StartReproduce(c) \/ ProvisionWinner(c) \/ FailProvision(c)
             \/ EndMeasure(c) \/ RemoveWorktree(c) \/ RemoveBranch(c)
             \/ Apply(c) \/ RecordTask(c)
             \/ StartGc(c) \/ SweepOne(c) \/ ListBranches(c) \/ DeleteListed(c)
             \/ Kill(c)
      PROVE  OnceInv'
  <2>1. CASE Kill(c) /\ TearLedger(c)
    BY <2>1, <1>5
  <2>2. CASE ~ (Kill(c) /\ TearLedger(c))
    <3>1. /\ UNCHANGED ledgerVars
          /\ pc' \in [Commands -> Points] /\ DOMAIN entry' = Commands
          /\ pc'[c] \notin {"truncate", "write"}
          /\ \A d \in Commands \ {c} : pc'[d] = pc[d] /\ entry'[d] = entry[d]
      BY <1>8, <2>2, Elsewhere
    <3>2. QED
      BY <3>1, <1>1
  <2>3. QED
    BY <2>1, <2>2
<1>9. QED
  BY <1>2, <1>3, <1>4, <1>5, <1>6, <1>7, <1>8 DEF Next, AppendStep

\* Whatever appends overlap and wherever writes are cut, nothing is recorded
\* twice.
THEOREM RecordedOnce == Spec => []EntriesOnce
<1>1. OnceInv => EntriesOnce
  BY DEF OnceInv, EntriesOnce, Once, All
<1>2. QED
  BY <1>1, OnceInit, OnceNext, PTL DEF Spec

-----------------------------------------------------------------------------
(* A ledger that verifies is complete *)

\* A part of the entries with the statistics of all of them is all of them.
LEMMA PartIsAll ==
  ASSUME NEW S, IsFiniteSet(S), NEW T \in SUBSET S, Stats(T) = Stats(S)
  PROVE  T = S
<1> DEFINE Won(A) == {e \in A : e.kind = "optimization"}
<1>1. Cardinality(Won(T)) = Cardinality(Won(S))
      /\ Cardinality(T \ Won(T)) = Cardinality(S \ Won(S))
  BY DEF Stats
<1>2. IsFiniteSet(Won(S)) /\ IsFiniteSet(S \ Won(S))
  BY FS_Subset
<1>3. Won(T) \in SUBSET Won(S) /\ T \ Won(T) \in SUBSET (S \ Won(S))
  OBVIOUS
<1>4. Won(T) = Won(S) /\ T \ Won(T) = S \ Won(S)
  <2> HIDE DEF Won
  <2>1. Won(S) = Won(T)
    BY <1>1, <1>2, <1>3, FS_Subset
  <2>2. S \ Won(S) = T \ Won(T)
    BY <1>1, <1>2, <1>3, FS_Subset
  <2>3. QED
    BY <2>1, <2>2
<1>5. QED
  BY <1>4

\* The statistics of a header are those of the entries that were rendered with
\* it: if those of the file have them, none is missing.
CompleteInv ==
  /\ IsFiniteSet(All(ledger))
  /\ \A c \in Commands : IsFiniteSet(seen[c].entries)
  /\ ledger.stats = Stats(All(ledger)) => recorded \subseteq Keys(All(ledger)) \cup unseen

LEMMA CompleteInit == Init => CompleteInv
<1> SUFFICES ASSUME Init PROVE CompleteInv
  OBVIOUS
<1>1. All(ledger) = {} /\ recorded = {} /\ \A c \in Commands : seen[c].entries = {}
  BY DEF Init, LedgerInit, All, Absent
<1>2. QED
  BY <1>1, FS_EmptySet DEF CompleteInv

LEMMA CompleteNext == OnceInv /\ CompleteInv /\ [Next]_vars => CompleteInv'
<1> SUFFICES ASSUME OnceInv, CompleteInv, [Next]_vars
             PROVE  CompleteInv'
  OBVIOUS
<1> USE DEF CompleteInv
<1>1. CASE UNCHANGED ledgerVars
  BY <1>1 DEF ledgerVars, All
<1>2. ASSUME NEW c \in Commands, ReadLedger(c)
      PROVE  CompleteInv'
  <2>1. ledger' = ledger /\ recorded' = recorded /\ unseen' = unseen
        /\ seen' = [seen EXCEPT ![c] = ledger]
    BY <1>2 DEF ReadLedger
  <2>2. IsFiniteSet(ledger.entries)
    BY FS_Subset DEF All
  <2>3. \A d \in Commands : seen'[d] = seen[d] \/ seen'[d] = ledger
    BY <2>1 DEF OnceInv
  <2>4. \A d \in Commands : IsFiniteSet(seen'[d].entries)
    BY <2>2, <2>3
  <2>5. QED
    BY <2>1, <2>4 DEF All
<1>3. ASSUME NEW c \in Commands, TruncateLedger(c)
      PROVE  CompleteInv'
  <2>1. ledger' = Blank /\ seen' = seen
    BY <1>3 DEF TruncateLedger
  <2>2. All(ledger') = {} /\ ledger'.stats.stated = FALSE
    BY <2>1 DEF Blank, Absent, All, NoStats
  <2>3. ledger'.stats # Stats(All(ledger'))
    BY <2>2 DEF Stats
  <2>4. QED
    BY <2>1, <2>2, <2>3, FS_EmptySet
<1>4. ASSUME NEW c \in Commands, pc[c] = "write"
      PROVE  IsFiniteSet(Update(c)) /\ recorded \subseteq Keys(Update(c)) \cup Unread(c)
  BY <1>4, FS_AddElement DEF Update, Unread, OnceInv, Keys
<1>5. ASSUME NEW c \in Commands, WriteLedger(c)
      PROVE  CompleteInv'
  <2>1. /\ pc[c] = "write" /\ seen' = seen
        /\ recorded' = recorded \cup {Key(entry[c])} /\ unseen' = unseen \cup Unread(c)
    BY <1>5 DEF WriteLedger, Go
  <2>2. All(ledger') = Update(c)
    BY <1>5 DEF WriteLedger, Rendered, Blank, Absent, All
  <2>3. Key(entry[c]) \in Keys(Update(c))
    BY DEF Keys, Update
  <2>4. QED
    BY <2>1, <2>2, <2>3, <1>4
<1>6. ASSUME NEW c \in Commands, TearLedger(c)
      PROVE  CompleteInv'
  <2>1. /\ pc[c] = "write" /\ seen' = seen
        /\ recorded' = recorded /\ unseen' = unseen \cup Unread(c)
    BY <1>6 DEF TearLedger, Go
  <2>2. PICK part \in SUBSET Update(c) :
          ledger' \in {Blank, [Rendered(part) EXCEPT !.stats = Stats(Update(c))]}
    BY <1>6 DEF TearLedger
  <2>3. CASE ledger' = Blank
    <3>1. All(ledger') = {} /\ ledger'.stats.stated = FALSE
      BY <2>3 DEF Blank, Absent, All, NoStats
    <3>2. ledger'.stats # Stats(All(ledger'))
      BY <3>1 DEF Stats
    <3>3. QED
      BY <2>1, <3>1, <3>2, FS_EmptySet
  <2>4. CASE ledger' = [Rendered(part) EXCEPT !.stats = Stats(Update(c))]
    <3>1. All(ledger') = part /\ ledger'.stats = Stats(Update(c))
      BY <2>4 DEF Rendered, Blank, Absent, All
    <3>2. IsFiniteSet(Update(c)) /\ recorded \subseteq Keys(Update(c)) \cup Unread(c)
      BY <1>4, <2>1
    <3>3. ledger'.stats = Stats(All(ledger')) => part = Update(c)
      <4>1. ASSUME Stats(part) = Stats(Update(c))
            PROVE  part = Update(c)
        BY <2>2, <3>2, <4>1, PartIsAll
      <4>2. QED
        BY <3>1, <4>1
    <3>4. IsFiniteSet(part)
      BY <3>2, FS_Subset
    <3>5. QED
      BY <2>1, <3>1, <3>2, <3>3, <3>4
  <2>5. QED
    BY <2>2, <2>3, <2>4
<1>7. CASE Spoil \/ Mend
  <2>1. All(ledger') = All(ledger) /\ ledger'.stats = ledger.stats
    BY <1>7 DEF Spoil, Mend, OnceInv, HasFields, All
  <2>2. UNCHANGED <<seen, recorded, unseen>>
    BY <1>7 DEF Spoil, Mend
  <2>3. QED
    BY <2>1, <2>2
<1>8. ASSUME NEW c \in Commands,
             \/ StartMeasure(c) \/ StartReproduce(c) \/ ProvisionWinner(c) \/ FailProvision(c)
             \/ EndMeasure(c) \/ RemoveWorktree(c) \/ RemoveBranch(c)
             \/ Apply(c) \/ RecordTask(c)
             \/ StartGc(c) \/ SweepOne(c) \/ ListBranches(c) \/ DeleteListed(c)
             \/ Kill(c)
      PROVE  CompleteInv'
  <2>1. CASE Kill(c) /\ TearLedger(c)
    BY <2>1, <1>6
  <2>2. CASE ~ (Kill(c) /\ TearLedger(c))
    <3>1. UNCHANGED ledgerVars
      BY <1>8, <2>2, Elsewhere DEF OnceInv
    <3>2. QED
      BY <3>1, <1>1
  <2>3. QED
    BY <2>1, <2>2
<1>9. CASE UNCHANGED vars
  BY <1>1, <1>9 DEF vars
<1>10. QED
  BY <1>2, <1>3, <1>5, <1>6, <1>7, <1>8, <1>9 DEF Next, AppendStep

\* A ledger that verifies holds every entry whose append returned, but for
\* those which a later append did not find.
THEOREM VerifiedIsComplete == Spec => []VerifiedComplete
<1>1. CompleteInv => VerifiedComplete
  <2> SUFFICES ASSUME CompleteInv, Verified(ledger)
               PROVE  recorded \subseteq Keys(ledger.entries) \cup unseen
    BY DEF VerifiedComplete
  <2>1. All(ledger) = ledger.entries /\ ledger.stats = Stats(ledger.entries)
    BY DEF Verified, All
  <2>2. QED
    BY <2>1 DEF CompleteInv
<1>2. QED
  BY <1>1, OnceInit, OnceNext, CompleteInit, CompleteNext, PTL DEF Spec

=============================================================================
