--------------------------- MODULE ResumeRunProofs ---------------------------
(***************************************************************************)
(* Proofs about EngineLock and about ResumeRun, which extends it, for any  *)
(* set of pids, slack and bounds:                                          *)
(*   - of the lock, type correctness, and that an engine which acquired it *)
(*     alone is the only owner, whoever races for it later;                *)
(*   - of the engines that open the store before they take the lock: they  *)
(*     use the lock as EngineLock has it, so that what is shown of it      *)
(*     carries over, and a finished run is final unless two of them have   *)
(*     owned the run at once.                                              *)
(***************************************************************************)
EXTENDS ResumeRun, SequenceTheorems, TLAPS

-----------------------------------------------------------------------------
(* EngineLock: types *)

LEMMA LockValues ==
  /\ \A l \in LockInfo : l.pid \in Pids /\ l.startedAt \in Nat /\ l.pid # 0
  /\ Absent.pid = 0 /\ Garbled.pid = 0 /\ Absent # Garbled
  /\ Absent.pid \notin Pids /\ Garbled.pid \notin Pids
  /\ \A l \in LockInfo : l # Absent /\ l # Garbled
BY LockAssumption DEF LockInfo, Absent, Garbled

\* What an engine is going to write is a LockInfo; what it judges is one too.
InfoInv ==
  \A p \in Pids :
    /\ pc[p] \in {"probe", "ps", "stamp"} => info[p] \in LockInfo
    /\ pc[p] # "start" => kind[p] = "engine"

LockTypeInv == LockTypeOK /\ InfoInv

LEMMA LockTypeInit == LockInit => LockTypeInv
<1> SUFFICES ASSUME LockInit
             PROVE  LockTypeInv
  OBVIOUS
<1>1. shared \in BOOLEAN /\ raced \subseteq Pids
  BY DEF LockInit
<1>2. InfoInv
  BY DEF LockInit, InfoInv
<1>3. QED
  BY <1>1, <1>2 DEF LockInit, LockTypeInv, LockTypeOK, Points

LEMMA LockTypeNext == LockTypeInv /\ [LockNext]_lockVars => LockTypeInv'
<1> SUFFICES ASSUME LockTypeInv, [LockNext]_lockVars
             PROVE  LockTypeInv'
  OBVIOUS
<1> USE DEF LockTypeInv, LockTypeOK, InfoInv, Points, Acquiring, Goto, history
<1>1. ASSUME NEW p \in Pids, NEW k \in {"engine", "other"}, StartProcess(p, k)
      PROVE  LockTypeInv'
  BY <1>1 DEF StartProcess
<1>2. ASSUME NEW p \in Pids, Die(p)
      PROVE  LockTypeInv'
  BY <1>2 DEF Die
<1>3. ASSUME NEW p \in Pids, CheckExists(p)
      PROVE  LockTypeInv'
  BY <1>3 DEF CheckExists, Inside
<1>4. ASSUME NEW p \in Pids, ReadLock(p)
      PROVE  LockTypeInv'
  BY <1>4 DEF ReadLock
<1>5. ASSUME NEW p \in Pids, Probe(p)
      PROVE  LockTypeInv'
  BY <1>5 DEF Probe
<1>6. ASSUME NEW p \in Pids, CompareStart(p)
      PROVE  LockTypeInv'
  <2>1. PICK point \in {"refused", "write"} : Goto(p, point)
    BY <1>6 DEF CompareStart
  <2>2. UNCHANGED <<lock, kind, born, info, clock, starts, history>> /\ pc[p] = "ps"
    BY <1>6 DEF CompareStart
  <2>3. QED
    BY <2>1, <2>2
<1>7. ASSUME NEW p \in Pids, Truncate(p)
      PROVE  LockTypeInv'
  <2>1. [pid |-> p, startedAt |-> clock] \in LockInfo
    BY DEF LockInfo
  <2>2. QED
    BY <1>7, <2>1 DEF Truncate
<1>8. ASSUME NEW p \in Pids, Stamp(p)
      PROVE  LockTypeInv'
  BY <1>8 DEF Stamp
<1>9. ASSUME NEW p \in Pids, Release(p)
      PROVE  LockTypeInv'
  BY <1>9 DEF Release
<1>10. CASE Tick
  BY <1>10 DEF Tick
<1>11. CASE UNCHANGED lockVars
  BY <1>11 DEF lockVars
<1>12. QED
  BY <1>1, <1>2, <1>3, <1>4, <1>5, <1>6, <1>7, <1>8, <1>9, <1>10, <1>11
     DEF LockNext, Acquire

\* Every variable keeps its type.
THEOREM LockTypeCorrect == LockSpec => []LockTypeOK
<1>1. LockTypeInv => LockTypeOK
  BY DEF LockTypeInv
<1>2. QED
  BY <1>1, LockTypeInit, LockTypeNext, PTL DEF LockSpec

-----------------------------------------------------------------------------
(* EngineLock: mutual exclusion *)

\* The lock file of an owner that acquired it alone names it, and is not older
\* than its process; nobody else owns the run, and whoever is inside acquire
\* judges that very file.  An engine that is inside acquire alone has nobody
\* beside it, neither there nor among the owners that have raced.
OwnerInv ==
  /\ \A p \in Pids : born[p] <= clock
  /\ \A p \in Pids : pc[p] = "holding" /\ p \notin raced =>
       lock.pid = p /\ born[p] <= lock.startedAt
  /\ \A p, q \in Pids : pc[p] = "holding" /\ p \notin raced /\ pc[q] = "holding" => p = q
  /\ \A p, q \in Pids : pc[p] \in Acquiring /\ p \notin raced =>
       /\ pc[q] \in Acquiring => p = q
       /\ pc[q] = "holding" => q \notin raced
  /\ \A p, q \in Pids : pc[q] = "holding" /\ q \notin raced =>
       /\ pc[p] \in {"probe", "ps"} => info[p] = lock
       /\ pc[p] \notin {"write", "stamp"}
  /\ \A p \in Pids : pc[p] = "stamp" => info[p].pid = p /\ born[p] <= info[p].startedAt

LEMMA OwnerInit == LockInit => OwnerInv
BY DEF LockInit, OwnerInv, Acquiring

LEMMA OwnerNext == LockTypeInv /\ OwnerInv /\ [LockNext]_lockVars => OwnerInv'
<1> SUFFICES ASSUME LockTypeInv, OwnerInv, [LockNext]_lockVars
             PROVE  OwnerInv'
  OBVIOUS
<1> USE DEF LockTypeInv, LockTypeOK, InfoInv, OwnerInv, Acquiring, Goto, history
<1>1. ASSUME NEW p \in Pids, NEW k \in {"engine", "other"}, StartProcess(p, k)
      PROVE  OwnerInv'
  BY <1>1 DEF StartProcess
<1>2. ASSUME NEW p \in Pids, Die(p)
      PROVE  OwnerInv'
  BY <1>2 DEF Die
<1>3. ASSUME NEW p \in Pids, CheckExists(p)
      PROVE  OwnerInv'
  <2>1. lock = Absent => \A q \in Pids : pc[q] = "holding" => q \in raced
    BY LockValues
  <2>2. /\ raced \subseteq raced' /\ Inside \subseteq raced'
        /\ \A q \in Pids : q # p /\ pc[q] \notin Acquiring => (q \in raced' <=> q \in raced)
        /\ Inside \cup RacedOwners # {} => p \in raced'
    BY <1>3 DEF CheckExists, Inside
  <2>3. /\ \A q \in Pids : pc[q] \in Acquiring => q \in raced'
        /\ p \notin raced' => \A q \in Pids : pc[q] = "holding" => q \notin raced
        /\ p \notin raced' => \A q \in Pids : pc[q] \notin Acquiring
    BY <2>2 DEF Inside, RacedOwners
  <2>4. /\ pc' = [pc EXCEPT ![p] = IF lock = Absent THEN "write" ELSE "read"]
        /\ UNCHANGED <<lock, kind, born, info, clock>> /\ pc[p] = "start"
    BY <1>3 DEF CheckExists
  <2>5. /\ pc'[p] = IF lock = Absent THEN "write" ELSE "read"
        /\ \A q \in Pids \ {p} : pc'[q] = pc[q]
    BY <2>4
  <2>6. \A q \in Pids : pc'[q] = "holding" =>
          q # p /\ pc[q] = "holding" /\ (q \in raced' <=> q \in raced)
    BY <2>2, <2>5
  <2>7. \A q \in Pids : pc'[q] \in Acquiring /\ q \notin raced' => q = p
    BY <2>3, <2>5
  <2>8. QED
    BY <2>1, <2>3, <2>4, <2>5, <2>6, <2>7
<1>4. ASSUME NEW p \in Pids, ReadLock(p)
      PROVE  OwnerInv'
  BY <1>4 DEF ReadLock
<1>5. ASSUME NEW p \in Pids, Probe(p)
      PROVE  OwnerInv'
  <2>1. ASSUME info[p].pid = p \/ kind[info[p].pid] = "none", NEW q \in Pids, pc[q] = "holding"
        PROVE  q \in raced
    BY <1>5, <2>1 DEF Probe
  <2>2. QED
    BY <1>5, <2>1 DEF Probe
<1>6. ASSUME NEW p \in Pids, CompareStart(p)
      PROVE  OwnerInv'
  <2>1. info[p] \in LockInfo /\ info[p].pid \in Pids /\ info[p].startedAt \in Nat
    BY <1>6, LockValues DEF CompareStart
  <2>2. ASSUME ~WrittenBy(info[p].pid, info[p]), NEW q \in Pids, pc[q] = "holding"
        PROVE  q \in raced
    BY <1>6, <2>1, <2>2, LockAssumption DEF CompareStart, WrittenBy
  <2>3. QED
    BY <1>6, <2>2 DEF CompareStart
<1>7. ASSUME NEW p \in Pids, Truncate(p)
      PROVE  OwnerInv'
  BY <1>7 DEF Truncate
<1>8. ASSUME NEW p \in Pids, Stamp(p)
      PROVE  OwnerInv'
  BY <1>8 DEF Stamp
<1>9. ASSUME NEW p \in Pids, Release(p)
      PROVE  OwnerInv'
  BY <1>9 DEF Release
<1>10. CASE Tick
  BY <1>10 DEF Tick
<1>11. CASE UNCHANGED lockVars
  BY <1>11 DEF lockVars
<1>12. QED
  BY <1>1, <1>2, <1>3, <1>4, <1>5, <1>6, <1>7, <1>8, <1>9, <1>10, <1>11
     DEF LockNext, Acquire

\* An engine that acquired the lock alone is the only owner while it owns: no
\* reuse of a pid and no race that comes later takes the lock from it.
THEOREM LockExcludes == LockSpec => []MutualExclusion
<1>1. OwnerInv => MutualExclusion
  BY DEF OwnerInv, MutualExclusion
<1>2. QED
  BY <1>1, LockTypeInit, LockTypeNext, OwnerInit, OwnerNext, PTL DEF LockSpec

\* And the lock file it wrote stays until it releases it or dies.
THEOREM OwnerFileKept == LockSpec => []OwnerKeepsFile
<1>1. OwnerInv => OwnerKeepsFile
  BY DEF OwnerInv, OwnerKeepsFile
<1>2. QED
  BY <1>1, LockTypeInit, LockTypeNext, OwnerInit, OwnerNext, PTL DEF LockSpec

\* What the history variable shared remembers: until it is set there has been
\* one owner at a time.
SoleOwner ==
  ~shared => \A p, q \in Pids : pc[p] = "holding" /\ pc[q] = "holding" => p = q

LEMMA SoleInit == LockInit => SoleOwner
BY DEF LockInit, SoleOwner

LEMMA SoleNext == LockTypeInv /\ SoleOwner /\ [LockNext]_lockVars => SoleOwner'
<1> SUFFICES ASSUME LockTypeInv, SoleOwner, [LockNext]_lockVars
             PROVE  SoleOwner'
  OBVIOUS
<1> USE DEF LockTypeInv, LockTypeOK, SoleOwner, Goto, history
<1>1. ASSUME NEW p \in Pids, Stamp(p)
      PROVE  SoleOwner'
  BY <1>1 DEF Stamp
<1>2. ASSUME NEW p \in Pids, NEW k \in {"engine", "other"}, StartProcess(p, k)
      PROVE  SoleOwner'
  BY <1>2 DEF StartProcess
<1>3. ASSUME NEW p \in Pids,
             \/ Die(p) \/ CheckExists(p) \/ ReadLock(p) \/ Probe(p)
             \/ CompareStart(p) \/ Truncate(p) \/ Release(p)
      PROVE  SoleOwner'
  <2>1. shared' = shared
    BY <1>3 DEF Die, CheckExists, ReadLock, Probe, CompareStart, Truncate, Release
  <2>2. \E point \in Points \ {"holding"} : pc' = [pc EXCEPT ![p] = point]
    BY <1>3 DEF Die, CheckExists, ReadLock, Probe, CompareStart, Truncate, Release,
       Points, Acquiring
  <2>3. \A q \in Pids : pc'[q] = "holding" => pc[q] = "holding"
    BY <2>2
  <2>4. QED
    BY <2>1, <2>3
<1>4. CASE Tick \/ UNCHANGED lockVars
  BY <1>4 DEF Tick, lockVars
<1>5. QED
  BY <1>1, <1>2, <1>3, <1>4 DEF LockNext, Acquire

-----------------------------------------------------------------------------
(* The engines use the lock *)

LEMMA InitUsesLock == Init => LockInit
BY DEF Init

LEMMA StepUsesLock == [Next]_vars => [LockNext]_lockVars
<1> SUFFICES ASSUME [Next]_vars
             PROVE  [LockNext]_lockVars
  OBVIOUS
<1>1. ASSUME NEW p \in Pids, StartEngine(p) \/ StartOther(p)
      PROVE  LockNext
  BY <1>1 DEF StartEngine, StartOther, LockNext
<1>2. ASSUME NEW p \in Pids, AcquireLock(p) \/ ReleaseLock(p) \/ Exit(p)
      PROVE  LockNext
  BY <1>2 DEF AcquireLock, ReleaseLock, Exit, LockNext
<1>3. ASSUME NEW p \in Pids,
             \/ OpenStore(p) \/ StartRun(p) \/ ReplayRun(p)
             \/ AppendEvent(p) \/ EndRun(p) \/ WriteLine(p)
      PROVE  UNCHANGED lockVars
  BY <1>3 DEF OpenStore, StartRun, ReplayRun, AppendEvent, EndRun, WriteLine
<1>4. CASE Pass
  BY <1>4 DEF Pass, LockNext
<1>5. CASE UNCHANGED vars
  BY <1>5 DEF vars
<1>6. QED
  BY <1>1, <1>2, <1>3, <1>4, <1>5 DEF Next

\* Engines use the lock as EngineLock has it: every step is a step of its
\* specification, or leaves the lock alone.
THEOREM EnginesUseLock == Spec => LockSpec
BY InitUsesLock, StepUsesLock, PTL DEF Spec, LockSpec

\* An engine that acquired the lock alone is the only owner of the run, whatever
\* the stores that others have opened.
THEOREM OwnersExclude == Spec => []MutualExclusion
BY EnginesUseLock, LockExcludes, PTL

-----------------------------------------------------------------------------
(* ResumeRun: types *)

LEMMA LineValues ==
  /\ Log!Bad \in Log!Line /\ Log!Bad.id = 0
  /\ Log!Envelope \subseteq Log!Line
  /\ \A l \in Log!Line : l.id \in Nat /\ l.seq \in Nat
BY DEF Log!Line, Log!Bad, Log!Envelope

LEMMA TailFacts ==
  ASSUME NEW S, NEW q \in Seq(S), q # <<>>
  PROVE  /\ Tail(q) \in Seq(S) /\ Head(q) \in S /\ Head(q) = q[1]
         /\ Len(q) \in Nat \ {0} /\ Len(Tail(q)) = Len(q) - 1
         /\ \A k \in 1..Len(Tail(q)) : Tail(q)[k] = q[k + 1]
OBVIOUS

LEMMA AppendFacts ==
  ASSUME NEW S, NEW q \in Seq(S), NEW e \in S
  PROVE  /\ Append(q, e) \in Seq(S) /\ Len(Append(q, e)) = Len(q) + 1
         /\ \A k \in 1..Len(q) : Append(q, e)[k] = q[k]
         /\ Append(q, e)[Len(q) + 1] = e /\ Append(q, e) # <<>>
OBVIOUS

LEMMA ReplaceLastFacts ==
  ASSUME NEW S, NEW q \in Seq(S), q # <<>>, NEW e \in S
  PROVE  /\ [q EXCEPT ![Len(q)] = e] \in Seq(S)
         /\ Len([q EXCEPT ![Len(q)] = e]) = Len(q)
         /\ [q EXCEPT ![Len(q)] = e][Len(q)] = e
         /\ \A k \in 1..Len(q) : k # Len(q) => [q EXCEPT ![Len(q)] = e][k] = q[k]
BY Len(q) \in 1..Len(q), ExceptSeq

\* A write in progress is the head of a chain, and nothing else leaves the last
\* line of the file open.
OpenInv ==
  /\ \A p \in Pids : writing[p] # "idle" =>
       writing[p] = "fresh" /\ openTail /\ queue[p] # <<>> /\ file # <<>>
  /\ \A p, q \in Pids : writing[p] # "idle" /\ writing[q] # "idle" => p = q
  /\ openTail => \E p \in Pids : writing[p] # "idle"

\* Steps that leave the log alone, and the append of an event.
Rest(p) ==
  \/ StartEngine(p) \/ StartOther(p) \/ AcquireLock(p) \/ ReplayRun(p) \/ ReleaseLock(p)
  \/ Exit(p) /\ ~up[p]

Appends(p) == StartRun(p) \/ AppendEvent(p) \/ EndRun(p)

LEMMA RestLeavesLog ==
  ASSUME NEW p \in Pids, Rest(p)
  PROVE  UNCHANGED logVars
BY DEF Rest, StartEngine, StartOther, AcquireLock, ReplayRun, ReleaseLock, Exit

LEMMA AppendStep ==
  ASSUME TypeOK, NEW p \in Pids, Appends(p)
  PROVE  LET e == [seq |-> seq[p] + 1, id |-> issued + 1] IN
         /\ e \in Log!Envelope /\ up[p]
         /\ queue' = [queue EXCEPT ![p] = Append(queue[p], e)]
         /\ queue' \in [Pids -> Seq(Log!Envelope)] /\ queue'[p] # <<>>
         /\ seq' = [seq EXCEPT ![p] = seq[p] + 1] /\ issued' = issued + 1
         /\ UNCHANGED <<file, openTail, up, writing, acked, sessions>>
         /\ UNCHANGED lockVars
         /\ stage' \in [Pids -> Stages] /\ stage'[p] \in {"running", "ended"}
         /\ \A q \in Pids \ {p} : stage'[q] = stage[q]
         /\ finishes' \in {finishes, finishes \cup {issued + 1}}
<1> DEFINE e == [seq |-> seq[p] + 1, id |-> issued + 1]
<1>1. Log!AppendEvent(p) /\ UNCHANGED lockVars
  BY DEF Appends, StartRun, AppendEvent, EndRun
<1>2. /\ queue' = [queue EXCEPT ![p] = Append(queue[p], e)]
      /\ seq' = [seq EXCEPT ![p] = seq[p] + 1] /\ issued' = issued + 1 /\ up[p]
      /\ UNCHANGED <<file, openTail, up, writing, acked, sessions>>
  BY <1>1 DEF Log!AppendEvent
<1>3. e \in Log!Envelope
  BY DEF Log!Envelope, TypeOK, Log!TypeOK
<1>4. Append(queue[p], e) \in Seq(Log!Envelope) /\ Append(queue[p], e) # <<>>
  <2> HIDE DEF e
  <2>1. queue[p] \in Seq(Log!Envelope)
    BY DEF TypeOK, Log!TypeOK
  <2>2. QED
    BY <1>3, <2>1, AppendFacts
<1>5. queue' \in [Pids -> Seq(Log!Envelope)] /\ queue'[p] # <<>>
  BY <1>2, <1>4 DEF TypeOK, Log!TypeOK
<1>6. \/ stage' = [stage EXCEPT ![p] = "running"] \/ stage' = [stage EXCEPT ![p] = "ended"]
      \/ stage' = stage /\ stage[p] = "running"
  BY DEF Appends, StartRun, AppendEvent, EndRun, Enter, runVars
<1>7. finishes' \in {finishes, finishes \cup {issued + 1}}
  BY DEF Appends, StartRun, AppendEvent, EndRun, runVars
<1>8. /\ stage' \in [Pids -> Stages] /\ stage'[p] \in {"running", "ended"}
      /\ \A q \in Pids \ {p} : stage'[q] = stage[q]
  BY <1>6 DEF TypeOK, Stages
<1>9. QED
  BY <1>1, <1>2, <1>3, <1>5, <1>7, <1>8

LEMMA RunTypeInit == Init => TypeOK /\ OpenInv
<1> SUFFICES ASSUME Init PROVE TypeOK /\ OpenInv
  OBVIOUS
<1>1. LockTypeOK
  BY LockTypeInit DEF Init, LockTypeInv
<1>2. Log!TypeOK
  <2>1. <<>> \in Seq(Log!Envelope) /\ <<>> \in Seq(Log!Line)
    OBVIOUS
  <2>2. queue \in [Pids -> Seq(Log!Envelope)]
    BY <2>1 DEF Init, Log!Init
  <2>3. QED
    BY <2>1, <2>2 DEF Init, Log!Init, Log!TypeOK, Log!Writing
<1>3. stage \in [Pids -> Stages] /\ finishes \subseteq 1..issued
  BY DEF Init, Stages
<1>4. QED
  BY <1>1, <1>2, <1>3 DEF Init, Log!Init, OpenInv, TypeOK

LEMMA RunTypeNext == LockTypeOK' /\ TypeOK /\ OpenInv /\ [Next]_vars => TypeOK'
<1> SUFFICES ASSUME LockTypeOK', TypeOK, OpenInv, [Next]_vars
             PROVE  TypeOK'
  OBVIOUS
<1> USE DEF TypeOK, Log!TypeOK, Log!Writing
<1>1. ASSUME NEW p \in Pids, Rest(p)
      PROVE  TypeOK'
  <2>1. UNCHANGED logVars
    BY <1>1, RestLeavesLog
  <2>2. \/ \E s \in Stages : stage' = [stage EXCEPT ![p] = s]
        \/ stage' = stage
    BY <1>1 DEF Rest, StartEngine, StartOther, AcquireLock, ReplayRun, ReleaseLock, Exit,
         Enter, Stages, runVars
  <2>3. finishes' = finishes
    BY <1>1 DEF Rest, StartEngine, StartOther, AcquireLock, ReplayRun, ReleaseLock, Exit, runVars
  <2>4. stage' \in [Pids -> Stages]
    BY <2>2
  <2>5. QED
    BY <2>1, <2>3, <2>4 DEF logVars
<1>2. ASSUME NEW p \in Pids, Appends(p)
      PROVE  TypeOK'
  <2>1. /\ queue' \in [Pids -> Seq(Log!Envelope)]
        /\ seq' = [seq EXCEPT ![p] = seq[p] + 1] /\ issued' = issued + 1
        /\ UNCHANGED <<file, openTail, up, writing, acked, sessions>>
        /\ stage' \in [Pids -> Stages]
        /\ finishes' \in {finishes, finishes \cup {issued + 1}}
    BY <1>2, AppendStep
  <2>2. seq' \in [Pids -> Nat] /\ issued' \in Nat /\ finishes' \subseteq 1..issued'
    BY <2>1
  <2>3. QED
    BY <2>1, <2>2
<1>3. ASSUME NEW p \in Pids, OpenStore(p)
      PROVE  TypeOK'
  <2>1. Log!LastSeq(file) \in Nat
    BY DEF Log!LastSeq, Log!Complete
  <2>2. PICK last \in Nat : Log!StartSession(p, last)
    BY <1>3, <2>1 DEF OpenStore, Log!Create, Log!Open
  <2>3. QED
    BY <1>3, <2>2 DEF Log!StartSession, OpenStore, runVars
<1>4. ASSUME NEW p \in Pids, Log!WriteStart(p), ~openTail, UNCHANGED runVars
      PROVE  TypeOK'
  <2>1. PICK part \in {Log!Bad, Head(queue[p])} : file' = Append(file, part)
    BY <1>4 DEF Log!WriteStart
  <2>2. Head(queue[p]) \in Log!Line
    BY <1>4, TailFacts, LineValues DEF Log!WriteStart
  <2>3. file' \in Seq(Log!Line)
    BY <2>1, <2>2, LineValues, AppendFacts
  <2>4. QED
    BY <1>4, <2>3 DEF Log!WriteStart, runVars
<1>5. ASSUME NEW p \in Pids, Log!WriteFinish(p), UNCHANGED runVars
      PROVE  TypeOK'
  <2>1. queue[p] # <<>> /\ file # <<>>
    BY <1>5 DEF Log!WriteFinish, OpenInv
  <2>2. Head(queue[p]) \in Log!Envelope /\ Tail(queue[p]) \in Seq(Log!Envelope)
    BY <2>1, TailFacts
  <2>3. Head(queue[p]) \in Log!Line /\ Head(queue[p]).id \in Nat
    BY <2>2, LineValues
  <2>4. file' \in Seq(Log!Line)
    BY <1>5, <2>1, <2>3, ReplaceLastFacts DEF Log!WriteFinish
  <2>5. QED
    BY <1>5, <2>2, <2>3, <2>4 DEF Log!WriteFinish, runVars
<1>6. ASSUME NEW p \in Pids, Exit(p), up[p]
      PROVE  TypeOK'
  <2>1. <<>> \in Seq(Log!Envelope)
    OBVIOUS
  <2>2. Log!EndSession(p) /\ stage' = [stage EXCEPT ![p] = "opening"] /\ finishes' = finishes
    BY <1>6 DEF Exit, Log!Crash, Enter
  <2>3. queue' \in [Pids -> Seq(Log!Envelope)]
    BY <2>1, <2>2 DEF Log!EndSession
  <2>4. stage' \in [Pids -> Stages]
    BY <2>2 DEF Stages
  <2>5. QED
    BY <2>2, <2>3, <2>4 DEF Log!EndSession
<1>7. CASE Pass \/ UNCHANGED vars
  BY <1>7 DEF Pass, vars, logVars, runVars
<1>8. ASSUME NEW p \in Pids, WriteLine(p)
      PROVE  TypeOK'
  BY <1>4, <1>5, <1>8 DEF WriteLine
<1>9. QED
  BY <1>1, <1>2, <1>3, <1>6, <1>7, <1>8 DEF Next, Rest, Appends

LEMMA OpenNext == TypeOK /\ OpenInv /\ [Next]_vars => OpenInv'
<1> SUFFICES ASSUME TypeOK, OpenInv, [Next]_vars
             PROVE  OpenInv'
  OBVIOUS
<1> USE DEF OpenInv
<1>0. /\ writing \in [Pids -> {"idle", "fresh", "glued"}]
      /\ queue \in [Pids -> Seq(Log!Envelope)] /\ file \in Seq(Log!Line)
  BY DEF TypeOK, Log!TypeOK, Log!Writing
<1>1. CASE UNCHANGED logVars
  BY <1>1 DEF logVars
<1>2. ASSUME NEW p \in Pids, Appends(p)
      PROVE  OpenInv'
  <2>1. /\ queue' = [queue EXCEPT ![p] = Append(queue[p], [seq |-> seq[p] + 1, id |-> issued + 1])]
        /\ queue'[p] # <<>>
        /\ UNCHANGED <<file, openTail, writing>>
    BY <1>2, AppendStep
  <2>2. \A q \in Pids : queue[q] # <<>> => queue'[q] # <<>>
    BY <1>0, <2>1
  <2>3. QED
    BY <2>1, <2>2
<1>3. ASSUME NEW p \in Pids, OpenStore(p)
      PROVE  OpenInv'
  BY <1>3 DEF OpenStore, Log!Create, Log!Open, Log!StartSession
<1>4. ASSUME NEW p \in Pids, Log!WriteStart(p), ~openTail
      PROVE  OpenInv'
  <2>1. PICK part \in {Log!Bad, Head(queue[p])} : file' = Append(file, part)
    BY <1>4 DEF Log!WriteStart
  <2>2. queue[p] # <<>> /\ Head(queue[p]) \in Log!Line
    BY <1>0, <1>4, TailFacts, LineValues DEF Log!WriteStart
  <2>3. file' # <<>>
    BY <1>0, <2>1, <2>2, LineValues, AppendFacts
  <2>4. writing' = [writing EXCEPT ![p] = "fresh"] /\ openTail' /\ queue' = queue
    BY <1>4 DEF Log!WriteStart
  <2>5. \A q \in Pids : writing[q] = "idle"
    BY <1>4
  <2>6. QED
    BY <1>0, <2>2, <2>3, <2>4, <2>5
<1>5. ASSUME NEW p \in Pids, Log!WriteFinish(p)
      PROVE  OpenInv'
  <2>1. ~openTail' /\ writing' = [writing EXCEPT ![p] = "idle"] /\ writing[p] # "idle"
    BY <1>5 DEF Log!WriteFinish
  <2>2. \A q \in Pids : writing'[q] = "idle"
    BY <1>0, <2>1
  <2>3. QED
    BY <2>1, <2>2
<1>6. ASSUME NEW p \in Pids, Exit(p), up[p]
      PROVE  OpenInv'
  <2>1. /\ writing[p] = "idle" /\ writing' = [writing EXCEPT ![p] = "idle"]
        /\ queue' = [queue EXCEPT ![p] = <<>>] /\ openTail' = openTail /\ file' = file
    BY <1>6 DEF Exit, Log!Crash, Log!EndSession
  <2>2. writing' = writing /\ \A q \in Pids \ {p} : queue'[q] = queue[q]
    BY <1>0, <2>1
  <2>3. QED
    BY <2>1, <2>2
<1>7. CASE Pass \/ UNCHANGED vars
  BY <1>1, <1>7 DEF Pass, vars
<1>8. ASSUME NEW p \in Pids, WriteLine(p)
      PROVE  OpenInv'
  BY <1>4, <1>5, <1>8 DEF WriteLine
<1>9. ASSUME NEW p \in Pids, Rest(p)
      PROVE  OpenInv'
  BY <1>1, <1>9, RestLeavesLog
<1>10. QED
  BY <1>2, <1>3, <1>6, <1>7, <1>8, <1>9 DEF Next, Rest, Appends

\* Every variable keeps its type.
THEOREM RunTypeCorrect == Spec => []TypeOK
<1>1. Spec => []LockTypeOK
  BY EnginesUseLock, LockTypeCorrect, PTL
<1>2. QED
  BY <1>1, RunTypeInit, RunTypeNext, OpenNext, PTL DEF Spec


-----------------------------------------------------------------------------
(* A finished run is final *)

\* An engine that runs, or has a chain, is the owner.
ChainInv ==
  /\ \A p \in Pids : queue[p] # <<>> =>
       up[p] /\ pc[p] = "holding" /\ stage[p] \in {"running", "ended"}
  /\ \A p \in Pids : stage[p] # "opening" => pc[p] \in {"holding", "done"}
  /\ \A p \in Pids : stage[p] = "running" => pc[p] = "holding"

LEMMA ChainInit == Init => ChainInv
BY DEF Init, Log!Init, ChainInv

LEMMA ChainNext == LockTypeInv /\ TypeOK /\ OpenInv /\ ChainInv /\ [Next]_vars => ChainInv'
<1> SUFFICES ASSUME LockTypeInv, TypeOK, OpenInv, ChainInv, [Next]_vars
             PROVE  ChainInv'
  OBVIOUS
<1> USE DEF ChainInv
<1>0. /\ pc \in [Pids -> Points] /\ stage \in [Pids -> Stages]
      /\ queue \in [Pids -> Seq(Log!Envelope)] /\ up \in [Pids -> BOOLEAN]
      /\ \A p \in Pids : pc[p] # "start" => kind[p] = "engine"
  BY DEF TypeOK, Log!TypeOK, LockTypeInv, LockTypeOK, InfoInv
<1>1. ASSUME NEW p \in Pids, StartEngine(p) \/ StartOther(p)
      PROVE  ChainInv'
  <2>1. /\ UNCHANGED logVars /\ kind[p] = "none" /\ pc' = [pc EXCEPT ![p] = "start"]
        /\ stage' = [stage EXCEPT ![p] = "opening"] \/ stage' = stage
    BY <1>1 DEF StartEngine, StartOther, StartProcess, Goto, Enter, runVars
  <2>2. pc[p] = "start"
    BY <1>0, <2>1
  <2>3. pc' = pc /\ queue' = queue /\ up' = up
    BY <1>0, <2>1, <2>2 DEF logVars
  <2>4. stage[p] = "opening"
    BY <2>2
  <2>5. stage' = stage
    BY <1>0, <2>1, <2>4
  <2>6. QED
    BY <2>3, <2>5
<1>2. ASSUME NEW p \in Pids, AcquireLock(p)
      PROVE  ChainInv'
  <2>1. /\ pc[p] \in Acquiring \cup {"start"}
        /\ \A q \in Pids \ {p} : pc'[q] = pc[q]
    BY <1>0, <1>2 DEF AcquireLock, Acquire, CheckExists, ReadLock, Probe, CompareStart, Truncate,
         Stamp, Goto, Acquiring
  <2>2. stage[p] = "opening" /\ queue[p] = <<>>
    BY <2>1 DEF Acquiring
  <2>3. stage' = stage /\ queue' = queue /\ up' = up
    BY <1>2 DEF AcquireLock, logVars, runVars
  <2>4. QED
    BY <2>1, <2>2, <2>3
<1>3. ASSUME NEW p \in Pids, ReplayRun(p)
      PROVE  ChainInv'
  <2>1. /\ queue' = queue /\ up' = up /\ pc' = pc /\ pc[p] = "holding" /\ stage[p] = "opening"
        /\ stage' = [stage EXCEPT ![p] = "running"] \/ stage' = [stage EXCEPT ![p] = "failed"]
    BY <1>3 DEF ReplayRun, Enter, logVars, lockVars
  <2>2. QED
    BY <1>0, <2>1
<1>4. ASSUME NEW p \in Pids, ReleaseLock(p)
      PROVE  ChainInv'
  <2>1. /\ queue' = queue /\ up' = up /\ stage' = stage
        /\ queue[p] = <<>> /\ stage[p] \in {"ended", "failed"}
        /\ pc' = [pc EXCEPT ![p] = "done"]
    BY <1>4 DEF ReleaseLock, Release, Goto, logVars, runVars
  <2>2. QED
    BY <1>0, <2>1
<1>5. ASSUME NEW p \in Pids, Exit(p)
      PROVE  ChainInv'
  <2>1. /\ pc' = [pc EXCEPT ![p] = "start"] /\ stage' = [stage EXCEPT ![p] = "opening"]
        /\ \A q \in Pids \ {p} : queue'[q] = queue[q] /\ up'[q] = up[q]
    BY <1>0, <1>5 DEF Exit, Die, Goto, Enter, Log!Crash, Log!EndSession, logVars
  <2>2. queue'[p] = <<>>
    BY <1>0, <1>5 DEF Exit, Log!Crash, Log!EndSession, logVars
  <2>3. QED
    BY <1>0, <2>1, <2>2
<1>6. ASSUME NEW p \in Pids, Appends(p)
      PROVE  ChainInv'
  <2>1. pc[p] = "holding"
    BY <1>6 DEF Appends, StartRun, AppendEvent, EndRun
  <2>2. /\ up[p] /\ up' = up /\ pc' = pc
        /\ queue' = [queue EXCEPT ![p] = Append(queue[p], [seq |-> seq[p] + 1, id |-> issued + 1])]
        /\ stage'[p] \in {"running", "ended"} /\ \A q \in Pids \ {p} : stage'[q] = stage[q]
    BY <1>6, AppendStep DEF lockVars
  <2>3. \A q \in Pids \ {p} : queue'[q] = queue[q]
    BY <1>0, <2>2
  <2>4. QED
    BY <2>1, <2>2, <2>3
<1>7. ASSUME NEW p \in Pids, OpenStore(p)
      PROVE  ChainInv'
  <2>1. queue' = queue /\ pc' = pc /\ stage' = stage /\ up' = [up EXCEPT ![p] = TRUE]
    BY <1>7 DEF OpenStore, Log!Create, Log!Open, Log!StartSession, lockVars, runVars
  <2>2. QED
    BY <1>0, <2>1
<1>8. ASSUME NEW p \in Pids, WriteLine(p)
      PROVE  ChainInv'
  <2>1. /\ pc' = pc /\ stage' = stage /\ up' = up
        /\ \A q \in Pids \ {p} : queue'[q] = queue[q]
    BY <1>0, <1>8 DEF WriteLine, Log!WriteStart, Log!WriteFinish, lockVars, runVars
  <2>2. queue[p] # <<>>
    BY <1>8 DEF WriteLine, Log!WriteStart, Log!WriteFinish, OpenInv
  <2>3. QED
    BY <2>1, <2>2
<1>9. CASE Pass \/ UNCHANGED vars
  BY <1>9 DEF Pass, Tick, vars, logVars, lockVars, runVars
<1>10. QED
  BY <1>1, <1>2, <1>3, <1>4, <1>5, <1>6, <1>7, <1>8, <1>9 DEF Next, Appends


\* An event is a finish, when it is recorded as one.
Fin(x) == x.id \in finishes

NoFin(q) == \A i \in 1..Len(q) : ~Fin(q[i])

NothingAfter == \A i \in 1..Len(file) : Fin(file[i]) => i = Len(file)

OneOwner == \A p, q \in Pids : pc[p] = "holding" /\ pc[q] = "holding" => p = q

\* While an engine runs, no finish has been appended; a finish it has appended
\* is the last of its chain, and in the file only as the line being written.
FinalInv ==
  /\ \A i \in 1..Len(file) : file[i].id <= issued
  /\ \A p \in Pids : \A i \in 1..Len(queue[p]) : queue[p][i].id <= issued
  /\ NothingAfter
  /\ \A p \in Pids : stage[p] = "running" => NoFin(file) /\ NoFin(queue[p])
  /\ \A p \in Pids : queue[p] # <<>> =>
       /\ \A i \in 1..Len(queue[p]) : Fin(queue[p][i]) => i = Len(queue[p])
       /\ \A i \in 1..Len(file) :
            Fin(file[i]) => writing[p] # "idle" /\ i = Len(file) /\ file[i] = queue[p][1]
  /\ \A p \in Pids : writing[p] # "idle" => file[Len(file)] \in {Log!Bad, queue[p][1]}

LEMMA FinalInit == Init => FinalInv
BY DEF Init, Log!Init, FinalInv, NothingAfter

\* A chain belongs to the owner, and so does the right to run.
LEMMA OneChain ==
  ASSUME OneOwner, ChainInv, NEW p \in Pids, pc[p] = "holding"
  PROVE  \A q \in Pids \ {p} : queue[q] = <<>> /\ stage[q] # "running"
BY DEF OneOwner, ChainInv

LEMMA FinalNext ==
  OneOwner /\ LockTypeInv /\ TypeOK /\ OpenInv /\ ChainInv /\ FinalInv /\ [Next]_vars
    => FinalInv'
<1> SUFFICES ASSUME OneOwner, LockTypeInv, TypeOK, OpenInv, ChainInv, FinalInv, [Next]_vars
             PROVE  FinalInv'
  OBVIOUS
<1>0. /\ stage \in [Pids -> Stages] /\ queue \in [Pids -> Seq(Log!Envelope)]
      /\ writing \in [Pids -> {"idle", "fresh", "glued"}] /\ file \in Seq(Log!Line)
      /\ issued \in Nat /\ finishes \subseteq 1..issued
  BY DEF TypeOK, Log!TypeOK, Log!Writing
<1>1. ASSUME UNCHANGED <<logVars, finishes>>,
             \A p \in Pids : stage'[p] = "running" => stage[p] = "running" \/ (NoFin(file) /\ queue[p] = <<>>)
      PROVE  FinalInv'
  <2>1. UNCHANGED <<file, queue, writing, issued, finishes>>
    BY <1>1 DEF logVars
  <2>2. \A p \in Pids : stage'[p] = "running" => NoFin(file) /\ NoFin(queue[p])
    BY <1>1 DEF FinalInv, NoFin
  <2>3. QED
    BY <2>1, <2>2 DEF FinalInv, NothingAfter, NoFin, Fin
<1>2. ASSUME NEW p \in Pids, StartEngine(p) \/ StartOther(p) \/ AcquireLock(p) \/ ReleaseLock(p)
      PROVE  FinalInv'
  <2>1. UNCHANGED <<logVars, finishes>>
    BY <1>2 DEF StartEngine, StartOther, AcquireLock, ReleaseLock, runVars
  <2>2. stage' = stage \/ stage' = [stage EXCEPT ![p] = "opening"]
    BY <1>2 DEF StartEngine, StartOther, AcquireLock, ReleaseLock, runVars, Enter
  <2>3. \A q \in Pids : stage'[q] = "running" => stage[q] = "running" \/ (NoFin(file) /\ queue[q] = <<>>)
    <3>1. CASE stage' = stage
      BY <3>1
    <3>2. CASE stage' = [stage EXCEPT ![p] = "opening"]
      BY <1>0, <3>2
    <3>3. QED
      BY <2>2, <3>1, <3>2
  <2>4. QED
    BY <1>1, <2>1, <2>3
<1>3. ASSUME NEW p \in Pids, ReplayRun(p)
      PROVE  FinalInv'
  <2>1. /\ UNCHANGED <<logVars, finishes>> /\ stage[p] = "opening"
        /\ \/ stage' = [stage EXCEPT ![p] = "failed"]
           \/ stage' = [stage EXCEPT ![p] = "running"] /\ ~Finished
    BY <1>3 DEF ReplayRun, Enter
  <2>2. queue[p] = <<>>
    BY <2>1 DEF ChainInv
  <2>3. ~Finished => NoFin(file)
    <3>1. ASSUME NEW i \in 1..Len(file), Fin(file[i])
          PROVE  i \in 1..Log!Complete(file)
      <4>1. file[i] # Log!Bad
        BY <1>0, <3>1, LineValues DEF Fin
      <4>2. QED
        BY <1>0, <4>1 DEF Log!Complete
    <3>2. QED
      BY <3>1 DEF Finished, Log!Replayed, NoFin, Fin
  <2>4. \A q \in Pids : stage'[q] = "running" => stage[q] = "running" \/ (NoFin(file) /\ queue[q] = <<>>)
    <3>1. CASE stage' = [stage EXCEPT ![p] = "failed"]
      BY <1>0, <3>1
    <3>2. CASE stage' = [stage EXCEPT ![p] = "running"] /\ ~Finished
      BY <1>0, <2>2, <2>3, <3>2
    <3>3. QED
      BY <2>1, <3>1, <3>2
  <2>5. QED
    BY <1>1, <2>1, <2>4
<1>4. ASSUME NEW p \in Pids, OpenStore(p)
      PROVE  FinalInv'
  <2>1. UNCHANGED <<file, queue, writing, issued, finishes, stage>>
    BY <1>4 DEF OpenStore, Log!Create, Log!Open, Log!StartSession, runVars
  <2>2. QED
    BY <2>1 DEF FinalInv, NothingAfter, NoFin, Fin
<1>5. ASSUME NEW p \in Pids, Exit(p)
      PROVE  FinalInv'
  <2>1. /\ UNCHANGED <<file, issued, finishes>> /\ stage' = [stage EXCEPT ![p] = "opening"]
        /\ \A q \in Pids \ {p} : queue'[q] = queue[q] /\ writing'[q] = writing[q]
    BY <1>0, <1>5 DEF Exit, Enter, Log!Crash, Log!EndSession, logVars
  <2>2. queue'[p] = <<>> /\ writing'[p] = "idle"
    BY <1>0, <1>5 DEF Exit, Log!Crash, Log!EndSession, logVars, ChainInv, OpenInv
  <2>3. \A q \in Pids \ {p} : stage'[q] = stage[q]
    BY <2>1
  <2>4. stage'[p] # "running"
    BY <1>0, <2>1
  <2>5. QED
    BY <2>1, <2>2, <2>3, <2>4 DEF FinalInv, NothingAfter, NoFin, Fin
<1>6. ASSUME NEW p \in Pids, Appends(p)
      PROVE  FinalInv'
  <2> DEFINE e == [seq |-> seq[p] + 1, id |-> issued + 1]
  <2>1. /\ e \in Log!Envelope /\ e.id = issued + 1
        /\ queue' = [queue EXCEPT ![p] = Append(queue[p], e)]
        /\ issued' = issued + 1 /\ UNCHANGED <<file, writing>>
        /\ finishes' \in {finishes, finishes \cup {issued + 1}}
    BY <1>6, AppendStep
  <2>2. pc[p] = "holding"
    BY <1>6 DEF Appends, StartRun, AppendEvent, EndRun, ChainInv
  <2>3. NoFin(file) /\ NoFin(queue[p])
    BY <1>6 DEF Appends, StartRun, AppendEvent, EndRun, ChainInv, FinalInv, NoFin
  <2>4. /\ \A q \in Pids \ {p} : queue'[q] = queue[q] /\ queue[q] = <<>>
        /\ \A q \in Pids \ {p} : stage'[q] = stage[q] /\ stage[q] # "running"
    BY <1>0, <1>6, <2>1, <2>2, OneChain, AppendStep
  <2>5. stage'[p] = "running" => finishes' = finishes
    BY <1>6 DEF Appends, StartRun, AppendEvent, EndRun, Enter, runVars, TypeOK
  <2> HIDE DEF e
  <2>6. /\ Len(queue'[p]) = Len(queue[p]) + 1 /\ queue'[p][Len(queue[p]) + 1] = e
        /\ \A i \in 1..Len(queue[p]) : queue'[p][i] = queue[p][i]
        /\ Len(queue[p]) \in Nat /\ queue'[p] # <<>>
    <3>1. queue[p] \in Seq(Log!Envelope) /\ queue'[p] = Append(queue[p], e)
      BY <1>0, <2>1
    <3>2. QED
      BY <2>1, <3>1, AppendFacts
  <2>7. \A i \in 1..Len(file) : file[i].id <= issued /\ file[i].id \notin finishes'
    <3>1. \A i \in 1..Len(file) : file[i] \in Log!Line
      BY <1>0
    <3>2. QED
      BY <1>0, <2>1, <2>3, <3>1, LineValues DEF FinalInv, NoFin, Fin
  <2>8. \A i \in 1..Len(queue[p]) : queue[p][i].id <= issued /\ queue[p][i].id \notin finishes'
    <3>1. \A i \in 1..Len(queue[p]) : queue[p][i] \in Log!Line
      BY <1>0, LineValues
    <3>2. QED
      BY <1>0, <2>1, <2>3, <3>1, LineValues DEF FinalInv, NoFin, Fin
  <2>9. \A i \in 1..Len(queue'[p]) : i \in 1..Len(queue[p]) \/ (i = Len(queue'[p]) /\ queue'[p][i] = e)
    <3> SUFFICES ASSUME NEW i \in 1..Len(queue'[p]), i \notin 1..Len(queue[p])
                 PROVE  i = Len(queue'[p]) /\ queue'[p][i] = e
      OBVIOUS
    <3>1. i = Len(queue[p]) + 1
      BY <2>6
    <3>2. QED
      BY <2>6, <3>1
  <2>10. \A i \in 1..Len(file) : file'[i].id <= issued' /\ ~Fin(file[i])'
    <3>1. \A i \in 1..Len(file) : file[i].id \in Nat
      BY <1>0, LineValues
    <3>2. QED
      BY <1>0, <2>1, <2>7, <3>1 DEF Fin
  <2>11. \A i \in 1..Len(queue'[p]) :
           /\ queue'[p][i].id <= issued'
           /\ Fin(queue[p][i])' => i = Len(queue'[p]) /\ finishes' # finishes
    <3>1. \A i \in 1..Len(queue[p]) : queue[p][i].id \in Nat
      BY <1>0, LineValues
    <3>2. issued + 1 \notin finishes
      BY <1>0
    <3>3. QED
      BY <1>0, <2>1, <2>6, <2>8, <2>9, <3>1, <3>2 DEF Fin
  <2>12. \A q \in Pids : writing'[q] # "idle" =>
           q = p /\ file'[Len(file')] \in {Log!Bad, queue'[q][1]}
    <3>1. ASSUME NEW q \in Pids, writing'[q] # "idle"
          PROVE  q = p /\ file'[Len(file')] \in {Log!Bad, queue'[q][1]}
      <4>1. writing[q] # "idle" /\ queue[q] # <<>> /\ q = p
        BY <2>1, <2>4, <3>1 DEF OpenInv
      <4>2. 1 \in 1..Len(queue[p])
        BY <1>0, <4>1
      <4>3. QED
        BY <2>1, <2>6, <4>1, <4>2 DEF FinalInv
    <3>2. QED
      BY <3>1
  <2>13. NothingAfter'
    BY <2>1, <2>10 DEF NothingAfter, Fin
  <2>14. \A q \in Pids : stage'[q] = "running" => NoFin(file)' /\ NoFin(queue[q])'
    BY <2>1, <2>4, <2>5, <2>10, <2>11 DEF NoFin
  <2>15. \A q \in Pids : \A i \in 1..Len(queue'[q]) : queue'[q][i].id <= issued'
    BY <2>4, <2>11
  <2>16. QED
    BY <2>1, <2>4, <2>10, <2>11, <2>12, <2>13, <2>14, <2>15 DEF FinalInv
<1>7. ASSUME NEW p \in Pids, Log!WriteStart(p), ~openTail, UNCHANGED runVars
      PROVE  FinalInv'
  <2>1. /\ queue[p] # <<>> /\ writing[p] = "idle" /\ pc[p] = "holding"
        /\ writing' = [writing EXCEPT ![p] = "fresh"]
        /\ UNCHANGED <<queue, issued, stage, finishes>>
    BY <1>7 DEF Log!WriteStart, ChainInv, runVars
  <2>2. PICK part \in {Log!Bad, Head(queue[p])} : file' = Append(file, part)
    BY <1>7 DEF Log!WriteStart
  <2>3. /\ Head(queue[p]) = queue[p][1] /\ 1 \in 1..Len(queue[p])
        /\ queue[p][1] \in Log!Line
    BY <1>0, <2>1, TailFacts, LineValues
  <2>4. part \in Log!Line /\ part.id <= issued /\ (Fin(part) => part = queue[p][1])
    BY <1>0, <2>2, <2>3, LineValues DEF FinalInv, Fin
  <2>5. /\ Len(file') = Len(file) + 1 /\ Len(file) \in Nat /\ file'[Len(file')] = part
        /\ \A i \in 1..Len(file) : file'[i] = file[i]
    BY <1>0, <2>2, <2>4, AppendFacts
  <2>6. \A i \in 1..Len(file') : i \in 1..Len(file) \/ i = Len(file')
    BY <2>5
  <2>7. NoFin(file)
    BY <2>1 DEF FinalInv, NoFin
  <2>8. \A i \in 1..Len(file') :
          /\ file'[i].id <= issued
          /\ Fin(file'[i]) => i = Len(file') /\ file'[i] = queue[p][1]
    BY <2>4, <2>5, <2>6, <2>7 DEF FinalInv, NoFin
  <2>9. \A q \in Pids \ {p} : queue[q] = <<>> /\ stage[q] # "running" /\ writing[q] = "idle"
    BY <2>1, OneChain DEF OpenInv
  <2>10. stage[p] = "running" => NoFin(file)'
    BY <2>1, <2>3, <2>8 DEF FinalInv, NoFin, Fin
  <2>11. NothingAfter'
    BY <2>1, <2>8 DEF NothingAfter, Fin
  <2>12. writing'[p] = "fresh" /\ \A q \in Pids \ {p} : writing'[q] = "idle"
    BY <1>0, <2>1, <2>9
  <2>13. file'[Len(file')] \in {Log!Bad, queue[p][1]}
    BY <2>2, <2>3, <2>5
  <2>14. QED
    BY <2>1, <2>8, <2>9, <2>10, <2>11, <2>12, <2>13 DEF FinalInv, NoFin, Fin
<1>8. ASSUME NEW p \in Pids, Log!WriteFinish(p), UNCHANGED runVars
      PROVE  FinalInv'
  <2>1. /\ writing[p] = "fresh" /\ queue[p] # <<>> /\ file # <<>> /\ pc[p] = "holding"
        /\ file' = [file EXCEPT ![Len(file)] = Head(queue[p])]
        /\ queue' = [queue EXCEPT ![p] = Tail(queue[p])]
        /\ writing' = [writing EXCEPT ![p] = "idle"]
        /\ UNCHANGED <<issued, stage, finishes>>
    BY <1>8 DEF Log!WriteFinish, OpenInv, ChainInv, runVars
  <2>2. /\ Head(queue[p]) = queue[p][1] /\ queue[p][1] \in Log!Line
        /\ Len(queue[p]) \in Nat \ {0} /\ Len(Tail(queue[p])) = Len(queue[p]) - 1
        /\ \A i \in 1..Len(Tail(queue[p])) : Tail(queue[p])[i] = queue[p][i + 1]
        /\ Tail(queue[p]) \in Seq(Log!Envelope)
    BY <1>0, <2>1, TailFacts, LineValues
  <2>3. /\ Len(file') = Len(file) /\ file'[Len(file)] = queue[p][1] /\ Len(file) \in Nat
        /\ \A i \in 1..Len(file) : i # Len(file) => file'[i] = file[i]
    BY <1>0, <2>1, <2>2, ReplaceLastFacts
  <2>4. \A q \in Pids \ {p} : queue'[q] = <<>> /\ stage[q] # "running" /\ writing'[q] = "idle"
    BY <1>0, <2>1, OneChain DEF OpenInv
  <2>5. queue'[p] = Tail(queue[p]) /\ writing'[p] = "idle"
    BY <1>0, <2>1
  <2>6. \A i \in 1..Len(file') :
          file'[i].id <= issued /\ (Fin(file'[i]) => i = Len(file') /\ Fin(queue[p][1]))
    <3>1. 1 \in 1..Len(queue[p])
      BY <2>2
    <3>2. QED
      BY <2>1, <2>3, <3>1 DEF FinalInv
  <2>7. \A i \in 1..Len(queue'[p]) :
          /\ queue'[p][i].id <= issued
          /\ Fin(queue'[p][i]) => i = Len(queue'[p])
          /\ Fin(queue'[p][i]) => Fin(queue[p][i + 1]) /\ i + 1 \in 1..Len(queue[p])
    <3> SUFFICES ASSUME NEW i \in 1..Len(queue'[p])
                 PROVE  /\ queue'[p][i].id <= issued
                        /\ Fin(queue'[p][i]) => i = Len(queue'[p])
                        /\ Fin(queue'[p][i]) => Fin(queue[p][i + 1]) /\ i + 1 \in 1..Len(queue[p])
      OBVIOUS
    <3>1. i \in 1..Len(Tail(queue[p])) /\ queue'[p][i] = Tail(queue[p])[i]
      BY <2>5
    <3>2. i + 1 \in 1..Len(queue[p]) /\ queue'[p][i] = queue[p][i + 1]
      BY <2>2, <3>1
    <3>3. queue[p][i + 1].id <= issued /\ (Fin(queue[p][i + 1]) => i + 1 = Len(queue[p]))
      BY <2>1, <3>2 DEF FinalInv
    <3>4. i + 1 = Len(queue[p]) => i = Len(queue'[p])
      BY <2>2, <2>5
    <3>5. QED
      BY <3>2, <3>3, <3>4 DEF Fin
  <2>8. queue'[p] # <<>> => ~Fin(queue[p][1])
    <3>1. ASSUME queue'[p] # <<>>
          PROVE  1 \in 1..Len(queue[p]) /\ Len(queue[p]) # 1
      <4> DEFINE rest == Tail(queue[p])
      <4>1. rest \in Seq(Log!Envelope) /\ rest # <<>> /\ Len(rest) = Len(queue[p]) - 1
        BY <2>2, <2>5, <3>1
      <4> HIDE DEF rest
      <4>2. Len(rest) # 0
        BY <4>1, TailFacts
      <4>3. QED
        BY <2>2, <4>1, <4>2
    <3>2. QED
      BY <2>1, <3>1 DEF FinalInv
  <2>9. stage[p] = "running" => NoFin(file') /\ NoFin(queue'[p])
    <3>1. 1 \in 1..Len(queue[p])
      BY <2>2
    <3>2. QED
      BY <2>6, <2>7, <3>1 DEF FinalInv, NoFin
  <2>10. NothingAfter'
    BY <2>1, <2>6 DEF NothingAfter, Fin
  <2>11. QED
    BY <2>1, <2>4, <2>5, <2>6, <2>7, <2>8, <2>9, <2>10 DEF FinalInv, NoFin, Fin
<1>9. ASSUME NEW p \in Pids, WriteLine(p)
      PROVE  FinalInv'
  BY <1>7, <1>8, <1>9 DEF WriteLine
<1>10. CASE Pass \/ UNCHANGED vars
  <2>1. UNCHANGED <<file, queue, writing, issued, finishes, stage>>
    BY <1>10 DEF Pass, vars, logVars, runVars
  <2>2. QED
    BY <2>1 DEF FinalInv, NothingAfter, NoFin, Fin
<1>11. QED
  BY <1>2, <1>3, <1>4, <1>5, <1>6, <1>9, <1>10 DEF Next, Appends

LEMMA SharedStays == [LockNext]_lockVars /\ shared => shared'
BY DEF LockNext, lockVars, history, Tick, StartProcess, Die, Acquire, CheckExists, ReadLock,
   Probe, CompareStart, Truncate, Stamp, Release

FinalUnlessShared == ~shared => FinalInv

LEMMA FinalUnlessSharedNext ==
  SoleOwner /\ LockTypeInv /\ TypeOK /\ OpenInv /\ ChainInv /\ FinalUnlessShared /\ [Next]_vars
    => FinalUnlessShared'
<1> SUFFICES ASSUME SoleOwner, LockTypeInv, TypeOK, OpenInv, ChainInv, FinalUnlessShared,
                    [Next]_vars, ~shared'
             PROVE  FinalInv'
  BY DEF FinalUnlessShared
<1>1. ~shared
  BY StepUsesLock, SharedStays
<1>2. OneOwner /\ FinalInv
  BY <1>1 DEF SoleOwner, OneOwner, FinalUnlessShared
<1>3. QED
  BY <1>2, FinalNext

\* No event follows run_finished as long as no two engines have owned the run at
\* once, although each opens the store before it takes the lock.
THEOREM FinishStands == Spec => []FinishIsFinal
<1>1. Spec => []SoleOwner
  <2>1. LockSpec => []SoleOwner
    BY LockTypeInit, LockTypeNext, SoleInit, SoleNext, PTL DEF LockSpec
  <2>2. QED
    BY <2>1, EnginesUseLock, PTL
<1>2. FinalUnlessShared => FinishIsFinal
  BY DEF FinalUnlessShared, FinalInv, NothingAfter, Fin, FinishIsFinal
<1>3. Spec => [](LockTypeInv /\ LockTypeOK)
  <2>1. LockTypeInv => LockTypeOK
    BY DEF LockTypeInv
  <2>2. QED
    BY <2>1, InitUsesLock, StepUsesLock, LockTypeInit, LockTypeNext, PTL DEF Spec
<1>4. Init => FinalUnlessShared
  BY FinalInit DEF FinalUnlessShared
<1>5. QED
  BY <1>1, <1>2, <1>3, <1>4, RunTypeInit, RunTypeNext, OpenNext, ChainInit, ChainNext,
     FinalUnlessSharedNext, PTL DEF Spec

=============================================================================
