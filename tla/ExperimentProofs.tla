--------------------------- MODULE ExperimentProofs ---------------------------
(***************************************************************************)
(* Proofs about one experiment and what it is judged by, for any values,   *)
(* number of samples and of gates, any thresholds and any output of the    *)
(* agent: AcceptedIsSound, ServersStopped, OutcomeTellsOutput, WinsGuarded *)
(* and ResampledMedian.                                                    *)
(***************************************************************************)
EXTENDS Experiment, SequenceTheorems, FiniteSetTheorems,
        WellFoundedInduction, TLAPS

-----------------------------------------------------------------------------
(* Screening *)

\* What a clean candidate has: see AcceptedIsSound.
Screened(h, t, r) ==
  /\ \A f \in DOMAIN Pins : h[f] = Pins[f] /\ (t[f] = Pins[f] \/ t[f] = Absent)
  /\ t["src"] = "skip" => h["src"] = "skip"
  /\ t["lock"] # Base["lock"] => "dependency-change" \in r
  /\ t["src"] = "swallow" => "suppressed-errors" \in r

LEMMA PinsFacts == DOMAIN Pins = {"bench"} /\ Pins["bench"] = "bench0"
<1>1. {g \in Protected : Base[g] # Absent} = {"bench"}
  BY DEF Protected, Base, Absent
<1> QED
  BY <1>1 DEF Pins, Base

\* The fields of the worktrees an agent may leave.
LEMMA WorktreeFacts ==
  ASSUME NEW h \in Commits, NEW i \in Stages, NEW t \in Trees
  PROVE  /\ h["src"] # "swallow" /\ h["lock"] = "lock0"
         /\ [i EXCEPT !.src = h.src]["bench"] = i["bench"]
BY DEF Commits, Stages, Trees

\* A protected file that git status does not show, of a commit that has it as
\* pinned, is so in the directory, or was staged under another name.
LEMMA PinsHold ==
  ASSUME NEW h, NEW i, NEW t, PinViolations(h, i, t) = {}
  PROVE  \A f \in DOMAIN Pins : h[f] = Pins[f] /\ (t[f] = Pins[f] \/ t[f] = Absent)
<1>1. SUFFICES h["bench"] = "bench0" /\ (t["bench"] = "bench0" \/ t["bench"] = Absent)
  BY PinsFacts
<1>2. h["bench"] = "bench0" /\ "bench" \notin StatusPaths(h, i, t)
  BY PinsFacts DEF PinViolations
<1>3. "bench" \in Files
  BY DEF Files
<1>4. i["bench"] = t["bench"] /\ (h["bench"] = i["bench"] \/ Renamed("bench", h, i))
  BY <1>2, <1>3 DEF StatusPaths
<1> QED
  BY <1>2, <1>4 DEF Renamed

LEMMA CleanIsScreened ==
  ASSUME NEW h \in Commits, NEW i \in Stages, NEW t \in Trees, NEW allow \in BOOLEAN,
         NEW j, Verdict(h, j, t, allow) = "clean"
  PROVE  Screened(h, t, Suspicions(h, t, allow))
<1>1. PinViolations(h, j, t) = {} /\ Violations(h, t, allow) = {}
  BY DEF Verdict
<1>2. \A f \in DOMAIN Pins : h[f] = Pins[f] /\ (t[f] = Pins[f] \/ t[f] = Absent)
  BY <1>1, PinsHold
<1>3. ~Adds(h, t, "skip") /\ ("lock" \in Changed(h, t) => allow)
  BY <1>1 DEF Violations
<1>4. "src" \in Files /\ "lock" \in Files
  BY DEF Files
<1>5. h["src"] # "swallow" /\ h["lock"] = "lock0"
  BY WorktreeFacts
<1>6. t["src"] = "skip" => h["src"] = "skip"
  BY <1>3, <1>4 DEF Adds, Changed
<1>7. t["lock"] # "lock0" => "dependency-change" \in Suspicions(h, t, allow)
  BY <1>3, <1>4, <1>5 DEF Changed, Suspicions
<1>8. t["src"] = "swallow" => "suppressed-errors" \in Suspicions(h, t, allow)
  BY <1>4, <1>5 DEF Adds, Changed, Suspicions
<1>9. Base["lock"] = "lock0"
  BY DEF Base
<1> QED
  BY <1>2, <1>6, <1>7, <1>8, <1>9 DEF Screened

-----------------------------------------------------------------------------
(* An accepted experiment has its evidence *)

LEMMA AppendKeeps ==
  ASSUME NEW S, NEW q \in Seq(S), NEW e \in S
  PROVE  Append(q, e) \in Seq(S)
OBVIOUS

\* Every gate passed, and no withheld case failed.
Checked ==
  /\ Len(gates) = Gates /\ \A k \in 1..Gates : gates[k]
  /\ withheld \in {"passed", "not configured"}

\* What each phase leaves to the later ones.  The evidence that was gathered
\* stands, because no later phase writes what an earlier one has judged.
SoundInv ==
  /\ gates \in Seq(BOOLEAN)
  /\ withheld \in {"none", "not configured", "passed", "failed"}
  /\ phase \in {"agent", "screen", "measure", "gates", "judge", "accepted"}
       => Stable(baseline)
  /\ phase \in {"measure", "gates", "judge", "accepted"} => Screened(head, tree, risks)
  /\ phase \in {"judge", "accepted"} => Checked
  /\ phase = "accepted" =>
       /\ grade = "equivalent" => withheld = "passed"
       /\ grade # "measured" => Stable(samples)

LEMMA SoundInvInit == Init => SoundInv
<1> SUFFICES ASSUME Init
             PROVE  SoundInv
  OBVIOUS
<1>1. gates = <<>> /\ <<>> \in Seq(BOOLEAN) /\ withheld = "none" /\ phase = "baseline"
  BY DEF Init, ScreenInit
<1> QED
  BY <1>1 DEF SoundInv

LEMMA SoundInvNext == SoundInv /\ [Next]_vars => SoundInv'
<1> SUFFICES ASSUME SoundInv, [Next]_vars
             PROVE  SoundInv'
  OBVIOUS
<1>1. CASE MeasureBaseline
  <2>1. UNCHANGED screenVars /\ ((phase' = "agent" /\ Stable(baseline')) \/ phase' = "aborted")
    BY <1>1 DEF MeasureBaseline
  <2> QED
    BY <2>1 DEF SoundInv, screenVars
<1>2. CASE CallAgent \/ Interrupt
  BY <1>2 DEF CallAgent, Interrupt, SoundInv, screenVars, harnessVars, Checked
<1>3. CASE AgentDone
  <2>1. /\ phase = "agent" /\ phase' \in {"screen", "failed"}
        /\ UNCHANGED <<screenVars, baseline>>
    BY <1>3 DEF AgentDone
  <2> QED
    BY <2>1 DEF SoundInv, screenVars
<1>4. CASE ScreenCandidate
  <2>1. PICK h \in Commits, i \in Stages, t \in Trees, allow \in BOOLEAN :
          LET v == Verdict(h, [i EXCEPT !.src = h.src], t, allow) IN
          /\ verdict' = v
          /\ IF v = "clean" THEN head' = h /\ tree' = t /\ risks' = Suspicions(h, t, allow)
             ELSE UNCHANGED <<head, tree, risks>>
          /\ UNCHANGED <<index, gates, withheld>>
    BY <1>4 DEF ScreenCandidate, Screen
  <2>2. /\ phase = "screen" /\ baseline' = baseline
        /\ phase' = IF verdict' = "clean" THEN "measure" ELSE "rejected"
    BY <1>4 DEF ScreenCandidate
  <2>3. CASE verdict' = "clean"
    <3>1. Screened(head', tree', risks')
      BY <2>1, <2>3, CleanIsScreened
    <3> QED
      BY <2>1, <2>2, <2>3, <3>1 DEF SoundInv
  <2>4. CASE verdict' # "clean"
    BY <2>1, <2>2, <2>4 DEF SoundInv
  <2> QED
    BY <2>3, <2>4
<1>5. CASE Measure
  <2>1. phase = "measure" /\ phase' = phase /\ UNCHANGED <<screenVars, baseline>>
    BY <1>5 DEF Measure
  <2> QED
    BY <2>1 DEF SoundInv, screenVars, worktreeVars
<1>6. CASE MeasureDone
  <2>1. /\ phase = "measure" /\ phase' \in {"rejected", "gates"}
        /\ UNCHANGED <<screenVars, baseline>>
    BY <1>6 DEF MeasureDone
  <2> QED
    BY <2>1 DEF SoundInv, screenVars, worktreeVars
<1>7. CASE Check
  <2>1. phase = "gates" /\ UNCHANGED <<worktreeVars, risks, baseline>>
    BY <1>7 DEF Check, RunGate, RunWithheld, screenVars
  <2>2. CASE RunGate /\ UNCHANGED phase
    <3>1. PICK pass \in BOOLEAN : gates' = Append(gates, pass)
      BY <2>2 DEF RunGate
    <3>2. gates' \in Seq(BOOLEAN)
      BY <3>1, AppendKeeps DEF SoundInv
    <3> QED
      BY <2>1, <2>2, <3>2 DEF SoundInv, RunGate, worktreeVars
  <2>3. CASE phase' = "rejected" /\ UNCHANGED screenVars
    BY <2>1, <2>3 DEF SoundInv, screenVars
  <2>4. CASE RunWithheld /\ UNCHANGED phase
    <3>1. gates' = gates /\ withheld' \in {"not configured", "passed", "failed"}
      BY <2>4 DEF RunWithheld
    <3> QED
      BY <2>1, <2>4, <3>1 DEF SoundInv, worktreeVars
  <2>5. CASE /\ GatesDone /\ ~GateFailed /\ withheld \notin {"none", "failed"}
             /\ phase' = "judge" /\ UNCHANGED screenVars
    <3>1. Len(gates) = Gates /\ \A k \in 1..Gates : gates[k]
      BY <2>5 DEF GatesDone, GateFailed
    <3>2. Checked'
      BY <2>5, <3>1 DEF Checked, SoundInv, screenVars
    <3> QED
      BY <2>1, <2>5, <3>2 DEF SoundInv, screenVars, worktreeVars
  <2> QED
    BY <1>7, <2>2, <2>3, <2>4, <2>5 DEF Check
<1>8. CASE Judge
  <2>1. /\ phase = "judge" /\ UNCHANGED <<screenVars, samples, baseline>>
        /\ \/ phase' = "rejected"
           \/ /\ phase' = "accepted"
              /\ grade' = IF ~Stable(samples) THEN "measured"
                          ELSE IF withheld = "passed" THEN "equivalent" ELSE "validated"
    BY <1>8 DEF Judge, harnessVars
  <2> QED
    BY <2>1 DEF SoundInv, screenVars, worktreeVars, Checked
<1>9. CASE UNCHANGED vars
  BY <1>9 DEF vars, screenVars, worktreeVars, harnessVars, SoundInv, Checked
<1>10. CASE Hold
  <2>1. phase' = "held" /\ UNCHANGED <<screenVars, baseline, samples, grade>>
    BY <1>10 DEF Hold, harnessVars
  <2> QED
    BY <2>1 DEF SoundInv, screenVars
<1> QED
  BY <1>1, <1>2, <1>3, <1>4, <1>5, <1>6, <1>7, <1>8, <1>9, <1>10 DEF Next

\* Whatever the agent leaves in its worktree, and whatever comes of the
\* measurement and the checks: an experiment that is accepted has passed all
\* of them, on the files it is accepted with, and was compared with a stable
\* baseline; its grade claims no more.
THEOREM EvidenceSound == Spec => []AcceptedIsSound
<1>1. SoundInv => AcceptedIsSound
  BY DEF SoundInv, AcceptedIsSound, Screened, Checked
<1>2. QED
  BY <1>1, SoundInvInit, SoundInvNext, PTL DEF Spec

-----------------------------------------------------------------------------
(* No application is left running *)

\* An application has a leader; before it starts there is neither; after
\* SIGTERM it is gone or deaf.
ServerInv ==
  /\ stage \in {"idle", "port"} => leader = "none"
  /\ leader = "none" => app = "none"
  /\ stage = "term" => leader # "none"
  /\ stage = "kill" => app = "gone" \/ server.stubborn
  /\ ServersStopped

LEMMA ServerInvInit == Init => ServerInv
BY DEF Init, HarnessInit, ServerInv, ServersStopped

LEMMA MeasureStepStops == ServerInv /\ (MeasureStep \/ Environment) => ServerInv'
<1> SUFFICES ASSUME ServerInv, MeasureStep \/ Environment
             PROVE  ServerInv'
  OBVIOUS
<1> USE DEF ServerInv, ServersStopped, To, Working
<1>1. CASE SetUp \/ Ready \/ Warm \/ TakeSample
  BY <1>1 DEF SetUp, Ready, Warm, TakeSample
<1>2. CASE StartServer
  BY <1>2 DEF StartServer
<1>3. CASE Fail \/ Measured
  BY <1>3 DEF Fail, Measured
<1>4. CASE Terminate
  BY <1>4 DEF Terminate
<1>5. CASE ForceKill
  BY <1>5 DEF ForceKill
<1>6. CASE Bind \/ PortTaken
  BY <1>6 DEF Bind, PortTaken
<1>7. CASE ServerEnds \/ ShellEnds
  BY <1>7 DEF ServerEnds, ShellEnds
<1> QED
  BY <1>1, <1>2, <1>3, <1>4, <1>5, <1>6, <1>7 DEF MeasureStep, Environment

LEMMA ServerInvNext == ServerInv /\ [Next]_vars => ServerInv'
<1> SUFFICES ASSUME ServerInv, [Next]_vars
             PROVE  ServerInv'
  OBVIOUS
<1>1. CASE Measure
  BY <1>1, MeasureStepStops DEF Measure
<1>2. CASE MeasureDone
  BY <1>2 DEF MeasureDone, ServerInv, ServersStopped
<1>3. CASE UNCHANGED harnessVars
  BY <1>3 DEF harnessVars, ServerInv, ServersStopped
<1> QED
  BY <1>1, <1>2, <1>3
     DEF Next, vars, MeasureBaseline, CallAgent, Interrupt, AgentDone, ScreenCandidate,
         Check, Judge, Hold

\* At whatever moment a measurement fails or ends, and however application and
\* shell have ended by then: no application runs on, but for a deaf one whose
\* shell had left an exit code.
THEOREM ServersAllStopped == Spec => []ServersStopped
<1>1. ServerInv => ServersStopped
  BY DEF ServerInv
<1>2. QED
  BY <1>1, ServerInvInit, ServerInvNext, PTL DEF Spec

-----------------------------------------------------------------------------
(* Induction, numbers and bytes *)

\* Induction, on a set rather than on a predicate: a least natural number
\* outside of the set cannot exist.
LEMMA NaturalInduction ==
  ASSUME NEW S, 0 \in S, \A k \in Nat : k \in S => k + 1 \in S
  PROVE  Nat \subseteq S
<1> SUFFICES ASSUME Nat \ S # {}
             PROVE  FALSE
  OBVIOUS
<1>1. PICK least \in Nat \ S : \A k \in Nat \ S : ~(<<k, least>> \in OpToRel(<, Nat))
  BY NatLessThanWellFounded, WFMin
<1>2. \A k \in Nat \ S : ~(k < least)
  BY <1>1 DEF OpToRel
<1>3. least \in Nat /\ least \notin S /\ least # 0
  BY <1>1
<1>4. least - 1 \in Nat /\ least - 1 < least /\ (least - 1) + 1 = least
  BY <1>3
<1> QED
  BY <1>2, <1>3, <1>4

LEMMA HalfFacts ==
  ASSUME NEW n \in Nat
  PROVE  /\ n \div 2 \in Nat
         /\ n = 2 * (n \div 2) \/ n = 2 * (n \div 2) + 1
         /\ Newline(n) <=> n = 2 * (n \div 2)
BY DEF Newline

LEMMA NextHalf ==
  ASSUME NEW n \in Nat
  PROVE  /\ Newline(n + 1) <=> (n + 1) \div 2 = (n \div 2) + 1
         /\ Newline(n + 1) <=> n = 2 * (n \div 2) + 1
         /\ ~Newline(n + 1) => (n + 1) \div 2 = n \div 2 /\ n = 2 * (n \div 2)
BY DEF Newline

LEMMA BytesFacts ==
  ASSUME NEW first \in Nat, NEW last \in Nat, first <= last + 1
  PROVE  /\ Bytes(first, last) \in Seq(Nat)
         /\ Len(Bytes(first, last)) = last + 1 - first
         /\ \A i \in 1..(last + 1 - first) : Bytes(first, last)[i] = first + i - 1
<1>1. last + 1 - first \in Nat /\ \A i \in 1..(last + 1 - first) : first + i - 1 \in Nat
  OBVIOUS
<1> QED
  BY <1>1 DEF Bytes

LEMMA NoBytes ==
  ASSUME NEW n \in Nat
  PROVE  Bytes(n + 1, n) = <<>>
<1>1. Bytes(n + 1, n) \in Seq(Nat) /\ Len(Bytes(n + 1, n)) = 0
  BY BytesFacts
<1> QED
  BY <1>1

LEMMA BytesAppend ==
  ASSUME NEW first \in Nat, NEW last \in Nat, first <= last + 1
  PROVE  Append(Bytes(first, last), last + 1) = Bytes(first, last + 1)
<1> DEFINE b == Bytes(first, last)
           c == Bytes(first, last + 1)
<1>1. /\ b \in Seq(Nat) /\ Len(b) = last + 1 - first
      /\ \A i \in 1..(last + 1 - first) : b[i] = first + i - 1
  BY BytesFacts
<1>2. /\ c \in Seq(Nat) /\ Len(c) = last + 2 - first
      /\ \A i \in 1..(last + 2 - first) : c[i] = first + i - 1
  <2>1. last + 1 \in Nat /\ first <= (last + 1) + 1
    OBVIOUS
  <2> QED
    BY <2>1, BytesFacts
<1> HIDE DEF b, c
<1>3. /\ Append(b, last + 1) \in Seq(Nat) /\ Len(Append(b, last + 1)) = Len(b) + 1
      /\ \A i \in 1..(Len(b) + 1) :
           Append(b, last + 1)[i] = IF i = Len(b) + 1 THEN last + 1 ELSE b[i]
  BY <1>1
<1>4. \A i \in 1..Len(c) : Append(b, last + 1)[i] = c[i]
  BY <1>1, <1>2, <1>3
<1>5. Len(Append(b, last + 1)) = Len(c)
  BY <1>1, <1>2, <1>3
<1>6. Append(b, last + 1) = c
  BY <1>2, <1>3, <1>4, <1>5, SeqEqual
<1> QED
  BY <1>6 DEF b, c

-----------------------------------------------------------------------------
(* The lines of a chunk *)

\* Line i of an agent, as bytes.
LineBytes(i) == Bytes(2 * i - 1, 2 * i)

\* What a chunk adds to what was handed over up to byte a, when it ends at b.
FedUpTo(a, b) ==
  [lines |-> [i \in 1..((b \div 2) - (a \div 2)) |-> LineBytes((a \div 2) + i)],
   carry |-> Bytes(2 * (b \div 2) + 1, b)]

\* One byte more: a newline ends the line that is carried.
LEMMA FedStep ==
  ASSUME NEW a \in Nat, NEW b \in Nat, a <= b
  PROVE  FedUpTo(a, b + 1) =
           LET before == FedUpTo(a, b)
               carried == Append(before.carry, b + 1)
           IN IF Newline(b + 1)
                THEN [lines |-> Append(before.lines, carried), carry |-> <<>>]
                ELSE [lines |-> before.lines, carry |-> carried]
<1> DEFINE x == a \div 2
           y == b \div 2
           z == (b + 1) \div 2
           l == FedUpTo(a, b).lines
           carried == Append(FedUpTo(a, b).carry, b + 1)
<1>1. /\ x \in Nat /\ y \in Nat /\ z \in Nat /\ x <= y
      /\ b = 2 * y \/ b = 2 * y + 1
  BY HalfFacts
<1>2. carried = Bytes(2 * y + 1, b + 1)
  <2>1. 2 * y + 1 \in Nat /\ 2 * y + 1 <= b + 1
    BY <1>1
  <2> QED
    BY <2>1, BytesAppend DEF FedUpTo
<1>3. l = [i \in 1..(y - x) |-> LineBytes(x + i)]
  BY DEF FedUpTo
<1>4. CASE Newline(b + 1)
  <2>1. z = y + 1 /\ b = 2 * y + 1
    BY <1>4, NextHalf
  <2>2. Bytes(2 * z + 1, b + 1) = <<>>
    <3>1. 2 * z + 1 = (b + 1) + 1
      BY <1>1, <2>1
    <3> QED
      BY <3>1, NoBytes
  <2>3. carried = LineBytes(z)
    <3>1. 2 * z - 1 = 2 * y + 1 /\ 2 * z = b + 1
      BY <1>1, <2>1
    <3> QED
      BY <1>2, <3>1 DEF LineBytes
  <2>4. [i \in 1..(z - x) |-> LineBytes(x + i)] = Append(l, LineBytes(z))
    <3> DEFINE t == [i \in 1..(z - x) |-> LineBytes(x + i)]
               Lines == {LineBytes(i) : i \in Nat}
    <3>1. y - x \in Nat /\ z - x = (y - x) + 1 /\ x + (z - x) = z
      BY <1>1, <2>1
    <3>2. l \in Seq(Lines) /\ Len(l) = y - x /\ \A i \in 1..(y - x) : l[i] = LineBytes(x + i)
      <4>1. \A i \in 1..(y - x) : LineBytes(x + i) \in Lines
        BY <1>1
      <4> QED
        BY <1>3, <3>1, <4>1
    <3>3. t \in Seq(Lines) /\ Len(t) = z - x /\ \A i \in 1..(z - x) : t[i] = LineBytes(x + i)
      <4>1. \A i \in 1..(z - x) : LineBytes(x + i) \in Lines
        BY <1>1
      <4>2. z - x \in Nat
        BY <3>1
      <4> QED
        BY <4>1, <4>2
    <3>4. LineBytes(z) \in Lines
      BY <1>1
    <3> HIDE DEF l, t, Lines
    <3>5. /\ Append(l, LineBytes(z)) \in Seq(Lines) /\ Len(Append(l, LineBytes(z))) = Len(l) + 1
          /\ \A i \in 1..(Len(l) + 1) :
               Append(l, LineBytes(z))[i] = IF i = Len(l) + 1 THEN LineBytes(z) ELSE l[i]
      BY <3>2, <3>4
    <3>6. Len(t) = Len(Append(l, LineBytes(z)))
      BY <3>1, <3>2, <3>3, <3>5
    <3>7. ASSUME NEW i \in 1..Len(t)
          PROVE  t[i] = Append(l, LineBytes(z))[i]
      <4>1. i \in 1..(y - x) \/ i = z - x
        BY <3>1, <3>3
      <4> QED
        BY <3>1, <3>2, <3>3, <3>5, <4>1
    <3>8. t = Append(l, LineBytes(z))
      BY <3>3, <3>5, <3>6, <3>7, SeqEqual
    <3> QED
      BY <3>8 DEF t
  <2> QED
    BY <1>4, <2>2, <2>3, <2>4 DEF FedUpTo
<1>5. CASE ~Newline(b + 1)
  <2>1. z = y
    BY <1>5, NextHalf
  <2> QED
    BY <1>2, <1>3, <1>5, <2>1 DEF FedUpTo
<1> QED
  BY <1>4, <1>5

\* However the bytes a + 1 .. a + n are split off: they complete the lines that
\* end among them, whose beginning is in the carry or in the chunk.
LEMMA SplitBytes ==
  ASSUME NEW a \in Nat, NEW n \in Nat
  PROVE  Feed(Bytes(2 * (a \div 2) + 1, a), Bytes(a + 1, a + n)) = FedUpTo(a, a + n)
<1> DEFINE left == Bytes(2 * (a \div 2) + 1, a)
           chunk == Bytes(a + 1, a + n)
           Next1(f, k) ==
             IF k = 0 THEN [lines |-> <<>>, carry |-> left]
             ELSE LET before == f[k - 1]
                      carried == Append(before.carry, chunk[k])
                  IN IF Newline(chunk[k])
                       THEN [lines |-> Append(before.lines, carried), carry |-> <<>>]
                       ELSE [lines |-> before.lines, carry |-> carried]
           upto == CHOOSE f : f = [k \in 0..Len(chunk) |-> Next1(f, k)]
           fed == [k \in 0..n |-> FedUpTo(a, a + k)]
<1>1. Feed(left, chunk) = upto[Len(chunk)]
  BY DEF Feed, Split
<1>2. Len(chunk) = n /\ \A k \in 1..n : chunk[k] = a + k
  <2>1. /\ a + 1 \in Nat /\ a + n \in Nat /\ a + 1 <= (a + n) + 1
        /\ (a + n) + 1 - (a + 1) = n
        /\ \A k \in 1..n : (a + 1) + k - 1 = a + k
    OBVIOUS
  <2> HIDE DEF left
  <2> QED
    BY <2>1, BytesFacts
<1>3. FedUpTo(a, a + 0) = [lines |-> <<>>, carry |-> left]
  <2>1. a + 0 = a /\ (a \div 2) - (a \div 2) = 0
    BY HalfFacts
  <2>2. FedUpTo(a, a).lines = <<>>
    BY <2>1 DEF FedUpTo
  <2> QED
    BY <2>1, <2>2 DEF FedUpTo
<1>4. ASSUME NEW k \in 1..n, NEW f, f[k - 1] = FedUpTo(a, a + (k - 1))
      PROVE  Next1(f, k) = FedUpTo(a, a + k)
  <2>1. /\ k # 0 /\ a + (k - 1) \in Nat /\ a <= a + (k - 1) /\ (a + (k - 1)) + 1 = a + k
        /\ chunk[k] = a + k
    BY <1>2
  <2> HIDE DEF left, chunk
  <2>2. FedUpTo(a, a + k) =
           LET before == FedUpTo(a, a + (k - 1))
               carried == Append(before.carry, a + k)
           IN IF Newline(a + k)
                THEN [lines |-> Append(before.lines, carried), carry |-> <<>>]
                ELSE [lines |-> before.lines, carry |-> carried]
    BY <2>1, FedStep
  <2> QED
    BY <1>4, <2>1, <2>2
<1> HIDE DEF left, chunk
<1>5. fed = [k \in 0..n |-> Next1(fed, k)]
  <2>1. ASSUME NEW k \in 0..n
        PROVE  FedUpTo(a, a + k) = Next1(fed, k)
    <3>1. CASE k = 0
      BY <1>3, <3>1
    <3>2. CASE k # 0
      <4>1. k \in 1..n /\ k - 1 \in 0..n
        BY <3>2
      <4>2. fed[k - 1] = FedUpTo(a, a + (k - 1))
        BY <4>1
      <4> HIDE DEF fed, Next1
      <4> QED
        BY <1>4, <4>1, <4>2
    <3> QED
      BY <3>1, <3>2
  <2> HIDE DEF Next1
  <2> QED
    BY <2>1
<1>6. upto = [k \in 0..n |-> Next1(upto, k)]
  <2>1. \E f : f = [k \in 0..Len(chunk) |-> Next1(f, k)]
    <3> HIDE DEF fed, Next1
    <3> QED
      BY <1>2, <1>5
  <2> HIDE DEF Next1
  <2> QED
    BY <1>2, <2>1
<1> HIDE DEF upto
<1> DEFINE S == {k \in Nat : k <= n => upto[k] = FedUpTo(a, a + k)}
<1>7. 0 \in S
  <2>1. upto[0] = Next1(upto, 0)
    <3> HIDE DEF Next1
    <3> QED
      BY <1>6
  <2> QED
    BY <1>3, <2>1
<1>8. ASSUME NEW k \in Nat, k \in S
      PROVE  k + 1 \in S
  <2>1. SUFFICES ASSUME k + 1 <= n
                 PROVE  upto[k + 1] = FedUpTo(a, a + (k + 1))
    OBVIOUS
  <2>2. k + 1 \in 1..n /\ k + 1 \in 0..n /\ (k + 1) - 1 = k /\ upto[k] = FedUpTo(a, a + k)
    BY <1>8, <2>1
  <2> HIDE DEF Next1, S
  <2>3. upto[k + 1] = Next1(upto, k + 1)
    BY <1>6, <2>2
  <2> QED
    BY <1>4, <2>2, <2>3
<1>9. n \in S
  <2> HIDE DEF S
  <2> QED
    BY <1>7, <1>8, NaturalInduction
<1> QED
  BY <1>1, <1>2, <1>9 DEF left, chunk

-----------------------------------------------------------------------------
(* What the adapter remembers *)

\* The results among the first m lines, the last of them, and what is left in
\* the adapter's memory by all that was heard up to line m.
ResultsTo(m) == {i \in 1..m : lines[i] \in {"result", "error"}}

LastTo(m) == CHOOSE i \in ResultsTo(m) : \A j \in ResultsTo(m) : j <= i

Recall(m) ==
  IF host = "claude-code" /\ ResultsTo(m) # {}
    THEN [sawResult |-> TRUE, isError |-> lines[LastTo(m)] = "error", cost |-> 1]
    ELSE Unheard

LEMMA RecallStep ==
  ASSUME NEW m \in Nat
  PROVE  OnEvent(Recall(m), LineBytes(m + 1)) = Recall(m + 1)
<1>1. /\ Len(LineBytes(m + 1)) = 2
      /\ LineBytes(m + 1)[1] = 2 * m + 1 /\ LineBytes(m + 1)[2] = 2 * m + 2
  <2>1. 2 * (m + 1) - 1 = 2 * m + 1 /\ 2 * (m + 1) = 2 * m + 2
    OBVIOUS
  <2>2. /\ 2 * m + 1 \in Nat /\ 2 * m + 2 \in Nat /\ 2 * m + 1 <= (2 * m + 2) + 1
        /\ (2 * m + 2) + 1 - (2 * m + 1) = 2
        /\ (2 * m + 1) + 1 - 1 = 2 * m + 1 /\ (2 * m + 1) + 2 - 1 = 2 * m + 2
    OBVIOUS
  <2>3. /\ Len(Bytes(2 * m + 1, 2 * m + 2)) = 2
        /\ \A i \in 1..2 : Bytes(2 * m + 1, 2 * m + 2)[i] = (2 * m + 1) + i - 1
    BY <2>2, BytesFacts
  <2> QED
    BY <2>1, <2>2, <2>3 DEF LineBytes
<1>2. Parsed(LineBytes(m + 1)) = lines[m + 1]
  <2>1. 2 * m + 2 = (2 * m + 1) + 1 /\ (2 * m + 2) \div 2 = m + 1
    OBVIOUS
  <2> QED
    BY <1>1, <2>1 DEF Parsed
<1>3. CASE lines[m + 1] \in {"result", "error"}
  <2>1. m + 1 \in ResultsTo(m + 1) /\ \A j \in ResultsTo(m + 1) : j <= m + 1
    BY <1>3 DEF ResultsTo
  <2>2. LastTo(m + 1) = m + 1
    <3>1. \A i \in ResultsTo(m + 1) :
            (\A j \in ResultsTo(m + 1) : j <= i) => i = m + 1
      BY <2>1 DEF ResultsTo
    <3> QED
      BY <2>1, <3>1 DEF LastTo
  <2> QED
    BY <1>2, <1>3, <2>1, <2>2 DEF OnEvent, Recall
<1>4. CASE lines[m + 1] \notin {"result", "error"}
  <2>1. ResultsTo(m + 1) = ResultsTo(m)
    BY <1>4 DEF ResultsTo
  <2> QED
    BY <1>2, <1>4, <2>1 DEF OnEvent, Recall, LastTo
<1> QED
  BY <1>3, <1>4

\* Lines m + 1 .. m + d, one after the other, whatever chunk they came in.
LEMMA HeardLines ==
  ASSUME NEW m \in Nat, NEW d \in Nat
  PROVE  Heard(Recall(m), [i \in 1..d |-> LineBytes(m + i)]) = Recall(m + d)
<1> DEFINE new == [i \in 1..d |-> LineBytes(m + i)]
           Next1(f, k) == IF k = 0 THEN Recall(m) ELSE OnEvent(f[k - 1], new[k])
           after == CHOOSE f : f = [k \in 0..Len(new) |-> Next1(f, k)]
           memory == [k \in 0..d |-> Recall(m + k)]
<1>1. Heard(Recall(m), new) = after[Len(new)]
  BY DEF Heard
<1>2. Len(new) = d /\ \A k \in 1..d : new[k] = LineBytes(m + k)
  OBVIOUS
<1> HIDE DEF new
<1>3. ASSUME NEW k \in 1..d, NEW f, f[k - 1] = Recall(m + (k - 1))
      PROVE  Next1(f, k) = Recall(m + k)
  <2>1. k # 0 /\ m + (k - 1) \in Nat /\ (m + (k - 1)) + 1 = m + k
    OBVIOUS
  <2>2. OnEvent(Recall(m + (k - 1)), LineBytes(m + k)) = Recall(m + k)
    BY <2>1, RecallStep
  <2> QED
    BY <1>2, <1>3, <2>1, <2>2
<1>4. memory = [k \in 0..d |-> Next1(memory, k)]
  <2>1. ASSUME NEW k \in 0..d
        PROVE  Recall(m + k) = Next1(memory, k)
    <3>1. CASE k = 0
      BY <3>1
    <3>2. CASE k # 0
      <4>1. k \in 1..d /\ k - 1 \in 0..d
        BY <3>2
      <4>2. memory[k - 1] = Recall(m + (k - 1))
        BY <4>1
      <4> HIDE DEF memory, Next1
      <4> QED
        BY <1>3, <4>1, <4>2
    <3> QED
      BY <3>1, <3>2
  <2> HIDE DEF Next1
  <2> QED
    BY <2>1
<1>5. after = [k \in 0..d |-> Next1(after, k)]
  <2>1. \E f : f = [k \in 0..Len(new) |-> Next1(f, k)]
    <3> HIDE DEF memory, Next1
    <3> QED
      BY <1>2, <1>4
  <2> HIDE DEF Next1
  <2> QED
    BY <1>2, <2>1
<1> HIDE DEF after
<1> DEFINE S == {k \in Nat : k <= d => after[k] = Recall(m + k)}
<1>6. 0 \in S
  <2>1. after[0] = Next1(after, 0)
    <3> HIDE DEF Next1
    <3> QED
      BY <1>5
  <2>2. m + 0 = m
    OBVIOUS
  <2> QED
    BY <2>1, <2>2
<1>7. ASSUME NEW k \in Nat, k \in S
      PROVE  k + 1 \in S
  <2>1. SUFFICES ASSUME k + 1 <= d
                 PROVE  after[k + 1] = Recall(m + (k + 1))
    OBVIOUS
  <2>2. k + 1 \in 1..d /\ k + 1 \in 0..d /\ (k + 1) - 1 = k /\ after[k] = Recall(m + k)
    BY <1>7, <2>1
  <2> HIDE DEF Next1, S
  <2>3. after[k + 1] = Next1(after, k + 1)
    BY <1>5, <2>2
  <2> QED
    BY <1>3, <2>2, <2>3
<1>8. d \in S
  <2> HIDE DEF S
  <2> QED
    BY <1>6, <1>7, NaturalInduction
<1> QED
  BY <1>1, <1>2, <1>8 DEF new

\* There is a last result, if there is any.
LEMMA LastResult ==
  ASSUME NEW m \in Nat, ResultsTo(m) # {}
  PROVE  LastTo(m) \in ResultsTo(m) /\ \A j \in ResultsTo(m) : j <= LastTo(m)
<1> DEFINE S == {k \in Nat : ResultsTo(k) # {} =>
                   \E i \in ResultsTo(k) : \A j \in ResultsTo(k) : j <= i}
<1>1. 0 \in S
  BY DEF ResultsTo
<1>2. ASSUME NEW k \in Nat, k \in S
      PROVE  k + 1 \in S
  <2>1. CASE lines[k + 1] \in {"result", "error"}
    <3>1. k + 1 \in ResultsTo(k + 1) /\ \A j \in ResultsTo(k + 1) : j <= k + 1
      BY <2>1 DEF ResultsTo
    <3> QED
      BY <3>1
  <2>2. CASE lines[k + 1] \notin {"result", "error"}
    <3>1. ResultsTo(k + 1) = ResultsTo(k)
      BY <2>2 DEF ResultsTo
    <3> QED
      BY <1>2, <3>1
  <2> QED
    BY <2>1, <2>2
<1> HIDE DEF S
<1>3. m \in S
  BY <1>1, <1>2, NaturalInduction
<1>4. \E i \in ResultsTo(m) : \A j \in ResultsTo(m) : j <= i
  BY <1>3 DEF S
<1> QED
  BY <1>4 DEF LastTo

-----------------------------------------------------------------------------
(* The outcome of a call tells the agent's output *)

\* Between two chunks: the carry is the beginning of the line that has begun
\* to arrive, and the adapter knows the lines that have arrived, wherever the
\* earlier chunks ended.
AgentInv ==
  /\ host \in Hosts \cup {"none"} /\ (child # "none" => host # "none")
  /\ child \in {"none", "running", "ok", "failed", "killed"}
  /\ lines \in Seq(LineKinds) /\ written \in Nat /\ read \in Nat
  /\ read <= written /\ written <= 2 * Len(lines)
  /\ carry = Bytes(2 * (read \div 2) + 1, read)
  /\ adapter = Recall(read \div 2)
  /\ timedOut => child = "killed"
  /\ child = "none" => read = 0
  /\ outcome # NoOutcome => child \notin {"none", "running"}
  /\ OutcomeTellsOutput

LEMMA FreshAgent ==
  ASSUME host = "none", child = "none", lines = <<>>, written = 0, read = 0,
         carry = <<>>, adapter = Unheard, timedOut = FALSE, outcome = NoOutcome
  PROVE  AgentInv
<1>1. 0 \div 2 = 0 /\ 2 * 0 + 1 = 0 + 1 /\ Bytes(0 + 1, 0) = <<>>
  BY NoBytes
<1>2. Bytes(2 * (0 \div 2) + 1, 0) = <<>>
  BY <1>1
<1>3. lines \in Seq(LineKinds) /\ Len(lines) = 0
  OBVIOUS
<1>4. adapter = Recall(read \div 2)
  BY DEF Recall
<1> QED
  BY <1>2, <1>3, <1>4 DEF AgentInv, OutcomeTellsOutput

\* A chunk extends the carry and the memory by what it completes.
LEMMA ReceiveKeeps ==
  ASSUME AgentInv, Receive
  PROVE  AgentInv'
<1>1. PICK b \in (read + 1)..written :
        LET fed == Feed(carry, Bytes(read + 1, b)) IN
        /\ read' = b
        /\ carry' = fed.carry
        /\ adapter' = Heard(adapter, fed.lines)
  BY DEF Receive
<1>2. /\ read \in Nat /\ written \in Nat /\ b \in Nat /\ read < b /\ b <= written
      /\ b - read \in Nat /\ read + (b - read) = b
  BY <1>1 DEF AgentInv
<1>3. UNCHANGED <<host, child, lines, written, signal, timedOut, outcome>>
      /\ child # "none" /\ outcome = NoOutcome
  BY DEF Receive
<1>4. Feed(carry, Bytes(read + 1, b)) = FedUpTo(read, b)
  <2>1. Feed(Bytes(2 * (read \div 2) + 1, read), Bytes(read + 1, read + (b - read)))
          = FedUpTo(read, read + (b - read))
    BY <1>2, SplitBytes
  <2> QED
    BY <1>2, <2>1 DEF AgentInv
<1>5. carry' = Bytes(2 * (b \div 2) + 1, b)
  BY <1>1, <1>4 DEF FedUpTo
<1>6. adapter' = Recall(b \div 2)
  <2> DEFINE x == read \div 2
             y == b \div 2
  <2>1. x \in Nat /\ y \in Nat /\ y - x \in Nat /\ x + (y - x) = y
    <3>1. x \in Nat /\ y \in Nat /\ x <= y
      BY <1>2, HalfFacts
    <3> QED
      BY <3>1
  <2>2. adapter' = Heard(Recall(x), [i \in 1..(y - x) |-> LineBytes(x + i)])
    BY <1>1, <1>4 DEF FedUpTo, AgentInv
  <2> HIDE DEF x, y
  <2>3. adapter' = Recall(y)
    BY <2>1, <2>2, HeardLines
  <2> QED
    BY <2>3 DEF y
<1>7. Recall(b \div 2)' = Recall(b \div 2)
  BY <1>3 DEF Recall, ResultsTo, LastTo
<1>8. OutcomeTellsOutput'
  BY <1>3 DEF OutcomeTellsOutput
<1> QED
  BY <1>1, <1>2, <1>3, <1>5, <1>6, <1>7, <1>8 DEF AgentInv

\* The call returns when all that was written has been heard.
LEMMA ReturnTells ==
  ASSUME AgentInv, Return
  PROVE  OutcomeTellsOutput'
<1> DEFINE m == written \div 2
           whole == {i \in 1..Len(lines) : 2 * i <= written}
           results == {i \in whole : lines[i] \in {"result", "error"}}
           good == \E i \in results : lines[i] = "result" /\ \A j \in results : j <= i
<1>1. /\ m \in Nat /\ 2 * m <= written /\ written <= 2 * m + 1
      /\ written <= 2 * Len(lines) /\ Len(lines) \in Nat
  BY HalfFacts DEF AgentInv
<1>2. \A i \in Nat : i <= Len(lines) /\ 2 * i <= written <=> i <= m
  BY <1>1 DEF AgentInv
<1>3. results = ResultsTo(m)
  <2>1. whole = 1..m
    BY <1>1, <1>2
  <2> QED
    BY <2>1 DEF ResultsTo
<1>4. adapter = Recall(m)
  BY DEF AgentInv, Return
<1>5. host = "claude-code" =>
        /\ adapter.sawResult <=> results # {}
        /\ results # {} => (good <=> ~adapter.isError)
        /\ adapter.cost = IF results # {} THEN 1 ELSE 0
  <2>1. CASE results = {}
    BY <1>3, <1>4, <2>1 DEF Recall, Unheard
  <2>2. CASE results # {}
    <3>1. LastTo(m) \in results /\ \A j \in results : j <= LastTo(m)
      BY <1>1, <1>3, <2>2, LastResult
    <3>2. \A i \in results : (\A j \in results : j <= i) => i = LastTo(m)
      BY <3>1
    <3>3. good <=> lines[LastTo(m)] = "result"
      BY <3>1, <3>2
    <3>4. lines[LastTo(m)] \in {"result", "error"}
      BY <3>1
    <3> QED
      BY <1>3, <1>4, <2>2, <3>3, <3>4 DEF Recall
  <2> QED
    BY <2>1, <2>2
<1>6. host # "claude-code" => adapter.cost = 0
  BY <1>4 DEF Recall, Unheard
<1>7. results = {} => ~good
  OBVIOUS
<1>8. host \in Hosts /\ child \in {"ok", "failed", "killed"} /\ (timedOut => child = "killed")
  BY DEF AgentInv, Return
<1>9. /\ outcome' = [reason |-> Reason, cost |-> adapter.cost]
      /\ UNCHANGED <<host, child, lines, written, signal>>
  BY DEF Return
<1> HIDE DEF good, results
<1>10. Reason = "cancelled" \/ (Reason = "completed" <=> child = "ok" /\ (host = "codex" \/ good))
  BY <1>5, <1>7, <1>8 DEF Reason, Hosts
<1>11. Reason = "cancelled" => signal
  BY DEF Reason
<1>12. adapter.cost = IF host = "claude-code" /\ results # {} THEN 1 ELSE 0
  BY <1>5, <1>6
<1> QED
  BY <1>9, <1>10, <1>11, <1>12 DEF OutcomeTellsOutput, good, results

LEMMA AgentStepKeeps == AgentInv /\ (AgentStep \/ (outcome = NoOutcome /\ Abort)) => AgentInv'
<1> SUFFICES ASSUME AgentInv, AgentStep \/ (outcome = NoOutcome /\ Abort)
             PROVE  AgentInv'
  OBVIOUS
<1>1. ASSUME UNCHANGED <<lines, read, carry, adapter>>, host' = host \/ read = 0
      PROVE  adapter' = Recall(read \div 2)'
  <2>1. 0 \div 2 = 0
    OBVIOUS
  <2>2. CASE host' = host
    BY <1>1, <2>2 DEF AgentInv, Recall, ResultsTo, LastTo
  <2>3. CASE read = 0
    BY <1>1, <2>1, <2>3 DEF AgentInv, Recall, ResultsTo
  <2> QED
    BY <1>1, <2>2, <2>3
<1>2. CASE ChooseHost
  <2>1. host' \in Hosts
    BY <1>2 DEF ChooseHost, PickHost, Hosts
  <2>2. /\ UNCHANGED <<child, lines, written, read, carry, adapter, timedOut, outcome>>
        /\ host = "none"
    BY <1>2 DEF ChooseHost
  <2>3. child = "none" /\ read = 0 /\ outcome = NoOutcome
    BY <2>2 DEF AgentInv
  <2>4. adapter' = Recall(read \div 2)'
    BY <1>1, <2>2, <2>3
  <2> QED
    BY <2>1, <2>2, <2>3, <2>4 DEF AgentInv, OutcomeTellsOutput
<1>3. CASE Spawn
  <2>1. adapter' = Recall(read \div 2)'
    BY <1>1, <1>3 DEF Spawn
  <2> QED
    BY <1>3, <2>1 DEF Spawn, AgentInv, OutcomeTellsOutput
<1>4. CASE Write
  <2>1. /\ UNCHANGED <<host, child, read, carry, adapter, timedOut, outcome>>
        /\ child = "running" /\ written' = written + 1
    BY <1>4 DEF Write
  <2>2. /\ lines' \in Seq(LineKinds) /\ written' <= 2 * Len(lines')
        /\ \A i \in 1..Len(lines) : lines'[i] = lines[i]
    <3>1. lines \in Seq(LineKinds) /\ Len(lines) \in Nat /\ written \in Nat
      BY DEF AgentInv
    <3>2. CASE lines' = lines /\ written < 2 * Len(lines)
      BY <2>1, <3>1, <3>2
    <3>3. ASSUME NEW kind \in LineKinds, lines' = Append(lines, kind),
                 written = 2 * Len(lines)
          PROVE  <2>2!1 /\ <2>2!2
      <4>1. /\ lines' \in Seq(LineKinds) /\ Len(lines') = Len(lines) + 1
            /\ \A i \in 1..Len(lines) : lines'[i] = lines[i]
        BY <3>1, <3>3
      <4> QED
        BY <2>1, <3>1, <3>3, <4>1
    <3> QED
      BY <1>4, <3>2, <3>3 DEF Write
  <2>3. read \div 2 \in Nat /\ read \div 2 <= Len(lines)
    <3>1. /\ read \div 2 \in Nat /\ 2 * (read \div 2) <= read
          /\ read <= written /\ written <= 2 * Len(lines) /\ Len(lines) \in Nat
          /\ read \in Nat /\ written \in Nat
      BY HalfFacts DEF AgentInv
    <3> QED
      BY <3>1
  <2>4. ResultsTo(read \div 2)' = ResultsTo(read \div 2)
        /\ \A i \in ResultsTo(read \div 2) : lines'[i] = lines[i]
    <3>1. \A i \in 1..(read \div 2) : lines'[i] = lines[i]
      BY <2>2, <2>3 DEF AgentInv
    <3> QED
      BY <2>1, <3>1 DEF ResultsTo
  <2>5. Recall(read \div 2)' = Recall(read \div 2)
    <3>1. LastTo(read \div 2)' = LastTo(read \div 2)
      BY <2>4 DEF LastTo
    <3>2. ResultsTo(read \div 2) # {} => LastTo(read \div 2) \in ResultsTo(read \div 2)
      BY <2>3, LastResult
    <3> QED
      BY <2>1, <2>4, <3>1, <3>2 DEF Recall
  <2>6. OutcomeTellsOutput'
    BY <2>1 DEF AgentInv, OutcomeTellsOutput
  <2> QED
    BY <2>1, <2>2, <2>5, <2>6 DEF AgentInv
<1>5. CASE Receive
  BY <1>5, ReceiveKeeps
<1>6. CASE Exit \/ Timeout \/ (outcome = NoOutcome /\ Abort)
  <2>1. /\ UNCHANGED <<host, lines, written, read, carry, adapter, outcome>>
        /\ child' = child \/ (child = "running" /\ child' \in {"ok", "failed", "killed"})
        /\ timedOut' => child' = "killed"
        /\ outcome = NoOutcome
    BY <1>6 DEF Exit, Timeout, Abort, AgentInv
  <2>2. adapter' = Recall(read \div 2)'
    BY <1>1, <2>1
  <2> QED
    BY <2>1, <2>2 DEF AgentInv, OutcomeTellsOutput
<1>7. CASE Return
  <2>1. adapter' = Recall(read \div 2)'
    BY <1>1, <1>7 DEF Return
  <2> QED
    BY <1>7, <2>1, ReturnTells DEF Return, AgentInv
<1> QED
  BY <1>2, <1>3, <1>4, <1>5, <1>6, <1>7 DEF AgentStep

LEMMA AgentInvNext == AgentInv /\ [Next]_vars => AgentInv'
<1> SUFFICES ASSUME AgentInv, [Next]_vars
             PROVE  AgentInv'
  OBVIOUS
<1>1. CASE CallAgent \/ Interrupt
  BY <1>1, AgentStepKeeps DEF CallAgent, Interrupt
<1>2. CASE AgentDone
  <2>1. ASSUME (host = "none" /\ child = "none" /\ lines = <<>> /\ written = 0 /\ read = 0
                /\ carry = <<>> /\ adapter = Unheard /\ timedOut = FALSE
                /\ outcome = NoOutcome)'
        PROVE  AgentInv'
    BY <2>1, FreshAgent, PTL
  <2> QED
    BY <1>2, <2>1 DEF AgentDone
<1>3. CASE UNCHANGED agentVars
  BY <1>3 DEF agentVars, AgentInv, Recall, ResultsTo, LastTo, OutcomeTellsOutput
<1> QED
  BY <1>1, <1>2, <1>3
     DEF Next, vars, MeasureBaseline, ScreenCandidate, Measure, MeasureDone, Check, Judge,
         Hold

\* What the engine makes of an agent's call does not depend on where the
\* chunks of its output end.
THEOREM OutcomeFromOutput == Spec => []OutcomeTellsOutput
<1>1. Init => AgentInv
  BY FreshAgent DEF Init, AgentInit
<1>2. AgentInv => OutcomeTellsOutput
  BY DEF AgentInv
<1>3. QED
  BY <1>1, <1>2, AgentInvNext, PTL DEF Spec

-----------------------------------------------------------------------------
(* Order statistics *)

LEMMA FunctionSeq ==
  ASSUME NEW S, NEW n \in Nat, NEW f \in [1..n -> S]
  PROVE  f \in Seq(S) /\ Len(f) = n
OBVIOUS

\* Parts of 1..n have numbers of elements, which grow with them.
LEMMA Places ==
  ASSUME NEW n \in Nat, NEW T \in SUBSET (1..n)
  PROVE  /\ IsFiniteSet(T) /\ Cardinality(T) \in Nat /\ Cardinality(T) <= n
         /\ \A S \in SUBSET T : IsFiniteSet(S) /\ Cardinality(S) <= Cardinality(T)
<1>1. IsFiniteSet(1..n) /\ Cardinality(1..n) = n
  BY FS_Interval
<1>2. IsFiniteSet(T) /\ Cardinality(T) <= n
  BY <1>1, FS_Subset
<1>3. Cardinality(T) \in Nat
  BY <1>2, FS_CardinalityType
<1> QED
  BY <1>2, <1>3, FS_Subset

\* One element more.
LEMMA OneMore ==
  ASSUME NEW n \in Nat, NEW T \in SUBSET (1..n), NEW i \in 1..n, i \notin T
  PROVE  Cardinality(T \cup {i}) = Cardinality(T) + 1
BY Places, FS_AddElement

\* What comes before place i in the order of the values, equal ones by place.
Before(s, i) == {j \in 1..Len(s) : s[j] < s[i] \/ (s[j] = s[i] /\ j < i)}

LEMMA RankFacts ==
  ASSUME NEW s \in Seq(Int)
  PROVE  /\ RankOf(s) \in [1..Len(s) -> 1..Len(s)]
         /\ \A i \in 1..Len(s) : RankOf(s)[i] = 1 + Cardinality(Before(s, i))
         /\ \A i, j \in 1..Len(s) : s[i] < s[j] \/ (s[i] = s[j] /\ i < j)
              => RankOf(s)[i] < RankOf(s)[j]
<1> DEFINE n == Len(s)
<1>0. n \in Nat /\ \A i \in 1..n : s[i] \in Int
  OBVIOUS
<1>1. \A i \in 1..n : RankOf(s)[i] = 1 + Cardinality(Before(s, i))
  BY DEF RankOf, Before
<1>2. \A i \in 1..n : Before(s, i) \in SUBSET (1..n) /\ i \notin Before(s, i)
  BY <1>0 DEF Before
<1>3. \A i \in 1..n : RankOf(s)[i] \in 1..n
  <2> SUFFICES ASSUME NEW i \in 1..n PROVE RankOf(s)[i] \in 1..n
    OBVIOUS
  <2>1. Before(s, i) \cup {i} \in SUBSET (1..n)
    BY <1>2
  <2>2. Cardinality(Before(s, i) \cup {i}) = Cardinality(Before(s, i)) + 1
    BY <1>0, <1>2, OneMore
  <2>3. Cardinality(Before(s, i)) \in Nat /\ Cardinality(Before(s, i) \cup {i}) <= n
    BY <1>0, <1>2, <2>1, Places
  <2> QED
    BY <1>0, <1>1, <2>2, <2>3
<1>4. RankOf(s) \in [1..n -> 1..n]
  BY <1>3 DEF RankOf
<1>5. ASSUME NEW i \in 1..n, NEW j \in 1..n, s[i] < s[j] \/ (s[i] = s[j] /\ i < j)
      PROVE  RankOf(s)[i] < RankOf(s)[j]
  <2>1. Before(s, i) \cup {i} \in SUBSET Before(s, j)
    <3>1. \A k \in 1..n : s[k] \in Int /\ k \in Int
      BY <1>0
    <3> QED
      BY <1>5, <3>1 DEF Before
  <2>2. Cardinality(Before(s, i) \cup {i}) = Cardinality(Before(s, i)) + 1
    BY <1>0, <1>2, OneMore
  <2>3. Cardinality(Before(s, i) \cup {i}) <= Cardinality(Before(s, j))
    BY <1>0, <1>2, <2>1, Places
  <2>4. Cardinality(Before(s, i)) \in Nat /\ Cardinality(Before(s, j)) \in Nat
    BY <1>0, <1>2, Places
  <2> QED
    BY <1>1, <2>2, <2>3, <2>4
<1> QED
  BY <1>1, <1>4, <1>5

\* Every rank is some place's.
LEMMA RankTaken ==
  ASSUME NEW s \in Seq(Int), NEW k \in 1..Len(s)
  PROVE  \E i \in 1..Len(s) : RankOf(s)[i] = k
<1> DEFINE T == 1..Len(s)
<1>1. RankOf(s) \in Injection(T, T)
  <2>1. \A i, j \in T : RankOf(s)[i] = RankOf(s)[j] => i = j
    <3>1. \A i, j \in T : s[i] \in Int /\ s[j] \in Int /\ i \in Int /\ j \in Int
      OBVIOUS
    <3>2. \A i, j \in T : i # j => \/ s[i] < s[j] \/ (s[i] = s[j] /\ i < j)
                                   \/ s[j] < s[i] \/ (s[j] = s[i] /\ j < i)
      BY <3>1
    <3>3. ASSUME NEW i \in T, NEW j \in T, i # j
          PROVE  RankOf(s)[i] < RankOf(s)[j] \/ RankOf(s)[j] < RankOf(s)[i]
      BY <3>2, <3>3, RankFacts
    <3>4. \A i \in T : RankOf(s)[i] \in Int
      BY RankFacts
    <3> QED
      BY <3>3, <3>4
  <2> QED
    BY <2>1, RankFacts DEF Injection, IsInjective
<1>2. IsFiniteSet(T)
  BY FS_Interval
<1>3. RankOf(s) \in Surjection(T, T)
  BY <1>1, <1>2, FS_Injection
<1> QED
  BY <1>3 DEF Surjection

Less(s, v) == {i \in 1..Len(s) : s[i] < v}
AtMost(s, v) == {i \in 1..Len(s) : s[i] <= v}

\* v stands at place k of the values of s in order.
Stands(s, k, v) == Cardinality(Less(s, v)) < k /\ k <= Cardinality(AtMost(s, v))

LEMMA StandsOnce ==
  ASSUME NEW s \in Seq(Int), NEW k \in Int, NEW v \in Int, NEW w \in Int,
         Stands(s, k, v), Stands(s, k, w)
  PROVE  v = w
<1>0. Len(s) \in Nat /\ \A i \in 1..Len(s) : s[i] \in Int
  OBVIOUS
<1>1. ASSUME NEW x \in Int, NEW y \in Int, Stands(s, k, x), Stands(s, k, y), x < y
      PROVE  FALSE
  <2>1. AtMost(s, x) \in SUBSET Less(s, y) /\ Less(s, y) \in SUBSET (1..Len(s))
        /\ AtMost(s, x) \in SUBSET (1..Len(s))
    BY <1>0, <1>1 DEF AtMost, Less
  <2>2. Cardinality(AtMost(s, x)) <= Cardinality(Less(s, y))
    BY <1>0, <2>1, Places
  <2>3. Cardinality(AtMost(s, x)) \in Nat /\ Cardinality(Less(s, y)) \in Nat
    BY <1>0, <2>1, Places
  <2> QED
    BY <1>1, <2>2, <2>3 DEF Stands
<1> QED
  BY <1>1

\* The value at the place of rank k stands at place k.
LEMMA RankedStands ==
  ASSUME NEW s \in Seq(Int), NEW i \in 1..Len(s)
  PROVE  Stands(s, RankOf(s)[i], s[i])
<1>0. Len(s) \in Nat /\ \A j \in 1..Len(s) : s[j] \in Int
  OBVIOUS
<1>1. /\ Less(s, s[i]) \in SUBSET Before(s, i) /\ Before(s, i) \in SUBSET (1..Len(s))
      /\ i \notin Before(s, i)
      /\ Before(s, i) \cup {i} \in SUBSET AtMost(s, s[i])
      /\ AtMost(s, s[i]) \in SUBSET (1..Len(s))
  BY <1>0 DEF Less, Before, AtMost
<1>2. /\ Cardinality(Less(s, s[i])) <= Cardinality(Before(s, i))
      /\ Cardinality(Before(s, i) \cup {i}) <= Cardinality(AtMost(s, s[i]))
      /\ Cardinality(Before(s, i)) \in Nat
  BY <1>0, <1>1, Places
<1>3. Cardinality(Before(s, i) \cup {i}) = Cardinality(Before(s, i)) + 1
  BY <1>0, <1>1, OneMore
<1>4. Cardinality(Less(s, s[i])) \in Nat /\ Cardinality(AtMost(s, s[i])) \in Nat
  <2>1. Less(s, s[i]) \in SUBSET (1..Len(s))
    BY <1>1
  <2> QED
    BY <1>0, <1>1, <2>1, Places
<1>5. RankOf(s)[i] = 1 + Cardinality(Before(s, i))
  BY RankFacts
<1> QED
  BY <1>2, <1>3, <1>4, <1>5 DEF Stands

\* Sorting puts a value of s at each place, the one that stands there.
LEMMA SortedStands ==
  ASSUME NEW s \in Seq(Int), NEW k \in 1..Len(s)
  PROVE  /\ \E i \in 1..Len(s) : Sorted(s)[k] = s[i]
         /\ Sorted(s)[k] \in Int
         /\ Stands(s, k, Sorted(s)[k])
<1>1. PICK i \in 1..Len(s) : RankOf(s)[i] = k
  BY RankTaken
<1>2. Stands(s, k, s[i])
  BY <1>1, RankedStands
<1>3. Sorted(s)[k] = CHOOSE v \in {s[j] : j \in 1..Len(s)} : Stands(s, k, v)
  BY DEF Sorted, Stands, Less, AtMost
<1>4. \E v \in {s[j] : j \in 1..Len(s)} : Stands(s, k, v)
  BY <1>2
<1>5. Sorted(s)[k] \in {s[j] : j \in 1..Len(s)} /\ Stands(s, k, Sorted(s)[k])
  BY <1>3, <1>4
<1> QED
  BY <1>5

\* Sorted sequences ascend.
LEMMA SortedAscends ==
  ASSUME NEW s \in Seq(Int), NEW k \in 1..Len(s), NEW m \in 1..Len(s), k <= m
  PROVE  Sorted(s)[k] <= Sorted(s)[m]
<1> DEFINE v == Sorted(s)[k]
           w == Sorted(s)[m]
<1>1. /\ v \in Int /\ Stands(s, k, v) /\ w \in Int /\ Stands(s, m, w)
  BY SortedStands
<1>2. ASSUME w < v
      PROVE  FALSE
  <2>1. AtMost(s, w) \in SUBSET Less(s, v) /\ Less(s, v) \in SUBSET (1..Len(s))
        /\ AtMost(s, w) \in SUBSET (1..Len(s)) /\ Len(s) \in Nat
    <3>1. \A i \in 1..Len(s) : s[i] \in Int
      OBVIOUS
    <3> QED
      BY <1>1, <1>2, <3>1 DEF AtMost, Less
  <2>2. Cardinality(AtMost(s, w)) <= Cardinality(Less(s, v))
    BY <2>1, Places
  <2>3. Cardinality(AtMost(s, w)) \in Nat /\ Cardinality(Less(s, v)) \in Nat
    BY <2>1, Places
  <2> QED
    BY <1>1, <2>2, <2>3 DEF Stands
<1> QED
  BY <1>1, <1>2

-----------------------------------------------------------------------------
(* The medians of the bootstrap *)

Picked(s, picks) == [k \in 1..Len(s) |-> s[picks[k]]]

\* Where the scan stops.
LEMMA ScanStops ==
  ASSUME NEW s \in Seq(Int), NEW picks \in [1..Len(s) -> 1..Len(s)], NEW idx \in Nat,
         idx < Len(s)
  PROVE  /\ Scan(s, picks, idx) \in 1..Len(s)
         /\ CountTo(s, picks, Scan(s, picks, idx)) > idx
         /\ \A q \in 1..(Scan(s, picks, idx) - 1) : CountTo(s, picks, q) <= idx
<1> DEFINE n == Len(s)
           Over == {r \in 1..n : CountTo(s, picks, r) > idx}
<1>0. n \in Nat /\ n >= 1
  OBVIOUS
<1>1. n \in Over
  <2>1. {k \in DOMAIN picks : RankOf(s)[picks[k]] <= n} = 1..n
    BY RankFacts
  <2>2. CountTo(s, picks, n) = n
    <3>1. Cardinality(1..n) = n
      BY <1>0, FS_Interval
    <3> QED
      BY <2>1, <3>1 DEF CountTo
  <2> QED
    BY <1>0, <2>2
<1>2. PICK r \in Over : \A q \in Over : ~(<<q, r>> \in OpToRel(<, Nat))
  <2>1. Over \subseteq Nat /\ Over # {}
    BY <1>0, <1>1
  <2> HIDE DEF Over
  <2> QED
    BY <2>1, NatLessThanWellFounded, WFMin
<1>3. \A q \in 1..(r - 1) : CountTo(s, picks, q) <= idx
  <2> SUFFICES ASSUME NEW q \in 1..(r - 1)
               PROVE  CountTo(s, picks, q) <= idx
    OBVIOUS
  <2>1. q \in 1..n /\ q < r /\ q \in Nat /\ r \in Nat
    BY <1>0
  <2>2. q \notin Over
    BY <1>2, <2>1 DEF OpToRel
  <2>3. CountTo(s, picks, q) \in Nat
    BY <1>0, Places DEF CountTo
  <2> QED
    BY <2>1, <2>2, <2>3
<1>4. \E x \in 1..n : CountTo(s, picks, x) > idx /\
        \A q \in 1..(x - 1) : CountTo(s, picks, q) <= idx
  BY <1>2, <1>3
<1> QED
  BY <1>4 DEF Scan

\* It stops at the order statistic of the values that were picked.
LEMMA ScanStands ==
  ASSUME NEW s \in Seq(Int), NEW picks \in [1..Len(s) -> 1..Len(s)], NEW idx \in Nat,
         idx < Len(s)
  PROVE  Sorted(s)[Scan(s, picks, idx)] = Sorted(Picked(s, picks))[idx + 1]
<1> DEFINE n == Len(s)
           r == Scan(s, picks, idx)
           t == Picked(s, picks)
           v == Sorted(s)[r]
           Upto(x) == {k \in 1..n : RankOf(s)[picks[k]] <= x}
<1>0. n \in Nat /\ \A i \in 1..n : s[i] \in Int
  OBVIOUS
<1>1. r \in 1..n /\ CountTo(s, picks, r) > idx
      /\ \A q \in 1..(r - 1) : CountTo(s, picks, q) <= idx
  BY ScanStops
<1>2. t \in Seq(Int) /\ Len(t) = n /\ \A k \in 1..n : t[k] = s[picks[k]]
  <2>1. t \in [1..n -> Int]
    BY <1>0 DEF Picked
  <2> QED
    BY <1>0, <2>1, FunctionSeq DEF Picked
<1>3. \A x \in Int : CountTo(s, picks, x) = Cardinality(Upto(x)) /\ Upto(x) \in SUBSET (1..n)
  BY DEF CountTo
<1>4. PICK m \in 1..n : RankOf(s)[m] = r
  BY <1>1, RankTaken
<1>5. v = s[m]
  <2>1. r \in Int /\ s[m] \in Int
    BY <1>0, <1>1
  <2>2. Stands(s, r, s[m])
    BY <1>4, RankedStands
  <2>3. v \in Int /\ Stands(s, r, v)
    BY <1>1, SortedStands
  <2> HIDE DEF r, v
  <2> QED
    BY <2>1, <2>2, <2>3, StandsOnce
<1>6. RankOf(s) \in [1..n -> 1..n]
  BY RankFacts
<1>7. \A i \in 1..n : RankOf(s)[i] <= r => s[i] <= v
  <2> SUFFICES ASSUME NEW i \in 1..n, RankOf(s)[i] <= r, s[i] > v
               PROVE  FALSE
    BY <1>0, <1>5
  <2>1. RankOf(s)[m] < RankOf(s)[i]
    BY <1>5, RankFacts
  <2>2. RankOf(s)[i] \in Int /\ RankOf(s)[m] \in Int
    BY <1>6
  <2> HIDE DEF r
  <2> QED
    BY <1>4, <2>1, <2>2
<1>8. \A i \in 1..n : s[i] < v => RankOf(s)[i] <= r - 1
  <2> SUFFICES ASSUME NEW i \in 1..n, s[i] < v
               PROVE  RankOf(s)[i] <= r - 1
    OBVIOUS
  <2>1. RankOf(s)[i] < RankOf(s)[m]
    BY <1>5, RankFacts
  <2> QED
    BY <1>1, <1>4, <1>6, <2>1
<1>9. idx + 1 <= Cardinality(AtMost(t, v))
  <2>1. Upto(r) \in SUBSET AtMost(t, v) /\ AtMost(t, v) \in SUBSET (1..n)
    BY <1>2, <1>7 DEF AtMost
  <2>2. Cardinality(Upto(r)) <= Cardinality(AtMost(t, v))
    BY <1>0, <2>1, Places
  <2>3. Cardinality(Upto(r)) \in Nat /\ Cardinality(AtMost(t, v)) \in Nat
    <3>1. Upto(r) \in SUBSET (1..n)
      OBVIOUS
    <3> QED
      BY <1>0, <2>1, <3>1, Places
  <2>4. Cardinality(Upto(r)) > idx
    <3>1. r \in Int
      BY <1>1
    <3> HIDE DEF r, To
    <3> QED
      BY <1>1, <1>3, <3>1
  <2> QED
    BY <2>2, <2>3, <2>4
<1>10. Cardinality(Less(t, v)) < idx + 1
  <2>1. Less(t, v) \in SUBSET Upto(r - 1)
    BY <1>2, <1>8 DEF Less
  <2>2. Cardinality(Upto(r - 1)) <= idx
    <3>1. CASE r = 1
      <4>1. Upto(r - 1) = {}
        <5>1. \A k \in 1..n : RankOf(s)[picks[k]] \in 1..n
          BY <1>6
        <5>2. \A k \in 1..n : ~(RankOf(s)[picks[k]] <= 0)
          BY <5>1
        <5>3. r - 1 = 0
          BY <3>1
        <5> HIDE DEF r
        <5> QED
          BY <5>2, <5>3
      <4>2. Cardinality({}) = 0
        BY FS_EmptySet
      <4>3. Cardinality(Upto(r - 1)) = 0
        BY <4>1, <4>2, Zenon
      <4> HIDE DEF Upto, r
      <4> QED
        BY <4>3
    <3>2. CASE r > 1
      <4>1. r - 1 \in 1..(r - 1) /\ r - 1 \in Int
        BY <1>1, <3>2
      <4>2. CountTo(s, picks, r - 1) <= idx
        BY <1>1, <4>1
      <4> QED
        BY <1>3, <4>1, <4>2
    <3> QED
      BY <1>1, <3>1, <3>2
  <2>3. Upto(r - 1) \in SUBSET (1..n)
    OBVIOUS
  <2>4. Cardinality(Less(t, v)) <= Cardinality(Upto(r - 1))
        /\ Cardinality(Upto(r - 1)) \in Nat
    BY <1>0, <2>1, <2>3, Places
  <2>5. Cardinality(Less(t, v)) \in Nat
    <3>1. Less(t, v) \in SUBSET (1..n)
      BY <1>2 DEF Less
    <3> QED
      BY <1>0, <3>1, Places
  <2> QED
    BY <2>2, <2>4, <2>5
<1>11. v \in Int
  BY <1>0, <1>5
<1>12. Stands(t, idx + 1, v)
  BY <1>9, <1>10 DEF Stands
<1>13. idx + 1 \in 1..Len(t)
  BY <1>0, <1>2
<1>14. Sorted(t)[idx + 1] \in Int /\ Stands(t, idx + 1, Sorted(t)[idx + 1])
  BY <1>2, <1>13, SortedStands
<1> HIDE DEF t, v
<1> QED
  BY <1>2, <1>11, <1>12, <1>13, <1>14, StandsOnce DEF t, v

LEMMA Middles ==
  ASSUME NEW n \in Nat, n >= 1
  PROVE  /\ Lower(n) \in 1..n /\ Upper(n) \in 1..n /\ Lower(n) <= Upper(n)
         /\ Lower(n) # Upper(n) => n = 2 * Lower(n)
BY DEF Lower, Upper

LEMMA MedianOfPicked ==
  ASSUME NEW s \in Seq(Int), Len(s) >= 1, NEW picks \in [1..Len(s) -> 1..Len(s)]
  PROVE  ResampleMedian2(s, picks) = Median2(Picked(s, picks))
<1> DEFINE n == Len(s)
           t == Picked(s, picks)
<1>1. Len(t) = n
  BY DEF Picked
<1>0. n \in Nat /\ n >= 1
  OBVIOUS
<1>2. /\ Lower(n) - 1 \in Nat /\ Lower(n) - 1 < n /\ (Lower(n) - 1) + 1 = Lower(n)
      /\ Upper(n) - 1 \in Nat /\ Upper(n) - 1 < n /\ (Upper(n) - 1) + 1 = Upper(n)
  <2>1. Lower(n) \in 1..n /\ Upper(n) \in 1..n
    BY <1>0, Middles
  <2> HIDE DEF n
  <2> QED
    BY <1>0, <2>1
<1>3. Sorted(s)[Scan(s, picks, Lower(n) - 1)] = Sorted(t)[Lower(n)]
  BY <1>2, ScanStands
<1>4. Sorted(s)[Scan(s, picks, Upper(n) - 1)] = Sorted(t)[Upper(n)]
  BY <1>2, ScanStands
<1> QED
  BY <1>1, <1>3, <1>4 DEF ResampleMedian2, Median2

-----------------------------------------------------------------------------
(* Sums *)

\* A total is reached by adding up.
LEMMA TotalFacts ==
  ASSUME NEW n \in Nat, NEW s \in [1..n -> Nat]
  PROVE  \E upto \in [0..n -> Nat] :
           /\ upto[0] = 0 /\ Total(s) = upto[n]
           /\ \A k \in 1..n : upto[k] = upto[k - 1] + s[k]
<1> DEFINE AddsUp(f, m) == f[0] = 0 /\ \A k \in 1..m : f[k] = f[k - 1] + s[k]
           S == {m \in Nat : m <= n => \E f \in [0..m -> Nat] : AddsUp(f, m)}
<1>1. 0 \in S
  <2>1. AddsUp([k \in 0..0 |-> 0], 0) /\ [k \in 0..0 |-> 0] \in [0..0 -> Nat]
    OBVIOUS
  <2> QED
    BY <2>1
<1>2. ASSUME NEW m \in Nat, m \in S
      PROVE  m + 1 \in S
  <2> SUFFICES ASSUME m + 1 <= n
               PROVE  \E f \in [0..(m + 1) -> Nat] : AddsUp(f, m + 1)
    <3> HIDE DEF AddsUp
    <3> QED
      OBVIOUS
  <2>0. m <= n
    OBVIOUS
  <2>1. PICK f \in [0..m -> Nat] : AddsUp(f, m)
    <3> HIDE DEF AddsUp
    <3> QED
      BY <1>2, <2>0
  <2> DEFINE g == [k \in 0..(m + 1) |-> IF k = m + 1 THEN f[m] + s[m + 1] ELSE f[k]]
  <2>2. s[m + 1] \in Nat /\ f[m] \in Nat
    OBVIOUS
  <2>3. g \in [0..(m + 1) -> Nat]
    BY <2>2
  <2>4. g[0] = 0
    BY <2>1
  <2>5. ASSUME NEW k \in 1..(m + 1)
        PROVE  g[k] = g[k - 1] + s[k]
    <3>1. CASE k = m + 1
      BY <3>1
    <3>2. CASE k # m + 1
      <4>1. k \in 1..m /\ k - 1 \in 0..m /\ k - 1 # m + 1
        BY <3>2
      <4> QED
        BY <2>1, <3>2, <4>1
    <3> QED
      BY <3>1, <3>2
  <2> QED
    BY <2>3, <2>4, <2>5
<1>3. n \in S
  <2> HIDE DEF S
  <2> QED
    BY <1>1, <1>2, NaturalInduction
<1>4. PICK f \in [0..n -> Nat] : AddsUp(f, n)
  <2>1. n <= n
    OBVIOUS
  <2> HIDE DEF AddsUp
  <2> QED
    BY <1>3, <2>1
<1>5. Len(s) = n
  OBVIOUS
<1> DEFINE Sum(h, k) == IF k = 0 THEN 0 ELSE h[k - 1] + s[k]
           upto == CHOOSE h : h = [k \in 0..n |-> Sum(h, k)]
<1>6. Total(s) = upto[n]
  BY <1>5 DEF Total
<1>7. f = [k \in 0..n |-> Sum(f, k)]
  <2>1. \A k \in 0..n : f[k] = Sum(f, k)
    BY <1>4
  <2> QED
    BY <2>1
<1>8. upto = [k \in 0..n |-> Sum(upto, k)]
  BY <1>7
<1> HIDE DEF upto
<1>9. upto[0] = 0 /\ \A k \in 1..n : upto[k] = upto[k - 1] + s[k]
  BY <1>8
<1> DEFINE E == {k \in Nat : k <= n => upto[k] = f[k]}
<1>10. 0 \in E
  BY <1>4, <1>9
<1>11. ASSUME NEW k \in Nat, k \in E
       PROVE  k + 1 \in E
  <2> SUFFICES ASSUME k + 1 <= n
               PROVE  upto[k + 1] = f[k + 1]
    OBVIOUS
  <2>1. k + 1 \in 1..n /\ (k + 1) - 1 = k /\ k <= n
    OBVIOUS
  <2>2. upto[k] = f[k]
    BY <1>11, <2>1
  <2>3. upto[k + 1] = upto[k] + s[k + 1] /\ f[k + 1] = f[k] + s[k + 1]
    BY <1>4, <1>9, <2>1
  <2> QED
    BY <2>2, <2>3
<1>12. n \in E
  <2> HIDE DEF E
  <2> QED
    BY <1>10, <1>11, NaturalInduction
<1>13. Total(s) = f[n]
  BY <1>6, <1>12
<1> QED
  BY <1>4, <1>13

LEMMA TotalBounds ==
  ASSUME NEW n \in Nat, NEW s \in [1..n -> Nat]
  PROVE  Total(s) \in Nat /\ \A i \in 1..n : s[i] <= Total(s)
<1>1. PICK upto \in [0..n -> Nat] :
           /\ upto[0] = 0 /\ Total(s) = upto[n]
           /\ \A k \in 1..n : upto[k] = upto[k - 1] + s[k]
  BY TotalFacts
<1> DEFINE S == {k \in Nat : k <= n => \A i \in 1..k : s[i] <= upto[k]}
<1>2. 0 \in S
  OBVIOUS
<1>3. ASSUME NEW k \in Nat, k \in S
      PROVE  k + 1 \in S
  <2> SUFFICES ASSUME k + 1 <= n, NEW i \in 1..(k + 1)
               PROVE  s[i] <= upto[k + 1]
    OBVIOUS
  <2>1. k + 1 \in 1..n /\ (k + 1) - 1 = k /\ k \in 0..n /\ k <= n
    OBVIOUS
  <2>2. upto[k + 1] = upto[k] + s[k + 1] /\ upto[k] \in Nat /\ s[k + 1] \in Nat
        /\ s[i] \in Nat
    BY <1>1, <2>1
  <2>3. i = k + 1 \/ s[i] <= upto[k]
    BY <1>3, <2>1
  <2> QED
    BY <2>2, <2>3
<1>4. n \in S
  <2> HIDE DEF S
  <2> QED
    BY <1>2, <1>3, NaturalInduction
<1> QED
  BY <1>1, <1>4

\* One more number in the inequality below.
LEMMA SquareStep ==
  ASSUME NEW z \in Nat, NEW a \in Nat, NEW q \in Nat, NEW x \in Nat, a * a <= z * q
  PROVE  (a + x) * (a + x) <= (z + 1) * (q + x * x)
<1>1. CASE z = 0
  <2>1. z * q = 0
    BY <1>1
  <2>2. a * a <= 0
    BY <2>1
  <2>3. a = 0
    BY <2>2
  <2>4. (a + x) * (a + x) = x * x /\ (z + 1) * (q + x * x) = q + x * x /\ x * x \in Nat
    BY <1>1, <2>3
  <2> QED
    BY <2>4
<1>2. CASE z > 0
  <2> DEFINE d == z * x - a
             e == z * (x * x) + q - 2 * (x * a)
  <2>1. d \in Int /\ d * d >= 0 /\ e \in Int /\ z * q \in Int /\ a * a \in Int
    OBVIOUS
  <2>2. d * d = z * (z * (x * x)) - 2 * (z * (x * a)) + a * a
    OBVIOUS
  <2>3. z * e = z * (z * (x * x)) + z * q - 2 * (z * (x * a))
    OBVIOUS
  <2>4. z * e >= 0
    BY <2>1, <2>2, <2>3
  <2>5. e >= 0
    <3> HIDE DEF e
    <3>1. ASSUME e < 0 PROVE z * e < 0
      BY <1>2, <2>1, <3>1
    <3> QED
      BY <2>1, <2>4, <3>1
  <2>6. (z + 1) * (q + x * x) = z * q + z * (x * x) + q + x * x
    OBVIOUS
  <2>7. (a + x) * (a + x) = a * a + 2 * (x * a) + x * x
    OBVIOUS
  <2> QED
    BY <2>1, <2>5, <2>6, <2>7
<1> QED
  BY <1>1, <1>2

LEMMA UpToNext ==
  ASSUME NEW k \in Nat
  PROVE  k + 1 \notin 1..k /\ \A i : i \in 1..(k + 1) <=> i \in 1..k \/ i = k + 1
OBVIOUS

Positive(s, k) == {i \in 1..k : s[i] # 0}

\* The inequality of Cauchy and Schwarz, for the values that are not zero.
LEMMA SquaresBound ==
  ASSUME NEW n \in Nat, NEW s \in [1..n -> Nat]
  PROVE  Total(s) * Total(s) <=
           Cardinality(Positive(s, n)) * Total([i \in 1..n |-> s[i] * s[i]])
<1> DEFINE sq == [i \in 1..n |-> s[i] * s[i]]
<1>0. sq \in [1..n -> Nat]
  OBVIOUS
<1>1. PICK f \in [0..n -> Nat] :
           /\ f[0] = 0 /\ Total(s) = f[n]
           /\ \A k \in 1..n : f[k] = f[k - 1] + s[k]
  BY TotalFacts
<1>2. PICK g \in [0..n -> Nat] :
           /\ g[0] = 0 /\ Total(sq) = g[n]
           /\ \A k \in 1..n : g[k] = g[k - 1] + sq[k]
  <2> HIDE DEF sq
  <2> QED
    BY <1>0, TotalFacts
<1> DEFINE C(k) == Cardinality(Positive(s, k))
           S == {k \in Nat : k <= n => f[k] * f[k] <= C(k) * g[k]}
<1>3. \A k \in Nat : IsFiniteSet(Positive(s, k)) /\ C(k) \in Nat
  BY Places DEF Positive
<1>4. 0 \in S
  <2>1. C(0) \in Nat /\ f[0] = 0 /\ g[0] = 0
    BY <1>1, <1>2, <1>3
  <2> HIDE DEF C
  <2> QED
    BY <2>1
<1>5. ASSUME NEW k \in Nat, k \in S
      PROVE  k + 1 \in S
  <2> SUFFICES ASSUME k + 1 <= n
               PROVE  f[k + 1] * f[k + 1] <= C(k + 1) * g[k + 1]
    OBVIOUS
  <2>1. k + 1 \in 1..n /\ (k + 1) - 1 = k /\ k \in 0..n /\ k <= n
    OBVIOUS
  <2>2. /\ f[k + 1] = f[k] + s[k + 1] /\ g[k + 1] = g[k] + s[k + 1] * s[k + 1]
        /\ f[k] \in Nat /\ g[k] \in Nat /\ s[k + 1] \in Nat
    BY <1>1, <1>2, <2>1
  <2>3. f[k] * f[k] <= C(k) * g[k]
    BY <1>5, <2>1
  <2>4. CASE s[k + 1] = 0
    <3>1. Positive(s, k + 1) = Positive(s, k)
      BY <2>4 DEF Positive
    <3> QED
      BY <2>2, <2>3, <2>4, <3>1
  <2>5. CASE s[k + 1] # 0
    <3>1. Positive(s, k + 1) = Positive(s, k) \cup {k + 1} /\ k + 1 \notin Positive(s, k)
      BY <2>5, UpToNext, Zenon DEF Positive
    <3>2. C(k + 1) = C(k) + 1
      BY <1>3, <3>1, FS_AddElement
    <3>3. C(k) \in Nat
      BY <1>3
    <3> HIDE DEF C
    <3> QED
      BY <2>2, <2>3, <3>2, <3>3, SquareStep
  <2> QED
    BY <2>4, <2>5
<1>6. n \in S
  <2> HIDE DEF S
  <2> QED
    BY <1>4, <1>5, NaturalInduction
<1> QED
  BY <1>1, <1>2, <1>6

-----------------------------------------------------------------------------
(* A win that is undone *)

LEMMA SampleFacts ==
  ASSUME NEW n \in Nat, n >= 1, NEW s \in [1..n -> Nat]
  PROVE  /\ s \in Seq(Int) /\ Len(s) = n
         /\ \A k \in 1..n : Sorted(s)[k] \in Nat
         /\ Median2(s) \in Nat
         /\ Noise(s).num \in Int /\ Noise(s).den \in Nat
<1>1. s \in Seq(Int) /\ Len(s) = n
  <2>1. s \in [1..n -> Int]
    OBVIOUS
  <2> QED
    BY <2>1, FunctionSeq
<1>2. \A k \in 1..n : Sorted(s)[k] \in Nat
  BY <1>1, SortedStands
<1>3. Median2(s) \in Nat
  <2>1. Lower(n) \in 1..n /\ Upper(n) \in 1..n
    BY Middles
  <2>2. Sorted(s)[Lower(n)] \in Nat /\ Sorted(s)[Upper(n)] \in Nat
    BY <1>2, <2>1
  <2>3. Median2(s) = Sorted(s)[Lower(n)] + Sorted(s)[Upper(n)]
    BY <1>1, Zenon DEF Median2
  <2> QED
    BY <2>2, <2>3
<1>4. Total(s) \in Nat /\ Total([i \in 1..n |-> s[i] * s[i]]) \in Nat
  <2>1. [i \in 1..n |-> s[i] * s[i]] \in [1..n -> Nat]
    OBVIOUS
  <2> QED
    BY <2>1, TotalBounds
<1>5. ASSUME NEW a \in Nat, NEW q \in Nat
      PROVE  n * (n * q - a * a) \in Int /\ (n - 1) * a * a \in Nat
  <2>1. n - 1 \in Nat
    OBVIOUS
  <2> QED
    BY <2>1
<1>6. Noise(s).num \in Int /\ Noise(s).den \in Nat
  BY <1>1, <1>4, <1>5 DEF Noise
<1> QED
  BY <1>1, <1>2, <1>3, <1>6

\* Samples whose median is one half are noise: at least half of them are zero,
\* and not all.
LEMMA HalfIsNoise ==
  ASSUME NEW n \in Nat, n >= 2, NEW s \in [1..n -> Nat], Median2(s) = 1
  PROVE  Noise(s).num >= Noise(s).den
<1> DEFINE sq == [i \in 1..n |-> s[i] * s[i]]
           lo == Sorted(s)[Lower(n)]
           up == Sorted(s)[Upper(n)]
<1>0. s \in Seq(Int) /\ Len(s) = n
  BY SampleFacts
<1>1. /\ Lower(n) \in 1..n /\ Upper(n) \in 1..n /\ Lower(n) <= Upper(n)
      /\ Lower(n) # Upper(n) => n = 2 * Lower(n)
  BY Middles
<1>2. lo \in Nat /\ up \in Nat /\ lo + up = 1 /\ lo <= up
  BY <1>0, <1>1, SampleFacts, SortedAscends DEF Median2
<1>3. lo = 0 /\ up = 1 /\ n = 2 * Lower(n)
  <2>1. lo = 0 /\ up = 1
    BY <1>2
  <2> QED
    BY <1>1, <2>1
<1>4. 2 * Cardinality(Positive(s, n)) <= n
  <2>1. Lower(n) <= Cardinality(AtMost(s, 0))
    BY <1>0, <1>1, <1>3, SortedStands DEF Stands
  <2>2. Positive(s, n) \in SUBSET (1..n) /\ AtMost(s, 0) \in SUBSET (1..n)
        /\ (1..n) \ AtMost(s, 0) = Positive(s, n)
    BY <1>0 DEF Positive, AtMost
  <2>3. Cardinality((1..n) \ AtMost(s, 0)) = n - Cardinality(AtMost(s, 0))
    <3>1. IsFiniteSet(1..n) /\ Cardinality(1..n) = n
      BY FS_Interval
    <3>2. (1..n) \cap AtMost(s, 0) = AtMost(s, 0)
      BY <2>2
    <3> QED
      BY <3>1, <3>2, FS_Difference
  <2>4. Cardinality(AtMost(s, 0)) \in Nat
    BY <2>2, Places
  <2>5. Cardinality(Positive(s, n)) = n - Cardinality(AtMost(s, 0))
    BY <2>2, <2>3, Zenon
  <2>6. n = 2 * Lower(n) /\ Lower(n) \in Int
    BY <1>1, <1>3
  <2> HIDE DEF lo, up
  <2> QED
    BY <2>1, <2>4, <2>5, <2>6
<1>5. Total(s) \in Nat /\ Total(s) >= 1
  <2>1. PICK i \in 1..n : s[i] = 1
    <3>1. Upper(n) \in 1..Len(s)
      BY <1>0, <1>1
    <3>2. \E i \in 1..Len(s) : up = s[i]
      BY <1>0, <3>1, SortedStands
    <3> HIDE DEF up
    <3> QED
      BY <1>0, <1>3, <3>2
  <2> QED
    BY <2>1, TotalBounds
<1>6. Total(sq) \in Nat
  <2>1. sq \in [1..n -> Nat]
    OBVIOUS
  <2> HIDE DEF sq
  <2> QED
    BY <2>1, TotalBounds
<1>7. Total(s) * Total(s) <= Cardinality(Positive(s, n)) * Total(sq)
  BY SquaresBound
<1>8. Cardinality(Positive(s, n)) \in Nat
  BY Places DEF Positive
<1>9. ASSUME NEW a \in Nat, NEW q \in Nat, NEW z \in Nat, a * a <= z * q, 2 * z <= n
      PROVE  n * (n * q - a * a) >= (n - 1) * a * a
  <2>1. 2 * (z * q) <= n * q
    <3>1. n - 2 * z \in Nat
      BY <1>9
    <3>2. (n - 2 * z) * q \in Nat
      BY <3>1
    <3>3. (n - 2 * z) * q = n * q - 2 * (z * q)
      OBVIOUS
    <3> QED
      BY <3>2, <3>3
  <2>2. n * q - a * a >= a * a
    BY <1>9, <2>1
  <2>3. a * a \in Nat /\ n * q - a * a \in Nat
    BY <2>2
  <2>4. ASSUME NEW u \in Nat, NEW v \in Nat, v >= u
        PROVE  n * v >= (n - 1) * u
    <3>1. v - u \in Nat
      BY <2>4
    <3>2. n * (v - u) \in Nat
      BY <3>1
    <3>3. n * v = n * (v - u) + n * u /\ (n - 1) * u = n * u - u
      OBVIOUS
    <3> QED
      BY <3>2, <3>3
  <2>5. n * (n * q - a * a) >= (n - 1) * (a * a)
    BY <2>2, <2>3, <2>4
  <2>6. (n - 1) * (a * a) = (n - 1) * a * a
    OBVIOUS
  <2> QED
    BY <2>5, <2>6
<1>10. Noise(s) = [num |-> n * (n * Total(sq) - Total(s) * Total(s)),
                   den |-> (n - 1) * Total(s) * Total(s)]
  BY <1>0, <1>5 DEF Noise
<1> HIDE DEF sq
<1>11. n * (n * Total(sq) - Total(s) * Total(s)) >= (n - 1) * Total(s) * Total(s)
  BY <1>4, <1>5, <1>6, <1>7, <1>8, <1>9
<1>12. /\ Noise(s).num = n * (n * Total(sq) - Total(s) * Total(s))
       /\ Noise(s).den = (n - 1) * Total(s) * Total(s)
  <2> DEFINE num == n * (n * Total(sq) - Total(s) * Total(s))
             den == (n - 1) * Total(s) * Total(s)
  <2>1. Noise(s) = [num |-> num, den |-> den]
    BY <1>10
  <2>2. Noise(s).num = num /\ Noise(s).den = den
    <3> HIDE DEF num, den
    <3> QED
      BY <2>1
  <2> QED
    BY <2>2
<1> QED
  BY <1>11, <1>12, Zenon

\* What is above the noise as a share of q is so as a share of less.
LEMMA SmallerUnit ==
  ASSUME NEW noise, noise.num \in Int, noise.den \in Nat,
         NEW p \in Int, NEW q \in Nat, NEW r \in Nat, r >= 1, r <= q, AboveNoise(p, q, noise)
  PROVE  AboveNoise(p, r, noise)
<1> DEFINE num == noise.num
           den == noise.den
<1>1. p > 0 /\ p * p * den > num * q * q
  BY DEF AboveNoise
<1>2. p * p * den >= 0
  <2>1. p \in Nat /\ p * p \in Nat
    BY <1>1
  <2> QED
    BY <2>1
<1>3. CASE num >= 0
  <2>1. r * r <= q * q
    <3>1. q - r \in Nat
      OBVIOUS
    <3>2. (q - r) * (q + r) \in Nat
      BY <3>1
    <3>3. (q - r) * (q + r) = q * q - r * r
      OBVIOUS
    <3> QED
      BY <3>2, <3>3
  <2>2. num * (q * q - r * r) >= 0
    <3>1. q * q - r * r \in Nat /\ num \in Nat
      BY <1>3, <2>1
    <3> QED
      BY <3>1
  <2>3. num * (q * q - r * r) = num * q * q - num * r * r
    OBVIOUS
  <2>4. p * p * den \in Int /\ num * q * q \in Int /\ num * r * r \in Int
    OBVIOUS
  <2> QED
    BY <1>1, <2>2, <2>3, <2>4 DEF AboveNoise
<1>4. CASE num < 0
  <2>1. num * r * r < 0
    <3>1. r * r >= 1 /\ r * r \in Nat
      OBVIOUS
    <3>2. num * (r * r) < 0
      BY <1>4, <3>1
    <3>3. num * (r * r) = num * r * r
      OBVIOUS
    <3> QED
      BY <3>2, <3>3
  <2>2. p * p * den \in Int /\ num * r * r \in Int
    OBVIOUS
  <2> QED
    BY <1>1, <1>2, <2>1, <2>2 DEF AboveNoise
<1> QED
  BY <1>3, <1>4

LEMMA WinIsGuarded ==
  ASSUME NEW n \in Nat, n >= 2, NEW b \in [1..n -> Nat], NEW c \in [1..n -> Nat],
         Meaningful(b, c, "minimize")
  PROVE  Regressed(c, b, "minimize", MinImprovementPct)
<1> DEFINE p == Median2(b) - Median2(c)
           q == Unit(b)
           r == Unit(c)
<1>1. /\ Median2(b) \in Nat /\ Median2(c) \in Nat
      /\ Noise(b).num \in Int /\ Noise(b).den \in Nat
      /\ Noise(c).num \in Int /\ Noise(c).den \in Nat
  BY SampleFacts
<1>2. Gain(b, c, "minimize") = p /\ -Gain(c, b, "minimize") = p /\ p \in Int
  BY <1>1 DEF Gain
<1>3. AboveNoise(p, q, Noise(b)) /\ AboveNoise(p, q, Noise(c))
      /\ 100 * p > MinImprovementPct * q
  BY <1>2 DEF Meaningful, Beyond
<1>4. p > 0
  BY <1>3 DEF AboveNoise
<1>5. q = Median2(b)
  BY <1>1, <1>4 DEF Unit, Abs
<1>6. q # 1
  <2> SUFFICES ASSUME q = 1 PROVE FALSE
    OBVIOUS
  <2>1. p = 1
    BY <1>1, <1>4, <1>5
  <2>2. Noise(b).num >= Noise(b).den
    BY <1>5, HalfIsNoise
  <2>3. 1 * 1 * Noise(b).den > Noise(b).num * 1 * 1
    BY <1>3, <2>1 DEF AboveNoise
  <2> QED
    BY <1>1, <2>2, <2>3
<1>7. r \in Nat /\ r >= 1 /\ r <= q /\ q \in Nat
  BY <1>1, <1>4, <1>5, <1>6 DEF Unit, Abs
<1>8. AboveNoise(p, r, Noise(b)) /\ AboveNoise(p, r, Noise(c))
  <2> HIDE DEF p, q, r
  <2> QED
    BY <1>1, <1>2, <1>3, <1>7, SmallerUnit
<1>9. 100 * p > MinImprovementPct * r
  <2>1. MinImprovementPct * r <= MinImprovementPct * q
    <3> HIDE DEF q, r
    <3>1. q - r \in Nat /\ MinImprovementPct \in Nat
      BY <1>7, StatsAssumption
    <3>2. MinImprovementPct * (q - r) \in Nat
      BY <3>1
    <3>3. MinImprovementPct * (q - r) = MinImprovementPct * q - MinImprovementPct * r
      BY <1>7, <3>1
    <3>4. MinImprovementPct * q \in Int /\ MinImprovementPct * r \in Int
      BY <1>7, <3>1
    <3> QED
      BY <3>2, <3>3, <3>4
  <2>2. MinImprovementPct * q \in Int /\ MinImprovementPct * r \in Int
    BY <1>7, StatsAssumption
  <2> HIDE DEF p, q, r
  <2> QED
    BY <1>2, <1>3, <2>1, <2>2
<1> QED
  BY <1>2, <1>8, <1>9 DEF Regressed, Beyond

-----------------------------------------------------------------------------
(* What is compared *)

\* A measurement that did not fail has all its samples; the baseline has as
\* many; an accepted experiment was meaningfully better.
MeasuredInv ==
  /\ samples \in Seq(Values)
  /\ stage \in {"term", "kill", "ended"} => samples = <<>> \/ Len(samples) = Samples
  /\ phase \in {"gates", "judge", "accepted"} => Len(samples) = Samples
  /\ phase \in {"agent", "screen", "measure", "gates", "judge", "accepted"} =>
       baseline \in [1..Samples -> Values]
  /\ phase = "accepted" => Meaningful(baseline, samples, direction)

\* Measured values are natural numbers, and so integers.
LEMMA ValueFacts ==
  ASSUME NEW s \in Seq(Values), Len(s) = Samples
  PROVE  s \in [1..Samples -> Values] /\ s \in [1..Samples -> Nat] /\ s \in Seq(Int)
<1>1. Samples \in Nat /\ Values \subseteq Nat
  BY HarnessAssumption
<1>2. s \in [1..Samples -> Values]
  OBVIOUS
<1>3. s \in [1..Samples -> Nat] /\ s \in [1..Samples -> Int]
  <2>1. \A k \in 1..Samples : s[k] \in Values
    BY <1>2
  <2>2. \A v \in Values : v \in Nat /\ v \in Int
    BY <1>1
  <2>3. \A k \in 1..Samples : s[k] \in Nat /\ s[k] \in Int
    BY <2>1, <2>2, Zenon
  <2> QED
    BY <1>2, <2>3
<1> QED
  BY <1>1, <1>2, <1>3, FunctionSeq

LEMMA MeasuredInvInit == Init => MeasuredInv
BY DEF Init, HarnessInit, MeasuredInv

LEMMA MeasureStepMeasures ==
  ASSUME MeasuredInv, phase = "measure", MeasureStep \/ Environment,
         UNCHANGED <<phase, direction, baseline>>
  PROVE  MeasuredInv'
<1> USE HarnessAssumption DEF MeasuredInv, To, Working
<1>1. CASE SetUp \/ StartServer \/ Ready \/ Warm
  BY <1>1 DEF SetUp, StartServer, Ready, Warm
<1>2. CASE TakeSample
  BY <1>2 DEF TakeSample
<1>3. CASE Fail \/ Measured
  <2>1. CASE Fail
    <3>1. samples' = <<>> /\ <<>> \in Seq(Values)
      BY <2>1 DEF Fail
    <3> QED
      BY <3>1
  <2>2. CASE Measured
    BY <2>2 DEF Measured
  <2> QED
    BY <1>3, <2>1, <2>2
<1>4. CASE Terminate \/ ForceKill
  BY <1>4 DEF Terminate, ForceKill
<1>5. CASE Environment
  BY <1>5 DEF Environment, Bind, PortTaken, ServerEnds, ShellEnds
<1> QED
  BY <1>1, <1>2, <1>3, <1>4, <1>5 DEF MeasureStep

LEMMA MeasuredInvNext == MeasuredInv /\ [Next]_vars => MeasuredInv'
<1> SUFFICES ASSUME MeasuredInv, [Next]_vars
             PROVE  MeasuredInv'
  OBVIOUS
<1>1. CASE MeasureBaseline
  <2>1. /\ phase' = "agent" => baseline' \in [1..Samples -> Values]
        /\ phase' \in {"agent", "aborted"} /\ UNCHANGED <<harnessVars, direction>>
    BY <1>1 DEF MeasureBaseline, Measurements
  <2> QED
    BY <2>1 DEF MeasuredInv, harnessVars
<1>2. CASE CallAgent \/ Interrupt
  BY <1>2 DEF CallAgent, Interrupt, MeasuredInv, harnessVars
<1>3. CASE AgentDone
  BY <1>3 DEF AgentDone, MeasuredInv, harnessVars
<1>4. CASE ScreenCandidate
  BY <1>4 DEF ScreenCandidate, MeasuredInv, harnessVars
<1>5. CASE Measure
  BY <1>5, MeasureStepMeasures DEF Measure
<1>6. CASE MeasureDone
  BY <1>6 DEF MeasureDone, MeasuredInv
<1>7. CASE Check
  <2>1. /\ phase = "gates" /\ phase' \in {"gates", "rejected", "judge"}
        /\ UNCHANGED <<harnessVars, direction, baseline>>
    BY <1>7 DEF Check
  <2> QED
    BY <2>1 DEF MeasuredInv, harnessVars
<1>8. CASE Judge
  <2>1. /\ phase = "judge" /\ phase' \in {"accepted", "rejected"}
        /\ phase' = "accepted" => Meaningful(baseline, samples, direction)
        /\ UNCHANGED <<harnessVars, direction, baseline>>
    BY <1>8 DEF Judge
  <2> QED
    BY <2>1 DEF MeasuredInv, harnessVars
<1>9. CASE UNCHANGED vars
  BY <1>9 DEF vars, MeasuredInv, harnessVars
<1>10. CASE Hold
  BY <1>10 DEF Hold, MeasuredInv, harnessVars
<1> QED
  BY <1>1, <1>2, <1>3, <1>4, <1>5, <1>6, <1>7, <1>8, <1>9, <1>10 DEF Next

\* A win that is undone fails the regression check: for any samples, since the
\* loss is a larger share of the winner's median than the gain was of the
\* baseline's, but for a median of zero, whose share is of one: then a gain of
\* as little as one half is within the baseline's noise.
THEOREM WinsAreGuarded == Spec => []WinsGuarded
<1>1. MeasuredInv => WinsGuarded
  <2> SUFFICES ASSUME MeasuredInv, phase = "accepted", direction = "minimize"
               PROVE  Regressed(samples, baseline, direction, MinImprovementPct)
    BY DEF WinsGuarded
  <2>1. Samples \in Nat /\ Samples >= 2
    BY HarnessAssumption
  <2>2. baseline \in [1..Samples -> Nat] /\ samples \in [1..Samples -> Nat]
    <3>1. baseline \in [1..Samples -> Values] /\ Values \subseteq Nat
      BY HarnessAssumption DEF MeasuredInv
    <3>2. samples \in Seq(Values) /\ Len(samples) = Samples
      BY DEF MeasuredInv
    <3> QED
      BY <3>1, <3>2, ValueFacts
  <2>3. Meaningful(baseline, samples, "minimize")
    BY DEF MeasuredInv
  <2> QED
    BY <2>1, <2>2, <2>3, WinIsGuarded
<1> QED
  BY <1>1, MeasuredInvInit, MeasuredInvNext, PTL DEF Spec

\* The bootstrap finds the median of a resample by counting ranks; it is the
\* median that sorting would find, whatever values repeat.
THEOREM MediansAgree == Spec => []ResampledMedian
<1>1. MeasuredInv => ResampledMedian
  <2> SUFFICES ASSUME MeasuredInv, phase = "judge", NEW picks \in [1..Samples -> 1..Samples]
               PROVE  ResampleMedian2(samples, picks) =
                        Median2([k \in 1..Samples |-> samples[picks[k]]])
    BY DEF ResampledMedian
  <2>1. samples \in Seq(Int) /\ Len(samples) = Samples /\ Samples >= 1
    BY HarnessAssumption, ValueFacts DEF MeasuredInv
  <2> QED
    BY <2>1, MedianOfPicked DEF Picked
<1> QED
  BY <1>1, MeasuredInvInit, MeasuredInvNext, PTL DEF Spec

=============================================================================
