--------------------------- MODULE EventLogProofs ---------------------------
(***************************************************************************)
(* Proofs about EventLog, for any set of writers and any bounds:           *)
(*   - type correctness;                                                   *)
(*   - FileInSeqOrder, AtMostOneLost and AckedStays, for every combination *)
(*     of faults;                                                          *)
(*   - AlwaysReadable, NoSilentLoss and the implementation of DurableLog,  *)
(*     when writes are neither cut nor refused.                            *)
(***************************************************************************)
EXTENDS EventLog, SequenceTheorems, TLAPS

-----------------------------------------------------------------------------
(* Lemmas about lines and sequences *)

LEMMA LineFields ==
  /\ Bad \in Line
  /\ Envelope \subseteq Line
  /\ \A l \in Line : l.seq \in Nat /\ l.id \in Nat
  /\ \A l \in Line : l # Bad <=> l \in Envelope
  /\ \A l \in Line : l # Bad <=> l.seq # 0
BY DEF Line, Bad, Envelope

LEMMA TailFacts ==
  ASSUME NEW S, NEW q \in Seq(S), q # <<>>
  PROVE  /\ Tail(q) \in Seq(S)
         /\ Len(q) \in Nat \ {0}
         /\ Len(Tail(q)) = Len(q) - 1
         /\ \A k \in 1..Len(Tail(q)) : Tail(q)[k] = q[k + 1]
         /\ Head(q) = q[1]
         /\ Head(q) \in S
OBVIOUS

LEMMA AppendFacts ==
  ASSUME NEW S, NEW q \in Seq(S), NEW e \in S
  PROVE  /\ Append(q, e) \in Seq(S)
         /\ Len(Append(q, e)) = Len(q) + 1
         /\ \A k \in 1..Len(q) : Append(q, e)[k] = q[k]
         /\ Append(q, e)[Len(q) + 1] = e
OBVIOUS

\* Replacing the last element of a sequence.
LEMMA ReplaceLastFacts ==
  ASSUME NEW S, NEW q \in Seq(S), q # <<>>, NEW e \in S
  PROVE  /\ [q EXCEPT ![Len(q)] = e] \in Seq(S)
         /\ Len([q EXCEPT ![Len(q)] = e]) = Len(q)
         /\ [q EXCEPT ![Len(q)] = e][Len(q)] = e
         /\ \A k \in 1..Len(q) : k # Len(q) => [q EXCEPT ![Len(q)] = e][k] = q[k]
BY Len(q) \in 1..Len(q), ExceptSeq

LEMMA CompleteFacts ==
  ASSUME NEW f \in Seq(Line)
  PROVE  /\ Complete(f) \in Nat
         /\ Complete(f) <= Len(f)
         /\ \A i \in 1..Len(f) : i > Complete(f) => f[i] = Bad
BY DEF Complete

-----------------------------------------------------------------------------
(* Type correctness *)

\* What writing, queue and file owe each other: a write in progress has a head
\* of the chain and an unterminated last line.  TypeOK needs it, because a
\* finishing write replaces that line with that head.
WriteInv ==
  /\ openTail => file # <<>>
  /\ \A w \in Writers :
       /\ ~up[w] => queue[w] = <<>> /\ writing[w] = "idle"
       /\ writing[w] # "idle" => queue[w] # <<>> /\ file # <<>>

TypeInv == TypeOK /\ WriteInv

LEMMA TypeInvInit == Init => TypeInv
<1> SUFFICES ASSUME Init
             PROVE  TypeInv
  OBVIOUS
<1>1. <<>> \in Seq(Envelope) /\ <<>> \in Seq(Line)
  OBVIOUS
<1>2. queue \in [Writers -> Seq(Envelope)]
  BY <1>1 DEF Init
<1>3. TypeOK
  BY <1>1, <1>2 DEF Init, TypeOK, Writing
<1>4. WriteInv
  BY DEF Init, WriteInv
<1>5. QED
  BY <1>3, <1>4 DEF TypeInv

LEMMA TypeInvNext == TypeInv /\ [Next]_vars => TypeInv'
<1> SUFFICES ASSUME TypeInv, [Next]_vars
             PROVE  TypeInv'
  OBVIOUS
<1> USE DEF TypeInv, TypeOK, WriteInv, Writing
<1>1. ASSUME NEW w \in Writers, NEW last \in Nat, StartSession(w, last)
      PROVE  TypeInv'
  BY <1>1 DEF StartSession
<1>2. ASSUME NEW w \in Writers, Create(w)
      PROVE  TypeInv'
  BY <1>1, <1>2 DEF Create
<1>3. ASSUME NEW w \in Writers, Open(w)
      PROVE  TypeInv'
  <2>1. LastSeq(file) \in Nat
    BY CompleteFacts DEF LastSeq
  <2>2. QED
    BY <1>1, <1>3, <2>1 DEF Open
<1>4. ASSUME NEW w \in Writers, AppendEvent(w)
      PROVE  TypeInv'
  <2>1. [seq |-> seq[w] + 1, id |-> issued + 1] \in Envelope
    BY DEF Envelope
  <2>2. Append(queue[w], [seq |-> seq[w] + 1, id |-> issued + 1]) \in Seq(Envelope)
    BY <2>1
  <2>3. QED
    BY <1>4, <2>2 DEF AppendEvent
<1>5. ASSUME NEW w \in Writers, WriteStart(w)
      PROVE  TypeInv'
  <2>1. Head(queue[w]) \in Line /\ Bad \in Line
    BY <1>5, LineFields, TailFacts DEF WriteStart
  <2>2. file' \in Seq(Line) /\ file' # <<>>
    <3>1. CASE openTail
      <4>1. file' = [file EXCEPT ![Len(file)] = Bad] /\ file # <<>> /\ file \in Seq(Line)
        BY <3>1, <1>5 DEF WriteStart
      <4>2. Len(file) \in Nat \ {0}
        BY <4>1
      <4>3. QED
        BY <4>1, <4>2, <2>1, ReplaceLastFacts
    <3>2. CASE ~openTail
      <4>1. PICK part \in {Bad, Head(queue[w])} : file' = Append(file, part)
        BY <3>2, <1>5 DEF WriteStart
      <4>2. part \in Line /\ file \in Seq(Line)
        BY <2>1
      <4>3. Len(file') = Len(file) + 1 /\ file' \in Seq(Line) /\ Len(file) \in Nat
        BY <4>1, <4>2, AppendFacts
      <4>4. QED
        BY <4>3
    <3>3. QED
      BY <3>1, <3>2
  <2>3. QED
    BY <1>5, <2>2 DEF WriteStart
<1>6. ASSUME NEW w \in Writers, WriteFinish(w)
      PROVE  TypeInv'
  <2>1. queue[w] # <<>> /\ file # <<>>
    BY <1>6 DEF WriteFinish
  <2>2. Head(queue[w]) \in Envelope /\ Tail(queue[w]) \in Seq(Envelope)
    BY <2>1, TailFacts
  <2>3. Head(queue[w]) \in Line /\ Head(queue[w]).id \in Nat
    BY <2>2, LineFields
  <2>4. file' \in Seq(Line) /\ file' # <<>>
    BY <1>6, <2>1, <2>3, ReplaceLastFacts DEF WriteFinish
  <2>5. QED
    BY <1>6, <2>2, <2>3, <2>4 DEF WriteFinish
<1>7. ASSUME NEW w \in Writers, WriteFail(w)
      PROVE  TypeInv'
  <2>1. Tail(queue[w]) \in Seq(Envelope)
    BY <1>7, TailFacts DEF WriteFail
  <2>2. QED
    BY <1>7, <2>1 DEF WriteFail
<1>8. ASSUME NEW w \in Writers, EndSession(w)
      PROVE  TypeInv'
  BY <1>8 DEF EndSession
<1>9. CASE UNCHANGED vars
  BY <1>9 DEF vars
<1>10. QED
  BY <1>2, <1>3, <1>4, <1>5, <1>6, <1>7, <1>8, <1>9 DEF Next, Close, Crash

\* Every variable keeps its type, for any writers, bounds and faults.
THEOREM TypeCorrect == Spec => []TypeOK
<1>1. TypeInv => TypeOK
  BY DEF TypeInv
<1>2. QED
  BY <1>1, TypeInvInit, TypeInvNext, PTL DEF Spec

-----------------------------------------------------------------------------
(* The file is in the order of the sequence numbers *)

\* The number of the last envelope that left the chain of w.
Base(w) == seq[w] - Len(queue[w])

\* The chain holds the numbers that follow Base, and the file none of them,
\* but for the line the head of the chain is writing.
ChainInv(w) ==
  /\ Base(w) \in Nat
  /\ \A k \in 1..Len(queue[w]) : queue[w][k].seq = Base(w) + k
  /\ \A i \in 1..Len(file) :
       \/ file[i].seq <= Base(w)
       \/ i = Len(file) /\ writing[w] = "fresh" /\ file[i].seq <= Base(w) + 1

OrderInv ==
  /\ \A v, w \in Writers : up[v] /\ up[w] => v = w
  /\ \A w \in Writers : up[w] => sessions > 0
  /\ file # <<>> => sessions > 0
  /\ FileInSeqOrder
  /\ \A w \in Writers : up[w] => ChainInv(w)

LEMMA OrderInvInit == Init => OrderInv
BY DEF Init, OrderInv, FileInSeqOrder, InSeqOrder

\* A session starts on a file all of whose numbers are at most last.
LEMMA OrderInvStart ==
  ASSUME TypeInv, OrderInv, SoleWriter,
         NEW w \in Writers, NEW last \in Nat, StartSession(w, last),
         \A i \in 1..Len(file) : file[i].seq <= last
  PROVE  OrderInv'
<1> USE DEF TypeInv, TypeOK, WriteInv, OrderInv
<1>1. queue'[w] = <<>> /\ seq'[w] = last /\ file' = file
  BY DEF StartSession
<1>2. Base(w)' = last
  BY <1>1 DEF Base
<1>3. ChainInv(w)'
  BY <1>1, <1>2 DEF ChainInv
<1>4. \A v \in Writers : up'[v] => v = w
  BY DEF StartSession, SoleWriter
<1>5. FileInSeqOrder' /\ sessions' > 0
  BY DEF StartSession, FileInSeqOrder
<1>6. QED
  BY <1>3, <1>4, <1>5

\* A line that takes the place of the last one, or comes after it, keeps the
\* order when its number is above those of all the lines before.
LEMMA OrderExtend ==
  ASSUME NEW f \in Seq(Line), NEW g \in Seq(Line), NEW m \in Nat,
         InSeqOrder(f), Len(g) = m, m <= Len(f) + 1,
         \A i \in 1..m : i # m => g[i] = f[i],
         g[m] = Bad \/ \A i \in 1..m : i # m => f[i].seq < g[m].seq
  PROVE  InSeqOrder(g)
<1>1. SUFFICES ASSUME NEW i \in 1..m, NEW j \in 1..m,
                      i < j, g[i] # Bad, g[j] # Bad
               PROVE  g[i].seq < g[j].seq
  BY DEF InSeqOrder
<1>2. i # m /\ g[i] = f[i] /\ i \in 1..Len(f)
  BY <1>1
<1>3. CASE j = m
  BY <1>1, <1>2, <1>3
<1>4. CASE j # m
  <2>1. g[j] = f[j] /\ j \in 1..Len(f)
    BY <1>1, <1>4
  <2>2. QED
    BY <1>1, <1>2, <2>1 DEF InSeqOrder
<1>5. QED
  BY <1>3, <1>4

LEMMA OrderInvWriteStart ==
  ASSUME TypeInv, OrderInv, NEW w \in Writers, WriteStart(w)
  PROVE  OrderInv'
<1>1. /\ file \in Seq(Line) /\ Len(file) \in Nat /\ InSeqOrder(file)
      /\ queue[w] \in Seq(Envelope) /\ queue[w] # <<>>
      /\ openTail => file # <<>>
      /\ writing[w] = "idle" /\ up[w] /\ ChainInv(w) /\ Base(w) \in Nat
  BY DEF WriteStart, TypeInv, TypeOK, WriteInv, OrderInv, FileInSeqOrder, ChainInv
<1>2. /\ queue' = queue /\ seq' = seq /\ up' = up /\ sessions' = sessions
      /\ writing \in [Writers -> Writing]
  BY DEF WriteStart, TypeInv, TypeOK
<1>3. \A i \in 1..Len(file) : file[i].seq <= Base(w) /\ file[i].seq \in Nat
  BY <1>1, LineFields DEF ChainInv
<1>4. /\ Head(queue[w]) \in Line /\ Bad \in Line /\ Bad.seq = 0
      /\ Head(queue[w]).seq = Base(w) + 1
  <2>1. Head(queue[w]) = queue[w][1] /\ Head(queue[w]) \in Envelope /\ 1 \in 1..Len(queue[w])
    BY <1>1, TailFacts
  <2>2. QED
    BY <1>1, <2>1, LineFields DEF ChainInv, Bad
<1>5. /\ InSeqOrder(file')
      /\ file' # <<>>
      /\ \A i \in 1..Len(file') :
           \/ file'[i].seq <= Base(w)
           \/ i = Len(file') /\ writing'[w] = "fresh" /\ file'[i].seq <= Base(w) + 1
  <2>1. CASE openTail
    <3>1. file' = [file EXCEPT ![Len(file)] = Bad] /\ file # <<>>
      BY <1>1, <2>1 DEF WriteStart
    <3>2. /\ file' \in Seq(Line)
          /\ Len(file') = Len(file)
          /\ file'[Len(file)] = Bad
          /\ \A i \in 1..Len(file) : i # Len(file) => file'[i] = file[i]
      BY <1>1, <1>4, <3>1, ReplaceLastFacts
    <3>3. InSeqOrder(file')
      BY <1>1, <3>2, OrderExtend
    <3>4. Len(file) # 0
      BY <1>1, <3>1
    <3>5. QED
      BY <1>1, <1>3, <1>4, <3>2, <3>3, <3>4
  <2>2. CASE ~openTail
    <3>1. PICK part \in {Bad, Head(queue[w])} : file' = Append(file, part)
      BY <2>2 DEF WriteStart
    <3>2. part \in Line /\ part.seq <= Base(w) + 1 /\ writing'[w] = "fresh"
      BY <1>1, <1>2, <1>4, <2>2, <3>1 DEF WriteStart
    <3>3. /\ file' \in Seq(Line)
          /\ Len(file') = Len(file) + 1
          /\ file'[Len(file) + 1] = part
          /\ \A i \in 1..Len(file) : file'[i] = file[i]
      BY <1>1, <3>1, <3>2, AppendFacts
    <3>4. \A i \in 1..(Len(file) + 1) : i # Len(file) + 1 => i \in 1..Len(file)
      BY <1>1
    <3>5. part = Bad \/ \A i \in 1..Len(file) : file[i].seq < part.seq
      BY <1>1, <1>3, <1>4, <3>1
    <3>6. InSeqOrder(file')
      BY <1>1, <3>3, <3>4, <3>5, OrderExtend
    <3>7. QED
      BY <1>1, <1>3, <3>2, <3>3, <3>4, <3>6
  <2>3. QED
    BY <2>1, <2>2
<1>6. ChainInv(w)'
  BY <1>1, <1>2, <1>5 DEF ChainInv, Base
<1>7. \A v, u \in Writers : up'[v] /\ up'[u] => v = u
  BY <1>2 DEF OrderInv
<1>8. \A v \in Writers : up'[v] => ChainInv(v)'
  BY <1>1, <1>2, <1>6, <1>7
<1>9. QED
  BY <1>1, <1>2, <1>5, <1>7, <1>8 DEF OrderInv, FileInSeqOrder

\* The head leaves the chain: the numbers that remain follow a base one higher.
LEMMA ChainShift ==
  ASSUME TypeInv, NEW w \in Writers, ChainInv(w), queue[w] # <<>>,
         seq' = seq, queue' = [queue EXCEPT ![w] = Tail(@)]
  PROVE  /\ Base(w)' = Base(w) + 1
         /\ \A k \in 1..Len(queue'[w]) : queue'[w][k].seq = Base(w)' + k
<1> USE DEF TypeInv, TypeOK
<1>1. /\ queue'[w] = Tail(queue[w])
      /\ Len(queue[w]) \in Nat \ {0}
      /\ Len(queue'[w]) = Len(queue[w]) - 1
      /\ \A k \in 1..Len(queue'[w]) : queue'[w][k] = queue[w][k + 1]
  BY TailFacts
<1>2. Base(w)' = Base(w) + 1 /\ Base(w) \in Nat
  BY <1>1 DEF Base, ChainInv
<1>3. ASSUME NEW k \in 1..Len(queue'[w])
      PROVE  queue'[w][k].seq = Base(w)' + k
  <2>1. k + 1 \in 1..Len(queue[w]) /\ k \in Nat
    BY <1>1
  <2>2. QED
    BY <1>1, <1>2, <2>1 DEF ChainInv
<1>4. QED
  BY <1>2, <1>3

LEMMA OrderInvWriteFinish ==
  ASSUME TypeInv, OrderInv, NEW w \in Writers, WriteFinish(w)
  PROVE  OrderInv'
<1>1. /\ file \in Seq(Line) /\ Len(file) \in Nat /\ InSeqOrder(file) /\ file # <<>>
      /\ queue[w] \in Seq(Envelope) /\ queue[w] # <<>> /\ up[w]
      /\ ChainInv(w) /\ Base(w) \in Nat
  BY DEF WriteFinish, TypeInv, TypeOK, WriteInv, OrderInv, FileInSeqOrder, ChainInv
<1>2. /\ up' = up /\ sessions' = sessions /\ seq' = seq
      /\ queue' = [queue EXCEPT ![w] = Tail(@)]
  BY DEF WriteFinish
<1>3. Head(queue[w]) \in Line /\ Head(queue[w]).seq = Base(w) + 1
  <2>1. Head(queue[w]) = queue[w][1] /\ Head(queue[w]) \in Envelope /\ 1 \in 1..Len(queue[w])
    BY <1>1, TailFacts
  <2>2. QED
    BY <1>1, <2>1, LineFields DEF ChainInv
<1>4. \A i \in 1..Len(file) :
        /\ file[i].seq \in Nat
        /\ i # Len(file) => file[i].seq <= Base(w)
        /\ file[i].seq <= Base(w) + 1
  BY <1>1, LineFields DEF ChainInv
<1>5. /\ Base(w)' = Base(w) + 1
      /\ \A k \in 1..Len(queue'[w]) : queue'[w][k].seq = Base(w)' + k
  BY <1>1, <1>2, ChainShift
<1>6. /\ InSeqOrder(file')
      /\ Len(file') = Len(file)
      /\ \A i \in 1..Len(file) : file'[i].seq <= Base(w) + 1
  <2>1. CASE writing[w] = "fresh"
    <3>1. file' = [file EXCEPT ![Len(file)] = Head(queue[w])]
      BY <2>1 DEF WriteFinish
    <3>2. /\ file' \in Seq(Line)
          /\ Len(file') = Len(file)
          /\ file'[Len(file)] = Head(queue[w])
          /\ \A i \in 1..Len(file) : i # Len(file) => file'[i] = file[i]
      BY <1>1, <1>3, <3>1, ReplaceLastFacts
    <3>3. \A i \in 1..Len(file) : i # Len(file) => file[i].seq < Head(queue[w]).seq
      BY <1>1, <1>3, <1>4
    <3>4. InSeqOrder(file')
      BY <1>1, <3>2, <3>3, OrderExtend
    <3>5. QED
      BY <1>1, <1>3, <1>4, <3>2, <3>4
  <2>2. CASE writing[w] # "fresh"
    BY <2>2, <1>1, <1>4 DEF WriteFinish
  <2>3. QED
    BY <2>1, <2>2
<1>7. ChainInv(w)'
  BY <1>1, <1>5, <1>6 DEF ChainInv
<1>8. \A v, u \in Writers : up'[v] /\ up'[u] => v = u
  BY <1>2 DEF OrderInv
<1>9. \A v \in Writers : up'[v] => ChainInv(v)'
  BY <1>1, <1>2, <1>7, <1>8
<1>10. QED
  BY <1>1, <1>2, <1>6, <1>8, <1>9 DEF OrderInv, FileInSeqOrder

LEMMA OrderInvNext == TypeInv /\ OrderInv /\ [Next]_vars => OrderInv'
<1> SUFFICES ASSUME TypeInv, OrderInv, [Next]_vars
             PROVE  OrderInv'
  OBVIOUS
<1>1. ASSUME NEW w \in Writers, SoleWriter, Create(w)
      PROVE  OrderInv'
  <2>1. file = <<>> /\ StartSession(w, 0)
    BY <1>1 DEF Create, OrderInv
  <2>2. QED
    BY <1>1, <2>1, OrderInvStart
<1>2. ASSUME NEW w \in Writers, SoleWriter, Open(w)
      PROVE  OrderInv'
  <2>1. file \in Seq(Line) /\ Readable(file) /\ StartSession(w, Complete(file))
    BY <1>2 DEF Open, LastSeq, TypeInv, TypeOK
  <2>2. ASSUME NEW i \in 1..Len(file)
        PROVE  file[i].seq <= Complete(file)
    <3>1. CASE i <= Complete(file)
      BY <2>1, <3>1, CompleteFacts DEF Readable
    <3>2. CASE i > Complete(file)
      BY <2>1, <3>2, CompleteFacts DEF Bad
    <3>3. QED
      BY <2>1, <3>1, <3>2, CompleteFacts
  <2>3. Complete(file) \in Nat
    BY <2>1, CompleteFacts
  <2>4. QED
    BY <1>2, <2>1, <2>2, <2>3, OrderInvStart
<1>3. ASSUME NEW w \in Writers, AppendEvent(w)
      PROVE  OrderInv'
  <2>1. /\ queue[w] \in Seq(Envelope) /\ seq[w] \in Nat /\ ChainInv(w) /\ Len(queue[w]) \in Nat
        /\ queue'[w] = Append(queue[w], [seq |-> seq[w] + 1, id |-> issued + 1])
        /\ seq'[w] = seq[w] + 1
        /\ [seq |-> seq[w] + 1, id |-> issued + 1] \in Envelope
    BY <1>3 DEF AppendEvent, TypeInv, TypeOK, OrderInv, Envelope
  <2>2. /\ up' = up /\ file' = file /\ writing' = writing /\ sessions' = sessions
        /\ up[w]
    BY <1>3 DEF AppendEvent
  <2>3. /\ Len(queue'[w]) = Len(queue[w]) + 1
        /\ \A k \in 1..Len(queue[w]) : queue'[w][k] = queue[w][k]
        /\ queue'[w][Len(queue[w]) + 1].seq = seq[w] + 1
    BY <2>1, AppendFacts
  <2>4. Base(w)' = Base(w)
    BY <2>1, <2>3 DEF Base
  <2>5. ASSUME NEW k \in 1..Len(queue'[w])
        PROVE  queue'[w][k].seq = Base(w) + k
    <3>1. CASE k \in 1..Len(queue[w])
      BY <2>1, <2>3, <3>1 DEF ChainInv
    <3>2. CASE k = Len(queue[w]) + 1
      BY <2>1, <2>3, <3>2 DEF Base
    <3>3. QED
      BY <2>1, <2>3, <3>1, <3>2
  <2>6. ChainInv(w)'
    BY <2>1, <2>2, <2>4, <2>5 DEF ChainInv
  <2>7. \A v \in Writers : up'[v] => v = w
    BY <2>2 DEF OrderInv
  <2>8. QED
    BY <2>2, <2>6, <2>7 DEF OrderInv, FileInSeqOrder
<1>4. ASSUME NEW w \in Writers, WriteFail(w)
      PROVE  OrderInv'
  <2>1. /\ queue[w] # <<>> /\ up[w] /\ ChainInv(w) /\ Base(w) \in Nat
        /\ up' = up /\ file' = file /\ sessions' = sessions /\ seq' = seq
        /\ queue' = [queue EXCEPT ![w] = Tail(@)]
        /\ file \in Seq(Line)
    BY <1>4 DEF WriteFail, OrderInv, ChainInv, TypeInv, TypeOK
  <2>2. /\ Base(w)' = Base(w) + 1
        /\ \A k \in 1..Len(queue'[w]) : queue'[w][k].seq = Base(w)' + k
    BY <2>1, ChainShift
  <2>3. \A i \in 1..Len(file) : file[i].seq \in Nat /\ file[i].seq <= Base(w) + 1
    BY <2>1, LineFields DEF ChainInv
  <2>4. ChainInv(w)'
    BY <2>1, <2>2, <2>3 DEF ChainInv
  <2>5. \A v \in Writers : up'[v] => v = w
    BY <2>1 DEF OrderInv
  <2>6. QED
    BY <2>1, <2>4, <2>5 DEF OrderInv, FileInSeqOrder
<1>5. ASSUME NEW w \in Writers, EndSession(w)
      PROVE  OrderInv'
  <2>1. /\ file' = file /\ sessions' = sessions
        /\ \A v \in Writers : up'[v] => v # w /\ up[v]
        /\ \A v \in Writers : v # w =>
             seq'[v] = seq[v] /\ queue'[v] = queue[v] /\ writing'[v] = writing[v]
    BY <1>5 DEF EndSession, TypeInv, TypeOK
  <2>2. \A v \in Writers : up'[v] => ChainInv(v)'
    BY <2>1 DEF OrderInv, ChainInv, Base
  <2>3. QED
    BY <2>1, <2>2 DEF OrderInv, FileInSeqOrder
<1>6. CASE UNCHANGED vars
  BY <1>6 DEF vars, OrderInv, FileInSeqOrder, ChainInv, Base
<1>7. QED
  BY <1>1, <1>2, <1>3, <1>4, <1>5, <1>6, OrderInvWriteStart, OrderInvWriteFinish
     DEF Next, Close, Crash

\* Whatever is cut or refused, the envelopes of the file are in the order of
\* their numbers: readAll's sort finds nothing to do.
THEOREM FileOrder == Spec => []FileInSeqOrder
<1>1. OrderInv => FileInSeqOrder
  BY DEF OrderInv
<1>2. QED
  BY <1>1, TypeInvInit, TypeInvNext, OrderInvInit, OrderInvNext, PTL DEF Spec

-----------------------------------------------------------------------------
(* What cut and failing writes can lose *)

\* No unparsable line stands before the last one.
Intact(f) == \A i \in 1..Len(f) : f[i] = Bad => i = Len(f)

\* The events of the lines that parse.
Parsed(f) == {f[i].id : i \in {j \in 1..Len(f) : f[j] # Bad}}

Lost == acked \ Parsed(file)

\* An event on a chain is not acknowledged, and stands there once.
PendingInv ==
  /\ acked \subseteq 1..issued
  /\ \A w \in Writers : \A k \in 1..Len(queue[w]) :
       /\ queue[w][k].id \in 1..issued
       /\ queue[w][k].id \notin acked
       /\ \A j \in 1..Len(queue[w]) : j < k => queue[w][j].id # queue[w][k].id

\* A line that is still open holds no acknowledged event, so that the write
\* that spoils it costs none.  An acknowledged event is lost when its own
\* bytes were glued to an open line, which they terminate: the next write, the
\* only one that could lose a second, puts a line behind it.
LossInv ==
  /\ \A w \in Writers :
       /\ writing[w] # "idle" => openTail
       /\ writing[w] = "glued" => file[Len(file)] = Bad
  /\ openTail => file[Len(file)].id \notin acked
  /\ Intact(file) =>
       /\ \A a, b \in Lost : a = b
       /\ Lost # {} => ~openTail /\ file # <<>> /\ file[Len(file)] = Bad

LEMMA ParsedFacts ==
  ASSUME NEW f \in Seq(Line), Readable(f)
  PROVE  Intact(f) /\ Replayed(f) = Parsed(f)
<1>1. /\ Complete(f) \in Nat /\ Complete(f) <= Len(f) /\ Len(f) \in Nat
      /\ \A i \in 1..Len(f) : i > Complete(f) => f[i] = Bad
      /\ Complete(f) \in {Len(f), Len(f) - 1}
  BY CompleteFacts DEF Complete
<1>2. \A i \in 1..Complete(f) : f[i] # Bad
  BY DEF Readable
<1>3. \A i \in 1..Len(f) : f[i] # Bad <=> i \in 1..Complete(f)
  BY <1>1, <1>2
<1>4. {j \in 1..Len(f) : f[j] # Bad} = 1..Complete(f)
  BY <1>1, <1>3
<1>5. Replayed(f) = Parsed(f)
  BY <1>4 DEF Replayed, Parsed
<1>6. Intact(f)
  BY <1>1, <1>3 DEF Intact
<1> QED
  BY <1>5, <1>6

LEMMA PendingInvInit == Init => PendingInv
BY DEF Init, PendingInv

LEMMA PendingInvNext == TypeInv /\ OrderInv /\ PendingInv /\ [Next]_vars => PendingInv'
<1> SUFFICES ASSUME TypeInv, OrderInv, PendingInv, [Next]_vars
             PROVE  PendingInv'
  OBVIOUS
<1>0. /\ queue \in [Writers -> Seq(Envelope)] /\ issued \in Nat
      /\ \A w \in Writers : queue[w] \in Seq(Envelope) /\ Len(queue[w]) \in Nat
  BY DEF TypeInv, TypeOK
<1>1. ASSUME acked' = acked, issued' = issued,
             \A w \in Writers : queue'[w] = queue[w] \/ queue'[w] = <<>>
      PROVE  PendingInv'
  BY <1>1 DEF PendingInv
<1>2. ASSUME NEW w \in Writers, AppendEvent(w)
      PROVE  PendingInv'
  <2> DEFINE e == [seq |-> seq[w] + 1, id |-> issued + 1]
  <2>1. /\ queue' = [queue EXCEPT ![w] = Append(@, e)]
        /\ acked' = acked /\ issued' = issued + 1
    BY <1>2 DEF AppendEvent
  <2>2. e \in Envelope /\ e.id = issued + 1
    BY DEF Envelope, TypeInv, TypeOK
  <2>3. /\ queue'[w] = Append(queue[w], e)
        /\ \A v \in Writers : v # w => queue'[v] = queue[v]
    BY <1>0, <2>1
  <2>4. /\ Len(queue'[w]) = Len(queue[w]) + 1
        /\ \A k \in 1..Len(queue[w]) : queue'[w][k] = queue[w][k]
        /\ queue'[w][Len(queue[w]) + 1] = e
    BY <1>0, <2>2, <2>3, AppendFacts
  <2>5. \A i \in 1..issued : i \in 1..issued' /\ i # issued + 1
    BY <1>0, <2>1
  <2>6. issued + 1 \notin acked /\ issued + 1 \in 1..issued'
    BY <1>0, <2>1, <2>5 DEF PendingInv
  <2>7. ASSUME NEW v \in Writers, NEW k \in 1..Len(queue'[v])
        PROVE  /\ queue'[v][k].id \in 1..issued'
               /\ queue'[v][k].id \notin acked'
               /\ \A j \in 1..Len(queue'[v]) : j < k => queue'[v][j].id # queue'[v][k].id
    <3>1. CASE v # w
      BY <2>1, <2>3, <2>5, <2>7, <3>1 DEF PendingInv
    <3>2. CASE v = w /\ k \in 1..Len(queue[w])
      <4>1. \A j \in 1..Len(queue'[w]) : j < k => j \in 1..Len(queue[w])
        BY <1>0, <2>4, <3>2
      <4> QED
        BY <2>1, <2>4, <2>5, <3>2, <4>1 DEF PendingInv
    <3>3. CASE v = w /\ k = Len(queue[w]) + 1
      <4>1. \A j \in 1..Len(queue'[w]) : j < k => j \in 1..Len(queue[w])
        BY <1>0, <2>4, <3>3
      <4>2. \A j \in 1..Len(queue[w]) : queue[w][j].id # issued + 1
        BY <2>5 DEF PendingInv
      <4> QED
        BY <2>1, <2>2, <2>4, <2>6, <3>3, <4>1, <4>2
    <3> QED
      BY <1>0, <2>4, <2>7, <3>1, <3>2, <3>3
  <2>8. acked' \subseteq 1..issued'
    BY <2>1, <2>5 DEF PendingInv
  <2> QED
    BY <2>7, <2>8 DEF PendingInv
<1>3. ASSUME NEW w \in Writers, up[w], queue[w] # <<>>,
             queue' = [queue EXCEPT ![w] = Tail(@)],
             acked' = acked \/ acked' = acked \cup {Head(queue[w]).id}, issued' = issued
      PROVE  PendingInv'
  <2>1. /\ queue'[w] = Tail(queue[w])
        /\ \A v \in Writers : v # w => queue'[v] = queue[v] /\ queue[v] = <<>>
    BY <1>0, <1>3 DEF TypeInv, WriteInv, OrderInv
  <2>2. /\ Len(queue[w]) \in Nat \ {0}
        /\ Len(queue'[w]) = Len(queue[w]) - 1
        /\ \A k \in 1..Len(queue'[w]) : queue'[w][k] = queue[w][k + 1]
        /\ Head(queue[w]) = queue[w][1]
    BY <1>0, <1>3, <2>1, TailFacts
  <2>3. \A k \in 1..Len(queue'[w]) :
          k + 1 \in 1..Len(queue[w]) /\ 1 < k + 1 /\ 1 \in 1..Len(queue[w])
    BY <2>2
  <2>4. queue[w][1].id \in 1..issued /\ acked' \subseteq 1..issued'
    <3>1. 1 \in 1..Len(queue[w])
      BY <2>2
    <3>2. queue[w][1].id \in 1..issued
      BY <3>1 DEF PendingInv
    <3>3. acked \subseteq 1..issued
      BY DEF PendingInv
    <3> QED
      BY <1>3, <2>2, <3>2, <3>3
  <2>5. ASSUME NEW k \in 1..Len(queue'[w])
        PROVE  /\ queue'[w][k].id \in 1..issued'
               /\ queue'[w][k].id \notin acked'
               /\ \A j \in 1..Len(queue'[w]) : j < k => queue'[w][j].id # queue'[w][k].id
    <3>1. /\ queue'[w][k] = queue[w][k + 1] /\ k + 1 \in 1..Len(queue[w])
          /\ queue[w][1].id # queue[w][k + 1].id
      BY <2>2, <2>3 DEF PendingInv
    <3>2. \A j \in 1..Len(queue'[w]) : j < k =>
            j + 1 \in 1..Len(queue[w]) /\ j + 1 < k + 1 /\ queue'[w][j] = queue[w][j + 1]
      BY <2>2, <2>3
    <3> QED
      BY <1>3, <2>2, <3>1, <3>2 DEF PendingInv
  <2>6. \A v \in Writers : v # w => Len(queue'[v]) = 0
    BY <2>1
  <2> QED
    BY <2>4, <2>5, <2>6 DEF PendingInv
<1>4. ASSUME NEW w \in Writers,
             \/ Create(w) \/ Open(w) \/ WriteStart(w) \/ EndSession(w)
      PROVE  PendingInv'
  BY <1>0, <1>1, <1>4 DEF Create, Open, StartSession, WriteStart, EndSession
<1>5. ASSUME NEW w \in Writers, WriteFinish(w) \/ WriteFail(w)
      PROVE  PendingInv'
  BY <1>3, <1>5 DEF WriteFinish, WriteFail, TypeInv, WriteInv
<1>6. CASE UNCHANGED vars
  BY <1>1, <1>6 DEF vars
<1> QED
  BY <1>2, <1>4, <1>5, <1>6 DEF Next, Close, Crash

LEMMA LossInvInit == Init => LossInv
BY DEF Init, LossInv, Lost

\* What the lines of a file keep when its last line is replaced.
LEMMA LastReplaced ==
  ASSUME NEW A, NEW f \in Seq(Line), f # <<>>, f[Len(f)].id \notin A,
         NEW g \in Seq(Line), Len(g) = Len(f),
         \A i \in 1..Len(f) : i # Len(f) => g[i] = f[i]
  PROVE  /\ g # <<>>
         /\ Intact(g) => Intact(f)
         /\ A \cap Parsed(f) \subseteq Parsed(g)
         /\ g[Len(f)] # Bad => g[Len(f)].id \in Parsed(g)
<1>1. Len(f) \in Nat \ {0}
  OBVIOUS
<1>2. g # <<>> /\ Len(f) \in 1..Len(g)
  BY <1>1
<1>3. Intact(g) => Intact(f)
  BY <1>1 DEF Intact
<1>4. ASSUME NEW a \in A \cap Parsed(f)
      PROVE  a \in Parsed(g)
  <2>1. PICK i \in 1..Len(f) : f[i] # Bad /\ a = f[i].id
    BY <1>4 DEF Parsed
  <2>2. i # Len(f)
    BY <1>4, <2>1
  <2>3. i \in 1..Len(g) /\ g[i] # Bad /\ a = g[i].id
    BY <1>1, <2>1, <2>2
  <2> QED
    BY <2>3 DEF Parsed
<1>5. g[Len(f)] # Bad => g[Len(f)].id \in Parsed(g)
  BY <1>1, <1>2 DEF Parsed
<1> QED
  BY <1>1, <1>2, <1>3, <1>4, <1>5

\* What they keep when a line is added: a file that is intact then had no
\* unparsable line at all.
LEMMA LineAdded ==
  ASSUME NEW f \in Seq(Line), NEW g \in Seq(Line),
         Len(g) = Len(f) + 1, \A i \in 1..Len(f) : g[i] = f[i]
  PROVE  /\ g # <<>>
         /\ Intact(g) => \A i \in 1..Len(f) : f[i] # Bad
         /\ Parsed(f) \subseteq Parsed(g)
<1>1. Len(f) \in Nat
  OBVIOUS
<1>2. g # <<>>
  BY <1>1
<1>3. \A i \in 1..Len(f) : i \in 1..Len(g) /\ i # Len(g)
  BY <1>1
<1>4. Intact(g) => \A i \in 1..Len(f) : f[i] # Bad
  BY <1>1, <1>3 DEF Intact
<1>5. Parsed(f) \subseteq Parsed(g)
  BY <1>1, <1>3 DEF Parsed
<1> QED
  BY <1>1, <1>2, <1>4, <1>5

\* A step that begins a write loses nothing that a line held.
LEMMA StartKeeps ==
  ASSUME TypeInv, OrderInv, PendingInv, LossInv, NEW w \in Writers, WriteStart(w)
  PROVE  LossInv' /\ (Intact(file') => acked \subseteq Parsed(file') /\ acked' = acked)
<1>1. /\ file \in Seq(Line) /\ Len(file) \in Nat /\ (openTail => file # <<>>)
      /\ queue[w] \in Seq(Envelope) /\ queue[w] # <<>> /\ acked' = acked
      /\ writing \in [Writers -> Writing]
      /\ up[w] /\ writing[w] = "idle" /\ openTail'
  BY DEF WriteStart, TypeInv, TypeOK, WriteInv
<1>0. file' \in Seq(Line)
  BY TypeInvNext DEF TypeInv, TypeOK, Next
<1>2. /\ Head(queue[w]) \in Line /\ Bad \in Line /\ Head(queue[w]).id \notin acked
  <2>1. Head(queue[w]) = queue[w][1] /\ Head(queue[w]) \in Envelope /\ 1 \in 1..Len(queue[w])
    BY <1>1, TailFacts
  <2> QED
    BY <2>1, LineFields DEF PendingInv
<1>3. Bad.id \notin acked
  <2>1. Bad.id = 0 /\ issued \in Nat
    BY DEF Bad, TypeInv, TypeOK
  <2> QED
    BY <2>1 DEF PendingInv
<1>4. \A v \in Writers : v # w => writing'[v] = "idle"
  BY <1>1 DEF WriteStart, TypeInv, WriteInv, OrderInv
<1>5. CASE openTail
  <2>1. file' = [file EXCEPT ![Len(file)] = Bad] /\ writing'[w] = "glued"
    BY <1>1, <1>5 DEF WriteStart
  <2>2. /\ file' # <<>> /\ file'[Len(file')] = Bad
        /\ Intact(file') => Intact(file)
        /\ acked \cap Parsed(file) \subseteq Parsed(file')
    <3>1. /\ Len(file') = Len(file) /\ file'[Len(file)] = Bad
          /\ \A i \in 1..Len(file) : i # Len(file) => file'[i] = file[i]
      BY <1>1, <1>2, <1>5, <2>1, ReplaceLastFacts
    <3>2. file[Len(file)].id \notin acked
      BY <1>5 DEF LossInv
    <3>3. /\ file' # <<>>
          /\ Intact(file') => Intact(file)
          /\ acked \cap Parsed(file) \subseteq Parsed(file')
      BY <1>0, <1>1, <1>5, <3>1, <3>2, LastReplaced
    <3> QED
      BY <3>1, <3>3
  <2>3. Intact(file') => acked \subseteq Parsed(file')
    BY <1>5, <2>2 DEF LossInv, Lost
  <2>4. Intact(file') => Lost' = {}
    BY <1>1, <2>3 DEF Lost
  <2>5. \A v \in Writers : writing'[v] = "glued" => file'[Len(file')] = Bad
    BY <2>2
  <2>6. file'[Len(file')].id \notin acked'
    BY <1>1, <1>3, <2>2
  <2>7. Intact(file') => (\A a, b \in Lost' : a = b) /\ ~(Lost' # {})
    BY <2>4
  <2> QED
    BY <1>1, <2>3, <2>5, <2>6, <2>7 DEF LossInv
<1>6. CASE ~openTail
  <2>1. PICK part \in {Bad, Head(queue[w])} : file' = Append(file, part)
    BY <1>6 DEF WriteStart
  <2>2. writing'[w] = "fresh"
    BY <1>1, <1>6 DEF WriteStart
  <2>3. part \in Line /\ part.id \notin acked
    BY <1>2, <1>3
  <2>4. /\ file' # <<>> /\ file'[Len(file')] = part
        /\ Intact(file') => \A i \in 1..Len(file) : file[i] # Bad
        /\ Parsed(file) \subseteq Parsed(file')
    <3>1. /\ Len(file') = Len(file) + 1 /\ file'[Len(file) + 1] = part
          /\ \A i \in 1..Len(file) : file'[i] = file[i]
      BY <1>1, <2>1, <2>3, AppendFacts
    <3>2. /\ file' # <<>>
          /\ Intact(file') => \A i \in 1..Len(file) : file[i] # Bad
          /\ Parsed(file) \subseteq Parsed(file')
      BY <1>0, <1>1, <3>1, LineAdded
    <3> QED
      BY <3>1, <3>2
  <2>5. ASSUME Intact(file')
        PROVE  acked \subseteq Parsed(file')
    <3>1. \A i \in 1..Len(file) : file[i] # Bad
      BY <2>4, <2>5
    <3>2. Intact(file)
      BY <3>1 DEF Intact
    <3>3. file # <<>> => Len(file) \in 1..Len(file)
      BY <1>1
    <3>4. Lost = {}
      BY <3>1, <3>2, <3>3 DEF LossInv
    <3> QED
      BY <2>4, <3>4 DEF Lost
  <2> QED
    BY <1>1, <1>4, <2>2, <2>3, <2>4, <2>5 DEF LossInv, Lost
<1> QED
  BY <1>5, <1>6

LEMMA FinishKeeps ==
  ASSUME TypeInv, OrderInv, PendingInv, LossInv, NEW w \in Writers, WriteFinish(w)
  PROVE  /\ LossInv'
         /\ Intact(file') => Intact(file)
         /\ acked \cap Parsed(file) \subseteq Parsed(file')
<1>1. /\ file \in Seq(Line) /\ file # <<>> /\ ~openTail'
      /\ queue[w] \in Seq(Envelope) /\ queue[w] # <<>>
      /\ writing \in [Writers -> Writing]
      /\ acked' = acked \cup {Head(queue[w]).id}
      /\ writing[w] # "idle" /\ up[w] /\ writing' = [writing EXCEPT ![w] = "idle"]
  BY DEF WriteFinish, TypeInv, TypeOK, WriteInv
<1>0. file' \in Seq(Line)
  BY TypeInvNext DEF TypeInv, TypeOK, Next
<1>2. openTail /\ file[Len(file)].id \notin acked
  BY <1>1 DEF LossInv
<1>3. Intact(file) => acked \subseteq Parsed(file)
  BY <1>2 DEF LossInv, Lost
<1>4. \A v \in Writers : writing'[v] = "idle"
  BY <1>1 DEF TypeInv, WriteInv, OrderInv
<1>5. CASE writing[w] = "fresh"
  <2>1. file' = [file EXCEPT ![Len(file)] = Head(queue[w])]
    BY <1>5 DEF WriteFinish
  <2>2. Head(queue[w]) \in Line /\ Head(queue[w]) # Bad
    BY <1>1, TailFacts, LineFields
  <2>3. /\ Intact(file') => Intact(file)
        /\ acked \cap Parsed(file) \subseteq Parsed(file')
        /\ Head(queue[w]).id \in Parsed(file')
    <3>1. /\ Len(file') = Len(file) /\ file'[Len(file)] = Head(queue[w])
          /\ \A i \in 1..Len(file) : i # Len(file) => file'[i] = file[i]
      BY <1>1, <2>1, <2>2, ReplaceLastFacts
    <3>2. /\ Intact(file') => Intact(file)
          /\ acked \cap Parsed(file) \subseteq Parsed(file')
          /\ file'[Len(file)] # Bad => file'[Len(file)].id \in Parsed(file')
      BY <1>0, <1>1, <1>2, <3>1, LastReplaced
    <3> QED
      BY <2>2, <3>1, <3>2
  <2>4. Intact(file') => Lost' = {}
    BY <1>1, <1>3, <2>3 DEF Lost
  <2> QED
    BY <1>1, <1>4, <2>3, <2>4 DEF LossInv
<1>6. CASE writing[w] = "glued"
  <2>1. file' = file /\ file[Len(file)] = Bad
    BY <1>6 DEF WriteFinish, LossInv
  <2>2. Intact(file') => Lost' \subseteq {Head(queue[w]).id}
    BY <1>1, <1>3, <2>1 DEF Lost
  <2> QED
    BY <1>1, <1>4, <2>1, <2>2 DEF LossInv
<1> QED
  BY <1>1, <1>5, <1>6 DEF Writing

LEMMA LossInvNext ==
  TypeInv /\ OrderInv /\ PendingInv /\ LossInv /\ [Next]_vars => LossInv'
<1> SUFFICES ASSUME TypeInv, OrderInv, PendingInv, LossInv, [Next]_vars
             PROVE  LossInv'
  OBVIOUS
<1>1. ASSUME file' = file, openTail' = openTail, acked' = acked,
             \A w \in Writers : writing'[w] \in {writing[w], "idle"}
      PROVE  LossInv'
  BY <1>1 DEF LossInv, Lost
<1>2. ASSUME NEW w \in Writers,
             \/ Create(w) \/ Open(w) \/ AppendEvent(w) \/ WriteFail(w) \/ EndSession(w)
      PROVE  LossInv'
  <2>1. /\ file' = file /\ openTail' = openTail /\ acked' = acked
        /\ writing' \in {writing, [writing EXCEPT ![w] = "idle"]}
    BY <1>2 DEF Create, Open, StartSession, AppendEvent, WriteFail, EndSession
  <2>2. \A v \in Writers : writing'[v] \in {writing[v], "idle"}
    BY <2>1 DEF TypeInv, TypeOK
  <2> QED
    BY <1>1, <2>1, <2>2
<1>3. CASE UNCHANGED vars
  BY <1>1, <1>3 DEF vars
<1> QED
  BY <1>2, <1>3, StartKeeps, FinishKeeps DEF Next, Close, Crash

\* Whatever writes are cut or refused, a replay that succeeds has lost at most
\* one acknowledged event: the one whose bytes ended an open line.
THEOREM OneLost == Spec => []AtMostOneLost
<1>1. TypeInv /\ LossInv => AtMostOneLost
  BY ParsedFacts DEF LossInv, Lost, AtMostOneLost, TypeInv, TypeOK
<1> QED
  BY <1>1, TypeInvInit, TypeInvNext, OrderInvInit, OrderInvNext, PendingInvInit,
     PendingInvNext, LossInvInit, LossInvNext, PTL DEF Spec

LEMMA AckedStaysStep ==
  TypeInv /\ OrderInv /\ PendingInv /\ LossInv /\ [Next]_vars =>
    (Readable(file) /\ Readable(file') => acked \cap Replayed(file) \subseteq Replayed(file'))
<1> SUFFICES ASSUME TypeInv, OrderInv, PendingInv, LossInv, [Next]_vars,
                    Readable(file), Readable(file')
             PROVE  acked \cap Replayed(file) \subseteq Replayed(file')
  OBVIOUS
<1>1. /\ Replayed(file) = Parsed(file) /\ Replayed(file') = Parsed(file') /\ Intact(file')
  <2>1. file \in Seq(Line)
    BY DEF TypeInv, TypeOK
  <2>2. file' \in Seq(Line)
    BY TypeInvNext DEF TypeInv, TypeOK
  <2> QED
    BY <2>1, <2>2, ParsedFacts
<1>2. CASE file' = file
  BY <1>2
<1>3. ASSUME NEW w \in Writers, WriteStart(w)
      PROVE  acked \cap Parsed(file) \subseteq Parsed(file')
  BY <1>1, <1>3, StartKeeps
<1>4. ASSUME NEW w \in Writers, WriteFinish(w)
      PROVE  acked \cap Parsed(file) \subseteq Parsed(file')
  BY <1>4, FinishKeeps
<1> QED
  BY <1>1, <1>2, <1>3, <1>4
     DEF Next, vars, Create, Open, StartSession, AppendEvent, WriteFail, Close, Crash, EndSession

\* An acknowledged event that a replay returns stays in every replay that
\* succeeds: the line it stands on is closed, so no later write touches it.
THEOREM AckedForever == Spec => AckedStays
<1> QED
  BY TypeInvInit, TypeInvNext, OrderInvInit, OrderInvNext, PendingInvInit,
     PendingInvNext, LossInvInit, LossInvNext, AckedStaysStep, PTL
     DEF Spec, AckedStays

-----------------------------------------------------------------------------
(* Without cut or failing writes *)

NoFaults == ~CutWrites /\ ~IoErrors

\* The lines that end in a newline.
Closed == IF openTail THEN Len(file) - 1 ELSE Len(file)

\* Every terminated line holds the envelope of its own number, an unterminated
\* one is the head of a chain being written, and what was acknowledged stands
\* in a terminated line.
CleanInv ==
  /\ \A i \in 1..Closed : file[i].seq = i
  /\ openTail => \E w \in Writers : writing[w] = "fresh"
  /\ \A w \in Writers :
       /\ writing[w] # "glued"
       /\ writing[w] = "fresh" => openTail /\ file[Len(file)] \in {Bad, Head(queue[w])}
       /\ up[w] => Base(w) = Closed
  /\ acked \subseteq {file[i].id : i \in 1..Closed}

\* The unterminated line, when it parses, has the number that comes next.
LEMMA CleanOpenLine ==
  ASSUME TypeInv, OrderInv, CleanInv, openTail
  PROVE  /\ Closed = Len(file) - 1 /\ Closed \in Nat
         /\ file[Len(file)] = Bad \/ file[Len(file)].seq = Len(file)
<1>1. PICK w \in Writers : writing[w] = "fresh"
  BY DEF CleanInv
<1>2. /\ file \in Seq(Line) /\ file # <<>> /\ up[w] /\ ChainInv(w) /\ Base(w) = Closed
      /\ queue[w] \in Seq(Envelope) /\ queue[w] # <<>>
      /\ file[Len(file)] \in {Bad, Head(queue[w])}
  BY <1>1 DEF CleanInv, TypeInv, TypeOK, WriteInv, OrderInv
<1>3. Len(file) \in Nat \ {0} /\ Closed = Len(file) - 1
  BY <1>2 DEF Closed
<1>4. Head(queue[w]) = queue[w][1] /\ 1 \in 1..Len(queue[w])
  BY <1>2, TailFacts
<1>5. Head(queue[w]).seq = Len(file)
  BY <1>2, <1>3, <1>4 DEF ChainInv
<1>6. QED
  BY <1>2, <1>3, <1>5

LEMMA CleanComplete ==
  ASSUME TypeInv, OrderInv, CleanInv
  PROVE  /\ Closed \in Nat /\ Complete(file) \in Nat
         /\ Closed <= Complete(file) /\ Complete(file) <= Len(file)
         /\ ~openTail => Closed = Len(file)
         /\ \A i \in 1..Complete(file) : file[i] # Bad /\ file[i].seq = i
<1>1. file \in Seq(Line) /\ Len(file) \in Nat /\ Bad.seq = 0
  BY DEF TypeInv, TypeOK, Bad
<1>2. \A i \in 1..Closed : file[i].seq = i
  BY DEF CleanInv
<1>3. CASE ~openTail
  <2>1. Closed = Len(file)
    BY <1>3 DEF Closed
  <2>2. \A i \in 1..Len(file) : file[i] # Bad
    BY <1>1, <1>2, <2>1
  <2>3. Complete(file) = Len(file)
    BY <1>1, <2>2 DEF Complete
  <2>4. QED
    BY <1>1, <1>2, <2>1, <2>2, <2>3
<1>4. CASE openTail
  <2>1. /\ Closed = Len(file) - 1 /\ Closed \in Nat
        /\ file[Len(file)] = Bad \/ file[Len(file)].seq = Len(file)
    BY <1>4, CleanOpenLine
  <2>2. \A i \in 1..Closed : file[i] # Bad
    BY <1>1, <1>2, <2>1
  <2>3. Len(file) > 0 /\ Closed + 1 = Len(file)
    BY <1>1, <2>1
  <2>4. CASE file[Len(file)] = Bad
    <3>1. Complete(file) = Closed
      BY <2>1, <2>3, <2>4 DEF Complete
    <3>2. QED
      BY <1>1, <1>2, <1>4, <2>1, <2>2, <3>1
  <2>5. CASE file[Len(file)] # Bad
    <3>1. Complete(file) = Len(file)
      BY <2>5 DEF Complete
    <3>2. QED
      BY <1>1, <1>2, <1>4, <2>1, <2>2, <2>3, <2>5, <3>1
  <2>6. QED
    BY <2>4, <2>5
<1>5. QED
  BY <1>3, <1>4

LEMMA CleanReadable ==
  ASSUME TypeInv, OrderInv, CleanInv
  PROVE  Readable(file) /\ acked \subseteq Replayed(file)
<1>1. /\ Closed \in Nat /\ Complete(file) \in Nat /\ Closed <= Complete(file)
      /\ \A i \in 1..Complete(file) : file[i] # Bad /\ file[i].seq = i
  BY CleanComplete
<1>2. Readable(file)
  BY <1>1 DEF Readable
<1>3. \A i \in 1..Closed : i \in 1..Complete(file)
  BY <1>1
<1>4. acked \subseteq Replayed(file)
  BY <1>3 DEF CleanInv, Replayed
<1>5. QED
  BY <1>2, <1>4

LEMMA CleanInvInit == Init => CleanInv
BY DEF Init, CleanInv, Closed

\* When no write is in progress the last line is terminated.
LEMMA CleanIdle ==
  ASSUME CleanInv, \A w \in Writers : writing[w] = "idle"
  PROVE  ~openTail /\ Closed = Len(file)
BY DEF CleanInv, Closed

LEMMA CleanInvStart ==
  ASSUME TypeInv, OrderInv, CleanInv, SoleWriter,
         NEW w \in Writers, NEW last \in Nat, StartSession(w, last), last = Closed
  PROVE  CleanInv'
<1>1. Closed' = Closed /\ file' = file /\ acked' = acked /\ writing' = writing
      /\ openTail' = openTail /\ queue' = queue
  BY DEF StartSession, Closed
<1>2. queue[w] = <<>> /\ seq'[w] = last
  BY DEF SoleWriter, StartSession, TypeInv, TypeOK, WriteInv
<1>3. Base(w)' = last
  BY <1>1, <1>2 DEF Base
<1>4. \A v \in Writers : up'[v] => v = w
  BY DEF SoleWriter, StartSession, TypeInv, TypeOK
<1>5. QED
  BY <1>1, <1>3, <1>4 DEF CleanInv

LEMMA CleanInvWriteStart ==
  ASSUME TypeInv, OrderInv, CleanInv, NEW w \in Writers, WriteStart(w)
  PROVE  /\ CleanInv' /\ ~openTail /\ Closed' = Closed
         /\ \E part \in {Bad, Head(queue[w])} : file' = Append(file, part)
<1>1. /\ file \in Seq(Line) /\ Len(file) \in Nat /\ writing \in [Writers -> Writing]
      /\ queue[w] \in Seq(Envelope) /\ queue[w] # <<>> /\ writing[w] = "idle" /\ up[w]
  BY DEF WriteStart, TypeInv, TypeOK
<1>2. \A v \in Writers : writing[v] = "idle"
  BY <1>1 DEF TypeInv, WriteInv, OrderInv
<1>3. ~openTail /\ Closed = Len(file)
  BY <1>2, CleanIdle
<1>4. PICK part \in {Bad, Head(queue[w])} : file' = Append(file, part)
  BY <1>3 DEF WriteStart
<1>5. /\ queue' = queue /\ seq' = seq /\ up' = up /\ acked' = acked /\ openTail' = TRUE
      /\ writing' = [writing EXCEPT ![w] = "fresh"]
  BY <1>3 DEF WriteStart
<1>6. part \in Line
  BY <1>1, LineFields, TailFacts
<1>7. /\ file' \in Seq(Line) /\ Len(file') = Len(file) + 1
      /\ file'[Len(file')] = part
      /\ \A i \in 1..Len(file) : file'[i] = file[i]
  BY <1>1, <1>4, <1>6, AppendFacts
<1>8. Closed' = Closed
  BY <1>1, <1>3, <1>5, <1>7 DEF Closed
<1>9. \A i \in 1..Closed' : file'[i].seq = i
  BY <1>3, <1>7, <1>8 DEF CleanInv
<1>10. acked' \subseteq {file'[i].id : i \in 1..Closed'}
  BY <1>3, <1>5, <1>7, <1>8 DEF CleanInv
<1>11. \A v \in Writers :
         /\ writing'[v] # "glued"
         /\ writing'[v] = "fresh" => openTail' /\ file'[Len(file')] \in {Bad, Head(queue'[v])}
         /\ up'[v] => Base(v)' = Closed'
  <2>1. \A v \in Writers : writing'[v] = IF v = w THEN "fresh" ELSE "idle"
    BY <1>1, <1>2, <1>5
  <2>2. \A v \in Writers : up'[v] => Base(v)' = Closed'
    BY <1>5, <1>8 DEF Base, CleanInv
  <2>3. QED
    BY <1>4, <1>5, <1>7, <2>1, <2>2
<1>12. \E v \in Writers : writing'[v] = "fresh"
  BY <1>1, <1>5
<1>13. QED
  BY <1>3, <1>4, <1>8, <1>9, <1>10, <1>11, <1>12 DEF CleanInv

LEMMA CleanInvWriteFinish ==
  ASSUME TypeInv, OrderInv, CleanInv, NEW w \in Writers, WriteFinish(w)
  PROVE  /\ CleanInv' /\ openTail /\ Len(file') = Len(file) /\ Len(file) \in Nat \ {0}
         /\ file'[Len(file)] = Head(queue[w])
         /\ file[Len(file)] \in {Bad, Head(queue[w])}
         /\ Head(queue[w]) # Bad
         /\ Closed' = Len(file)
         /\ \A i \in 1..Len(file) : i # Len(file) => file'[i] = file[i]
<1>1. /\ file \in Seq(Line) /\ file # <<>> /\ writing \in [Writers -> Writing]
      /\ queue[w] \in Seq(Envelope) /\ queue[w] # <<>>
      /\ up[w] /\ writing[w] = "fresh" /\ openTail /\ ChainInv(w) /\ Base(w) = Closed
      /\ file[Len(file)] \in {Bad, Head(queue[w])}
  BY DEF WriteFinish, TypeInv, TypeOK, WriteInv, OrderInv, CleanInv, Writing
<1>2. Len(file) \in Nat \ {0} /\ Closed = Len(file) - 1
  BY <1>1 DEF Closed
<1>3. Head(queue[w]) \in Line /\ Head(queue[w]) # Bad /\ Head(queue[w]).seq = Len(file)
  <2>1. Head(queue[w]) = queue[w][1] /\ Head(queue[w]) \in Envelope /\ 1 \in 1..Len(queue[w])
    BY <1>1, TailFacts
  <2>2. QED
    BY <1>1, <1>2, <2>1, LineFields DEF ChainInv
<1>4. /\ queue' = [queue EXCEPT ![w] = Tail(@)] /\ seq' = seq /\ up' = up
      /\ acked' = acked \cup {Head(queue[w]).id} /\ openTail' = FALSE
      /\ writing' = [writing EXCEPT ![w] = "idle"]
      /\ file' = [file EXCEPT ![Len(file)] = Head(queue[w])]
  BY <1>1 DEF WriteFinish
<1>5. /\ file' \in Seq(Line) /\ Len(file') = Len(file)
      /\ file'[Len(file)] = Head(queue[w])
      /\ \A i \in 1..Len(file) : i # Len(file) => file'[i] = file[i]
  BY <1>1, <1>3, <1>4, ReplaceLastFacts
<1>6. Closed' = Len(file)
  BY <1>4, <1>5 DEF Closed
<1>7. \A i \in 1..Closed : i \in 1..Len(file) /\ i # Len(file) /\ file'[i] = file[i]
  BY <1>2, <1>5
<1>8. \A i \in 1..Closed' : file'[i].seq = i
  <2>1. \A i \in 1..Len(file) : i # Len(file) => i \in 1..Closed
    BY <1>2
  <2>2. QED
    BY <1>3, <1>5, <1>6, <1>7, <2>1 DEF CleanInv
<1>9. acked' \subseteq {file'[i].id : i \in 1..Closed'}
  <2>1. SUFFICES ASSUME NEW e \in acked'
                 PROVE  \E i \in 1..Len(file) : file'[i].id = e
    BY <1>6
  <2>2. CASE e = Head(queue[w]).id
    BY <1>2, <1>5, <2>2
  <2>3. CASE e \in acked
    <3>1. PICK i \in 1..Closed : file[i].id = e
      BY <2>3 DEF CleanInv
    <3>2. QED
      BY <1>7, <3>1
  <2>4. QED
    BY <1>4, <2>1, <2>2, <2>3
<1>10. \A v \in Writers : writing'[v] = "idle"
  BY <1>1, <1>4 DEF TypeInv, WriteInv, OrderInv
<1>11. \A v \in Writers : up'[v] => Base(v)' = Closed'
  <2>1. Base(w)' = Base(w) + 1
    BY <1>1, <1>4, ChainShift
  <2>2. \A v \in Writers : up'[v] => v = w
    BY <1>1, <1>4 DEF OrderInv
  <2>3. QED
    BY <1>1, <1>2, <1>6, <2>1, <2>2
<1>12. CleanInv'
  BY <1>4, <1>8, <1>9, <1>10, <1>11 DEF CleanInv
<1>13. QED
  BY <1>1, <1>2, <1>3, <1>5, <1>6, <1>12

LEMMA CleanInvAppend ==
  ASSUME TypeInv, OrderInv, CleanInv, NEW w \in Writers, AppendEvent(w)
  PROVE  CleanInv'
<1> DEFINE e == [seq |-> seq[w] + 1, id |-> issued + 1]
<1>1. /\ queue[w] \in Seq(Envelope) /\ seq[w] \in Nat /\ Len(queue[w]) \in Nat
      /\ queue \in [Writers -> Seq(Envelope)] /\ seq \in [Writers -> Nat]
      /\ e \in Envelope
  BY DEF AppendEvent, TypeInv, TypeOK, Envelope
<1>2. /\ file' = file /\ openTail' = openTail /\ acked' = acked /\ writing' = writing /\ up' = up
      /\ seq' = [seq EXCEPT ![w] = @ + 1]
      /\ queue' = [queue EXCEPT ![w] = Append(@, e)]
  BY DEF AppendEvent
<1>3. /\ Len(Append(queue[w], e)) = Len(queue[w]) + 1
      /\ Append(queue[w], e) \in Seq(Envelope)
      /\ Append(queue[w], e) # <<>>
      /\ \A k \in 1..Len(queue[w]) : Append(queue[w], e)[k] = queue[w][k]
  BY <1>1, AppendFacts
<1>4. \A v \in Writers : Base(v)' = Base(v)
  BY <1>1, <1>2, <1>3 DEF Base
<1>5. ASSUME NEW v \in Writers, queue[v] # <<>>
      PROVE  Head(queue'[v]) = Head(queue[v])
  <2>1. CASE v = w
    <3>1. queue'[w] = Append(queue[w], e) /\ queue'[w] # <<>> /\ queue'[w] \in Seq(Envelope)
      BY <1>1, <1>2, <1>3 DEF TypeInv
    <3>2. 1 \in 1..Len(queue[w])
      BY <1>1, <1>5, <2>1
    <3>3. Head(queue'[w]) = queue'[w][1] /\ Head(queue[w]) = queue[w][1]
      BY <1>1, <1>5, <2>1, <3>1, TailFacts
    <3>4. QED
      BY <1>3, <2>1, <3>1, <3>2, <3>3
  <2>2. CASE v # w
    BY <1>1, <1>2, <2>2
  <2>3. QED
    BY <2>1, <2>2
<1>6. \A v \in Writers : writing[v] = "fresh" => Head(queue'[v]) = Head(queue[v])
  BY <1>5 DEF TypeInv, WriteInv
<1>7. Closed' = Closed
  BY <1>2 DEF Closed
<1>8. QED
  BY <1>2, <1>4, <1>6, <1>7 DEF CleanInv

LEMMA CleanInvNext ==
  ASSUME NoFaults
  PROVE  TypeInv /\ OrderInv /\ CleanInv /\ [Next]_vars => CleanInv'
<1> SUFFICES ASSUME TypeInv, OrderInv, CleanInv, [Next]_vars
             PROVE  CleanInv'
  OBVIOUS
<1>1. ASSUME SoleWriter
      PROVE  ~openTail /\ Closed = Len(file)
  <2>1. \A w \in Writers : writing[w] = "idle"
    BY <1>1 DEF SoleWriter, TypeInv, WriteInv
  <2>2. QED
    BY <2>1, CleanIdle
<1>2. ASSUME NEW w \in Writers, SoleWriter, Create(w)
      PROVE  CleanInv'
  <2>1. StartSession(w, 0) /\ file = <<>>
    BY <1>2 DEF Create, OrderInv
  <2>2. Closed = 0
    BY <1>1, <1>2, <2>1
  <2>3. QED
    BY <1>2, <2>1, <2>2, CleanInvStart
<1>3. ASSUME NEW w \in Writers, SoleWriter, Open(w)
      PROVE  CleanInv'
  <2>1. Closed \in Nat /\ Closed = Complete(file)
    BY <1>1, <1>3, CleanComplete
  <2>2. StartSession(w, Closed)
    BY <1>3, <2>1 DEF Open, LastSeq
  <2>3. QED
    BY <1>3, <2>1, <2>2, CleanInvStart
<1>4. ASSUME NEW w \in Writers, EndSession(w), writing[w] = "idle"
      PROVE  CleanInv'
  <2>1. /\ file' = file /\ openTail' = openTail /\ acked' = acked
        /\ \A v \in Writers : writing'[v] = writing[v]
        /\ \A v \in Writers : up'[v] => v # w /\ up[v]
        /\ \A v \in Writers : v # w => seq'[v] = seq[v] /\ queue'[v] = queue[v]
    BY <1>4 DEF EndSession, TypeInv, TypeOK
  <2>2. Closed' = Closed
    BY <2>1 DEF Closed
  <2>3. QED
    BY <1>4, <2>1, <2>2 DEF CleanInv, Base
<1>5. ASSUME NEW w \in Writers, Close(w)
      PROVE  CleanInv'
  BY <1>4, <1>5 DEF Close, TypeInv, WriteInv
<1>6. ASSUME NEW w \in Writers, Crash(w)
      PROVE  CleanInv'
  BY <1>4, <1>6, NoFaults DEF Crash, NoFaults
<1>7. ASSUME NEW w \in Writers, WriteFail(w)
      PROVE  CleanInv'
  BY <1>7 DEF WriteFail, NoFaults
<1>8. CASE UNCHANGED vars
  BY <1>8 DEF vars, CleanInv, Closed, Base
<1>9. QED
  BY <1>2, <1>3, <1>5, <1>6, <1>7, <1>8, CleanInvAppend, CleanInvWriteStart,
     CleanInvWriteFinish DEF Next

\* While no write is cut or refused, the log reads back at every instant ...
THEOREM Recoverable == NoFaults => (Spec => []AlwaysReadable)
<1> SUFFICES ASSUME NoFaults
             PROVE  Spec => []AlwaysReadable
  OBVIOUS
<1>1. TypeInv /\ OrderInv /\ CleanInv => AlwaysReadable
  BY CleanReadable DEF AlwaysReadable
<1>2. QED
  BY <1>1, TypeInvInit, TypeInvNext, OrderInvInit, OrderInvNext,
     CleanInvInit, CleanInvNext, PTL DEF Spec

\* ... and what it returns holds every acknowledged event.
THEOREM AckedNeverLost == NoFaults => (Spec => []NoSilentLoss)
<1> SUFFICES ASSUME NoFaults
             PROVE  Spec => []NoSilentLoss
  OBVIOUS
<1>1. TypeInv /\ OrderInv /\ CleanInv => NoSilentLoss
  BY CleanReadable DEF NoSilentLoss
<1>2. QED
  BY <1>1, TypeInvInit, TypeInvNext, OrderInvInit, OrderInvNext,
     CleanInvInit, CleanInvNext, PTL DEF Spec

-----------------------------------------------------------------------------
(* The store implements the log it promises *)

\* Events are numbered in the order of their append calls: on a chain they
\* increase, and they are above those of the terminated lines.
IdInv ==
  /\ issued <= MaxAppends
  /\ \A i \in 1..Closed : file[i].id \in 1..issued
  /\ \A w \in Writers : \A k \in 1..Len(queue[w]) :
       /\ queue[w][k].id \in 1..issued
       /\ \A i \in 1..Closed : file[i].id < queue[w][k].id
       /\ \A j \in 1..Len(queue[w]) : j < k => queue[w][j].id < queue[w][k].id

LEMMA IdInvInit == Init => IdInv
BY BoundsAssumption DEF Init, IdInv, Closed

\* Nothing but the file and the chains matters to IdInv, and a chain may
\* always be dropped.
LEMMA IdInvKeep ==
  ASSUME IdInv, file' = file, openTail' = openTail, issued' = issued,
         \A v \in Writers : queue'[v] = queue[v] \/ queue'[v] = <<>>
  PROVE  IdInv'
<1>1. Closed' = Closed
  BY DEF Closed
<1>2. ASSUME NEW v \in Writers, NEW k \in 1..Len(queue'[v])
      PROVE  queue'[v] = queue[v]
  BY <1>2
<1>3. QED
  BY <1>1, <1>2 DEF IdInv

LEMMA IdInvAppend ==
  ASSUME TypeInv, OrderInv, CleanInv, IdInv, NEW w \in Writers, AppendEvent(w)
  PROVE  IdInv'
<1> DEFINE e == [seq |-> seq[w] + 1, id |-> issued + 1]
<1>1. /\ queue[w] \in Seq(Envelope) /\ Len(queue[w]) \in Nat
      /\ queue \in [Writers -> Seq(Envelope)] /\ issued \in Nat
      /\ e \in Envelope /\ e.id = issued + 1 /\ issued < MaxAppends
  BY DEF AppendEvent, TypeInv, TypeOK, Envelope
<1>2. /\ file' = file /\ openTail' = openTail /\ issued' = issued + 1
      /\ queue' = [queue EXCEPT ![w] = Append(@, e)]
  BY DEF AppendEvent
<1>3. Closed' = Closed
  BY <1>2 DEF Closed
<1>4. /\ Len(queue'[w]) = Len(queue[w]) + 1
      /\ \A k \in 1..Len(queue[w]) : queue'[w][k] = queue[w][k]
      /\ queue'[w][Len(queue[w]) + 1] = e
  <2>1. queue'[w] = Append(queue[w], e)
    BY <1>1, <1>2
  <2>2. QED
    BY <1>1, <2>1, AppendFacts
<1>5. \A i \in 1..Closed : file'[i].id \in 1..issued' /\ file[i].id < issued + 1
  BY <1>1, <1>2 DEF IdInv
<1>6. \A n \in 1..issued : n \in 1..issued' /\ n < issued + 1
  BY <1>1, <1>2
<1>7. \A v \in Writers : \A k \in 1..Len(queue[v]) :
        queue[v][k].id \in 1..issued' /\ queue[v][k].id < issued + 1
  BY <1>6 DEF IdInv
<1>8. ASSUME NEW v \in Writers, NEW k \in 1..Len(queue'[v])
      PROVE  /\ queue'[v][k].id \in 1..issued'
             /\ \A i \in 1..Closed : file'[i].id < queue'[v][k].id
             /\ \A j \in 1..Len(queue'[v]) : j < k => queue'[v][j].id < queue'[v][k].id
  <2>1. CASE v # w
    <3>1. queue'[v] = queue[v]
      BY <1>1, <1>2, <2>1
    <3>2. QED
      BY <1>2, <1>8, <1>7, <3>1 DEF IdInv
  <2>2. CASE v = w /\ k \in 1..Len(queue[w])
    <3>1. \A j \in 1..Len(queue'[v]) : j < k => j \in 1..Len(queue[w])
      BY <1>1, <1>4, <2>2
    <3>2. QED
      BY <1>2, <1>4, <1>7, <2>2, <3>1 DEF IdInv
  <2>3. CASE v = w /\ k = Len(queue[w]) + 1
    <3>1. queue'[v][k].id = issued + 1
      BY <1>1, <1>4, <2>3
    <3>2. \A j \in 1..Len(queue'[v]) : j < k => j \in 1..Len(queue[w])
      BY <1>1, <1>4, <2>3
    <3>3. \A j \in 1..Len(queue[w]) : queue'[w][j].id < issued + 1
      BY <1>4, <1>7
    <3>4. QED
      BY <1>1, <1>2, <1>5, <2>3, <3>1, <3>2, <3>3
  <2>4. QED
    BY <1>1, <1>4, <1>8, <2>1, <2>2, <2>3
<1>9. issued' <= MaxAppends
  BY <1>1, <1>2, BoundsAssumption
<1>10. QED
  BY <1>3, <1>5, <1>8, <1>9 DEF IdInv

LEMMA IdInvWriteStart ==
  ASSUME TypeInv, OrderInv, CleanInv, IdInv, NEW w \in Writers, WriteStart(w)
  PROVE  IdInv'
<1>1. /\ ~openTail /\ Closed' = Closed
      /\ \E part \in {Bad, Head(queue[w])} : file' = Append(file, part)
  BY CleanInvWriteStart
<1>2. Closed = Len(file) /\ file \in Seq(Line) /\ queue' = queue /\ issued' = issued
      /\ Head(queue[w]) \in Line /\ Bad \in Line
  BY <1>1, LineFields, TailFacts DEF Closed, WriteStart, TypeInv, TypeOK
<1>3. \A i \in 1..Closed : file'[i] = file[i]
  BY <1>1, <1>2, AppendFacts
<1>4. QED
  BY <1>1, <1>2, <1>3 DEF IdInv

LEMMA IdInvWriteFinish ==
  ASSUME TypeInv, OrderInv, CleanInv, IdInv, NEW w \in Writers, WriteFinish(w)
  PROVE  IdInv'
<1>1. /\ openTail /\ Len(file) \in Nat \ {0} /\ Closed' = Len(file)
      /\ file'[Len(file)] = Head(queue[w])
      /\ \A i \in 1..Len(file) : i # Len(file) => file'[i] = file[i]
  BY CleanInvWriteFinish
<1>2. /\ queue[w] \in Seq(Envelope) /\ queue[w] # <<>> /\ up[w]
      /\ queue \in [Writers -> Seq(Envelope)] /\ issued \in Nat
  BY DEF WriteFinish, TypeInv, TypeOK, WriteInv
<1>3. queue' = [queue EXCEPT ![w] = Tail(@)] /\ issued' = issued
  BY DEF WriteFinish
<1>4. /\ Len(queue[w]) \in Nat \ {0}
      /\ queue'[w] = Tail(queue[w])
      /\ Len(queue'[w]) = Len(queue[w]) - 1
      /\ \A k \in 1..Len(queue'[w]) : queue'[w][k] = queue[w][k + 1]
      /\ Head(queue[w]) = queue[w][1]
  BY <1>2, <1>3, TailFacts
<1>5. \A k \in 1..Len(queue'[w]) :
        k + 1 \in 1..Len(queue[w]) /\ 1 \in 1..Len(queue[w]) /\ 1 < k + 1
  BY <1>4
<1>6. \A i \in 1..Closed' : i = Len(file) \/ (i \in 1..Closed /\ file'[i] = file[i])
  BY <1>1 DEF Closed
<1>7. \A v \in Writers : v # w => queue'[v] = <<>>
  BY <1>2, <1>3 DEF TypeInv, WriteInv, OrderInv
<1>8. \A i \in 1..Closed' : file'[i].id \in 1..issued'
  <2>1. 1 \in 1..Len(queue[w])
    BY <1>4
  <2>2. Head(queue[w]).id \in 1..issued
    BY <1>4, <2>1 DEF IdInv
  <2>3. QED
    BY <1>1, <1>3, <1>6, <2>2 DEF IdInv
<1>9. ASSUME NEW k \in 1..Len(queue'[w])
      PROVE  /\ queue'[w][k].id \in 1..issued'
             /\ \A i \in 1..Closed' : file'[i].id < queue'[w][k].id
             /\ \A j \in 1..Len(queue'[w]) : j < k => queue'[w][j].id < queue'[w][k].id
  <2>1. queue'[w][k] = queue[w][k + 1] /\ k + 1 \in 1..Len(queue[w])
    BY <1>4, <1>5
  <2>2. queue[w][1].id < queue[w][k + 1].id
    BY <1>5, <2>1 DEF IdInv
  <2>3. \A i \in 1..Closed' : file'[i].id < queue[w][k + 1].id
    BY <1>1, <1>4, <1>6, <2>1, <2>2 DEF IdInv
  <2>4. \A j \in 1..Len(queue'[w]) : j < k =>
          j + 1 \in 1..Len(queue[w]) /\ j + 1 < k + 1 /\ queue'[w][j] = queue[w][j + 1]
    BY <1>4, <1>5
  <2>5. QED
    BY <1>3, <2>1, <2>3, <2>4 DEF IdInv
<1>10. ASSUME NEW v \in Writers, NEW k \in 1..Len(queue'[v])
       PROVE  v = w
  BY <1>7, <1>10
<1>11. QED
  BY <1>3, <1>8, <1>9, <1>10 DEF IdInv

LEMMA IdInvNext ==
  ASSUME NoFaults
  PROVE  TypeInv /\ OrderInv /\ CleanInv /\ IdInv /\ [Next]_vars => IdInv'
<1> SUFFICES ASSUME TypeInv, OrderInv, CleanInv, IdInv, [Next]_vars
             PROVE  IdInv'
  OBVIOUS
<1>1. ASSUME NEW w \in Writers, NEW last, StartSession(w, last)
      PROVE  IdInv'
  BY <1>1, IdInvKeep DEF StartSession
<1>2. ASSUME NEW w \in Writers, EndSession(w)
      PROVE  IdInv'
  <2>1. \A v \in Writers : queue'[v] = queue[v] \/ queue'[v] = <<>>
    BY <1>2 DEF EndSession, TypeInv, TypeOK
  <2>2. QED
    BY <1>2, <2>1, IdInvKeep DEF EndSession
<1>3. ASSUME NEW w \in Writers, WriteFail(w)
      PROVE  IdInv'
  BY <1>3 DEF WriteFail, NoFaults
<1>4. CASE UNCHANGED vars
  BY <1>4, IdInvKeep DEF vars
<1>5. QED
  BY <1>1, <1>2, <1>3, <1>4, IdInvAppend, IdInvWriteStart, IdInvWriteFinish
     DEF Next, Create, Open, Close, Crash

\* What a replay returns, as the log of the promise.
Mapped(f) == [i \in 1..Complete(f) |-> f[i].id]

LEMMA MappedFacts ==
  ASSUME NEW f \in Seq(Line)
  PROVE  /\ Mapped(f) \in Seq(Nat) /\ Len(Mapped(f)) = Complete(f)
         /\ \A i \in 1..Complete(f) : Mapped(f)[i] = f[i].id
<1>1. Complete(f) \in Nat /\ \A i \in 1..Complete(f) : f[i].id \in Nat
  BY CompleteFacts, LineFields
<1>2. QED
  BY <1>1 DEF Mapped

LEMMA DurableStutter ==
  ASSUME file' = file, acked' = acked
  PROVE  UNCHANGED Durable!vars
BY DEF Durable!vars, Complete

LEMMA DurableStart ==
  ASSUME TypeInv, OrderInv, CleanInv, IdInv, NEW w \in Writers, WriteStart(w)
  PROVE  [Durable!Next]_(Durable!vars)
<1>1. ~openTail
  BY CleanInvWriteStart
<1>2. PICK part \in {Bad, Head(queue[w])} : file' = Append(file, part)
  BY CleanInvWriteStart
<1>3. /\ file \in Seq(Line) /\ Len(file) \in Nat /\ acked' = acked
      /\ queue[w] \in Seq(Envelope) /\ queue[w] # <<>>
  BY DEF WriteStart, TypeInv, TypeOK
<1>4. /\ Head(queue[w]) \in Envelope /\ Head(queue[w]) \in Line /\ Head(queue[w]) # Bad
      /\ Bad \in Line
      /\ Head(queue[w]) = queue[w][1] /\ 1 \in 1..Len(queue[w])
  BY <1>3, TailFacts, LineFields
<1>5. /\ file' \in Seq(Line) /\ Len(file') = Len(file) + 1
      /\ file'[Len(file')] = part
      /\ \A i \in 1..Len(file) : file'[i] = file[i]
  BY <1>2, <1>3, <1>4, AppendFacts
<1>6. Complete(file) = Len(file) /\ Closed = Len(file)
  BY <1>1, CleanComplete DEF Closed
<1>7. CASE part = Bad
  <2>1. Complete(file') = Len(file)
    BY <1>3, <1>5, <1>7 DEF Complete
  <2>2. Mapped(file') = Mapped(file)
    BY <1>5, <1>6, <2>1 DEF Mapped
  <2>3. QED
    BY <1>3, <2>2 DEF Mapped, Durable!vars
<1>8. CASE part = Head(queue[w])
  <2>1. Complete(file') = Len(file) + 1
    BY <1>3, <1>4, <1>5, <1>8 DEF Complete
  <2>2. part.id \in 1..MaxAppends /\ part.id \in Nat
    BY <1>4, <1>8, BoundsAssumption DEF IdInv, TypeInv, TypeOK
  <2>3. /\ Mapped(file) \in Seq(Nat) /\ Len(Mapped(file)) = Len(file)
        /\ \A i \in 1..Len(file) : Mapped(file)[i] = file[i].id
    BY <1>3, <1>6, MappedFacts
  <2>4. /\ Mapped(file') \in Seq(Nat) /\ Len(Mapped(file')) = Len(file) + 1
        /\ \A i \in 1..(Len(file) + 1) : Mapped(file')[i] = file'[i].id
    BY <1>5, <2>1, MappedFacts
  <2>5. /\ Append(Mapped(file), part.id) \in Seq(Nat)
        /\ Len(Append(Mapped(file), part.id)) = Len(file) + 1
        /\ \A i \in 1..Len(file) : Append(Mapped(file), part.id)[i] = Mapped(file)[i]
        /\ Append(Mapped(file), part.id)[Len(file) + 1] = part.id
    BY <2>2, <2>3, AppendFacts
  <2>6. \A i \in 1..(Len(file) + 1) : Mapped(file')[i] = Append(Mapped(file), part.id)[i]
    <3>1. \A i \in 1..(Len(file) + 1) : i \in 1..Len(file) \/ i = Len(file) + 1
      BY <1>3
    <3>2. QED
      BY <1>5, <2>3, <2>4, <2>5, <3>1
  <2>7. Mapped(file') = Append(Mapped(file), part.id)
    BY <2>4, <2>5, <2>6, SeqEqual
  <2>8. \A i \in 1..Len(Mapped(file)) : Mapped(file)[i] < part.id
    BY <1>4, <1>6, <1>8, <2>3 DEF IdInv
  <2>9. Durable!Commit(part.id)
    BY <1>3, <2>7, <2>8 DEF Durable!Commit, Mapped
  <2>10. QED
    BY <2>2, <2>9 DEF Durable!Next
<1>9. QED
  BY <1>7, <1>8

LEMMA DurableFinish ==
  ASSUME TypeInv, OrderInv, CleanInv, IdInv, NEW w \in Writers, WriteFinish(w)
  PROVE  [Durable!Next]_(Durable!vars)
<1> DEFINE h == Head(queue[w])
           n == Len(file)
<1>1. /\ openTail /\ Len(file') = n /\ n \in Nat \ {0}
      /\ file'[n] = h /\ file[n] \in {Bad, h} /\ h # Bad
      /\ \A i \in 1..n : i # n => file'[i] = file[i]
  BY CleanInvWriteFinish
<1>2. CleanInv' /\ TypeInv' /\ OrderInv' /\ ~openTail'
  <2>1. [Next]_vars
    BY DEF Next
  <2>2. ~openTail'
    BY DEF WriteFinish
  <2>3. QED
    BY <2>1, <2>2, CleanInvWriteFinish, TypeInvNext, OrderInvWriteFinish
<1>3. /\ file \in Seq(Line) /\ file' \in Seq(Line)
      /\ queue[w] \in Seq(Envelope) /\ queue[w] # <<>>
      /\ acked' = acked \cup {h.id}
  BY <1>2 DEF WriteFinish, TypeInv, TypeOK, WriteInv
<1>4. h \in Envelope /\ h = queue[w][1] /\ 1 \in 1..Len(queue[w])
  BY <1>3, TailFacts
<1>5. h.id \in 1..MaxAppends /\ h.id \in Nat
  <2>1. h.id \in 1..issued
    BY <1>4 DEF IdInv
  <2>2. issued <= MaxAppends /\ issued \in Nat /\ MaxAppends \in Nat
    BY BoundsAssumption DEF IdInv, TypeInv, TypeOK
  <2>3. QED
    BY <2>1, <2>2
<1>6. Complete(file') = n
  BY <1>1 DEF Complete
<1>7. /\ Mapped(file') \in Seq(Nat) /\ Len(Mapped(file')) = n
      /\ \A i \in 1..n : Mapped(file')[i] = file'[i].id
  BY <1>3, <1>6, MappedFacts
<1>8. CASE file[n] = h
  <2>1. Complete(file) = n
    BY <1>1, <1>8 DEF Complete
  <2>2. /\ Mapped(file) \in Seq(Nat) /\ Len(Mapped(file)) = n
        /\ \A i \in 1..n : Mapped(file)[i] = file[i].id
    BY <1>3, <2>1, MappedFacts
  <2>3. \A i \in 1..n : Mapped(file')[i] = Mapped(file)[i]
    BY <1>1, <1>7, <1>8, <2>2
  <2>4. Mapped(file') = Mapped(file)
    BY <1>7, <2>2, <2>3, SeqEqual
  <2>5. n \in 1..Len(Mapped(file)) /\ Mapped(file)[n] = h.id
    BY <1>1, <1>8, <2>2
  <2>6. Durable!Acknowledge(h.id)
    BY <1>3, <2>4, <2>5 DEF Durable!Acknowledge, Mapped
  <2>7. QED
    BY <1>5, <2>6 DEF Durable!Next
<1>9. CASE file[n] = Bad
  <2>1. Complete(file) = n - 1 /\ Closed = n - 1 /\ n - 1 \in Nat
    BY <1>1, <1>9 DEF Complete, Closed
  <2>2. /\ Mapped(file) \in Seq(Nat) /\ Len(Mapped(file)) = n - 1
        /\ \A i \in 1..(n - 1) : Mapped(file)[i] = file[i].id
    BY <1>3, <2>1, MappedFacts
  <2>3. /\ Append(Mapped(file), h.id) \in Seq(Nat)
        /\ Len(Append(Mapped(file), h.id)) = n
        /\ \A i \in 1..(n - 1) : Append(Mapped(file), h.id)[i] = Mapped(file)[i]
        /\ Append(Mapped(file), h.id)[n] = h.id
    <3>1. (n - 1) + 1 = n
      BY <1>1
    <3>2. QED
      BY <1>5, <2>2, <3>1, AppendFacts
  <2>4. \A i \in 1..n : Mapped(file')[i] = Append(Mapped(file), h.id)[i]
    <3>1. \A i \in 1..n : i = n \/ (i # n /\ i \in 1..(n - 1))
      BY <1>1
    <3>2. QED
      BY <1>1, <1>7, <2>2, <2>3, <3>1
  <2>5. Mapped(file') = Append(Mapped(file), h.id)
    BY <1>7, <2>3, <2>4, SeqEqual
  <2>6. \A i \in 1..Len(Mapped(file)) : Mapped(file)[i] < h.id
    BY <1>4, <2>1, <2>2 DEF IdInv
  <2>7. PICK e \in 1..MaxAppends : e = h.id
    BY <1>5
  <2>8. Durable!Commit(e)
    BY <1>3, <2>5, <2>6, <2>7 DEF Durable!Commit, Mapped
  <2>9. QED
    BY <2>8 DEF Durable!Next
<1>10. QED
  BY <1>1, <1>8, <1>9

LEMMA DurableStep ==
  ASSUME NoFaults
  PROVE  TypeInv /\ OrderInv /\ CleanInv /\ IdInv /\ [Next]_vars
           => [Durable!Next]_(Durable!vars)
<1> SUFFICES ASSUME TypeInv, OrderInv, CleanInv, IdInv, [Next]_vars
             PROVE  [Durable!Next]_(Durable!vars)
  OBVIOUS
<1>1. CASE file' = file /\ acked' = acked
  BY <1>1, DurableStutter
<1>2. ASSUME NEW w \in Writers,
             \/ Create(w) \/ Open(w) \/ AppendEvent(w) \/ WriteFail(w)
             \/ Close(w) \/ Crash(w)
      PROVE  file' = file /\ acked' = acked
  BY <1>2 DEF Create, Open, StartSession, AppendEvent, WriteFail, Close, Crash, EndSession
<1>3. CASE UNCHANGED vars
  BY <1>1, <1>3 DEF vars
<1>4. QED
  BY <1>1, <1>2, <1>3, DurableStart, DurableFinish DEF Next

\* While no write is cut or refused, the store implements the log it promises:
\* append-only, in the order of the append calls, holding all that was
\* acknowledged, over any number of crashes and reopenings.
THEOREM StoreIsDurable == NoFaults => (Spec => ImplementsDurableLog)
<1> SUFFICES ASSUME NoFaults
             PROVE  Spec => ImplementsDurableLog
  OBVIOUS
<1>1. Init => Durable!Init
  <2>1. ASSUME Init
        PROVE  Mapped(file) = <<>>
    <3>1. file \in Seq(Line) /\ Complete(file) = 0
      BY <2>1 DEF Init, Complete
    <3>2. Mapped(file) \in Seq(Nat) /\ Len(Mapped(file)) = 0
      BY <3>1, MappedFacts
    <3>3. QED
      BY <3>2
  <2>2. QED
    BY <2>1 DEF Init, Durable!Init, Mapped
<1>2. QED
  BY <1>1, TypeInvInit, TypeInvNext, OrderInvInit, OrderInvNext, CleanInvInit,
     CleanInvNext, IdInvInit, IdInvNext, DurableStep, PTL
     DEF Spec, ImplementsDurableLog, Durable!Spec

=============================================================================
